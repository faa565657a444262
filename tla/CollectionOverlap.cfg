SPECIFICATION Spec
CONSTANTS
  Pidx = {p1}
  Request = {r1, r2}
  SaleId = {s1, s2}
  Amount = {a1}
  NoSale = NoSale
  ReopenCancelled = FALSE
INVARIANT AtMostOneSale
CHECK_DEADLOCK FALSE
