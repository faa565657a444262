SPECIFICATION Spec
CONSTANTS
  Call = {c1, c2}
  Key = {k1}
  Invoices = 1
  Total = 2
  MaxPayments = 1
  Amount = {1}
INVARIANTS
  AppliedOnce
\* Invoices, keys and payments are bounded: the model may stop.
CHECK_DEADLOCK FALSE
