CONSTANTS
  Tenant = {t1}
  Worker = {w1, w2}
  Event = {e1, e2}
  Drainer = {d1, d2}
  Account = {a1, a2}
  Template = {m1}
  Call = {c1, c2}
  MaxInputs = 2
SPECIFICATION Spec
INVARIANTS
  AllTypesOK
  SaidAndLogged
PROPERTIES
  SettlesInTheEnd
  RefusedThroughOutage
\* The overlapping ticks are counted: they may stop.
CHECK_DEADLOCK FALSE
