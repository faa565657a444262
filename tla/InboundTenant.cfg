SPECIFICATION Spec
CONSTANTS
  Message = {m1, m2}
  Sender = {s1, s2}
  NoMessage = NoMessage
  MaxHolds = 1
  MaxSays = 1
  MaxDeliveries = 2
INVARIANT OneTurnPerTenant
\* Messages come from outside, and their deliveries are bounded: the model may stop.
CHECK_DEADLOCK FALSE
