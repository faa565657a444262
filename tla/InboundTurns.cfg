SPECIFICATION MCSpec
CONSTANTS
  m1 = m1
  m2 = m2
  s1 = s1
  s2 = s2
  Message = {m1, m2}
  Sender = {s1, s2}
  NoMessage = NoMessage
  MaxHolds = 1
  MaxSays = 2
  MaxDeliveries = 2
INVARIANTS
  TypeOK
  StrayOnlyAfterCut
PROPERTIES
  SpokenOnce
  EveryTurnEnds
\* Messages come from outside, and their deliveries are bounded: the model may stop.
CHECK_DEADLOCK FALSE
