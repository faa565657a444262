SPECIFICATION LabSpec
CONSTANTS
  Worker = {w1, w2}
  Episode = {e1, e2}
  Choice = {c1, c2}
  NoChoice = NoChoice
  Batches = 3
  MaxAttempts = 2
  MaxToken = 3
  Fragile = {e1}
  MaxSteps = 24
  MaxDecisions = 8
  OwnerNudges = 2
  MaxRetries = 2
  Run = {r1, r2}
  Queueable = {r2}
  Scenario = {s1, s2}
  Selection = {{s1, s2}}
  MaxReviews = 1
INVARIANTS
  AllTypesOK
  RecordsStand
  RehearsalSound
PROPERTIES
  PlayedOnce
  EpisodesEnd
\* An episode that is over, and workers with nothing left to do, stop.
CHECK_DEADLOCK FALSE
