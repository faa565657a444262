SPECIFICATION FairSpec
CONSTANTS
  Worker = {w1}
  Episode = {e1}
  Choice = {c1}
  NoChoice = NoChoice
  Batches = 2
  MaxAttempts = 1
  MaxToken = 2
  Fragile = {e1}
PROPERTIES
  LastEpisodeFinalises
\* A run that is over leaves the workers idle: the model may stop.
CHECK_DEADLOCK FALSE
