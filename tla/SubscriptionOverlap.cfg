SPECIFICATION Spec
CONSTANTS
  Pidx = {p1}
  Request = {r1, r2}
  Dunner = {}
  MonthDays = 2
  TrialDays = 1
  GraceDays = 1
  NudgeDays = 1
  MaxDay = 1
  HasNumber = TRUE
  MayCancel = FALSE
  MayFail = FALSE
INVARIANT ExtendedOnce
CHECK_DEADLOCK FALSE
