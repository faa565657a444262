SPECIFICATION MCSpec
CONSTANTS
  n1 = n1
  n2 = n2
  n3 = n3
  t1 = t1
  t2 = t2
  Number = {n1, n2, n3}
  Tenant = {t1, t2}
  NoNumber = nobody
  NoTenant = none
  Plan = {"starter", "trial"}
  Seats <- SeatsOf
  WithAccountant = {"trial"}
  Role = {"staff", "accountant"}
  TrialPlan = "trial"
  NoSubscription = "starter"
  MaxFails = 2
  PerNumber = 2
  DailyCap = 2
  MaxInputs = 5
  Retrier = {r1, r2}
  Customer = {c1, c2}
  Failure = {"account", "template"}
  MaxAttempts = 2
  MaxSends = 4
  MaxSpendInputs = 3
  MaxPurgeInputs = 3
  MaxVaults = 2
  MaxTurns = 3
INVARIANTS
  AllTypesOK
  AccessSound
  OnboardingSound
  SpendingAndDeletion
SYMMETRY Symmetry
\* The inputs are bounded: the model may stop.
CHECK_DEADLOCK FALSE
