SPECIFICATION LedgerSpec
CONSTANTS
  Pidx = {p1}
  Request = {r1, r2}
  SaleId = {s1, s2, s3}
  Amount = {a1, a2}
  NoSale = NoSale
  ReopenCancelled = TRUE
  OneRequest = {r1}
  Dunners = {d1}
  MonthDays = 2
  TrialDays = 1
  GraceDays = 1
  NudgeDays = 1
  MaxDay = 4
  Member = {m1, m2, m3}
  Recorder = {m1, m2}
  Reporter = {m1, m3}
  Confirmer = {m1}
  MaxEntries = 3
  MaxClock = 5
INVARIANTS
  TypeOK
  SaleBacked
  LatchPointsAtOwnSale
  TrailMatchesSales
  RefundedAtGateway
  DuplicatesOnlyByOverlap
  BillingTypeOK
  CreditBacked
  DraftTypeOK
  OneLiveVersion
PROPERTIES
  NudgesAndDays
  PaidIsCredited
  YesAfterDraft
  SettledAndCounted
\* Requests come from outside, and the calendar and the clock are bounded: the model may stop.
CHECK_DEADLOCK FALSE
