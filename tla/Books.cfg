SPECIFICATION Spec
CONSTANTS
  Calls = {c1, c2}
  Keys = {k1, k2}
  Invoices = 3
  InvoiceTotal = 2
  MaxPayments = 2
  Amount = {1, 3}
  Year = {2082}
  Months = 2
  MaxRows = 3
  MaxDocs = 2
  MaxEntries = 2
  MaxDay = 2
  FirstYear = 1
  LastYear = 5
  MonthLength <- ShortMonths
  FyStart = 2
  FilingDay = 2
  BucketLimits = {1, 3}
  Horizon = 4
  Upcoming = 2
  Ref = {i1}
  MaxPosted = 1
  MaxReports = 2
  MaxConnectors = 2
  MaxJobs = 2
  Company = {t1}
  NoCompany = NoCompany
  Setup = {o1, o2}
  Tool = {q1}
  Worker = {w1, w2}
  Simulated = {w2}
  Production = TRUE
INVARIANTS
  AllTypesOK
  BooksAgree
  PaymentsAsAsked
  PaperTrail
  EntriesAsShown
  FilingsRight
  ToldFromLiveLink
PROPERTIES
  ImplementsAnswers
  EveryCallEnds
\* The inputs are bounded: the model may stop.
CHECK_DEADLOCK FALSE
