--------------------------- MODULE ComplianceCalendar --------------------------
(***************************************************************************)
(* Dates in the Nepali calendar (shared/src bsdate, calendar, aging and    *)
(* accounting/backdate; mcp-ledger/src calendar-tools.ts).                 *)
(*                                                                         *)
(* Days are numbered; Length gives the days of each month, as the date     *)
(* library has them.  From today's date the engine computes which returns  *)
(* and deposits are due and when, where the fiscal year begins and ends,   *)
(* how old each open invoice is, and to which month an entry belongs.      *)
(***************************************************************************)
EXTENDS Integers, FiniteSets, FiniteSetsExt, Functions

CONSTANTS
  FirstYear, LastYear,
  Length,       \* Length[<<y, m>>]: days of a month
  Months,       \* months in a year (12)
  FyStart,      \* the month in which the fiscal year begins (4)
  FilingDay,    \* day of the next month on which a return is due (25)
  BucketLimits, \* days past due at which the buckets of the ageing report end (30, 60, 90)
  Horizon, Upcoming,
  Ref, MaxPosted   \* bounds: open invoices and bills, entries recorded

VARIABLES
  today,   \* number of the day
  items,   \* open invoices and bills: when they are due
  posted   \* entries recorded: their day, the day of recording and the flag

vars == <<today, items, posted>>
-------------------------------------------------------------------------------
Month == (FirstYear..LastYear) \X (1..Months)

NextMonth(m) == IF m[2] = Months THEN <<m[1] + 1, 1>> ELSE <<m[1], m[2] + 1>>

Earlier(m, o) == m[1] < o[1] \/ (m[1] = o[1] /\ m[2] < o[2])

\* The first day of a month, and the day of a date.
StartOf == [m \in Month |-> SumFunctionOnSet(Length, {o \in Month : Earlier(o, m)})]

BsToAd(m, d) == StartOf[m] + d - 1

MonthOf(day) == CHOOSE m \in Month : StartOf[m] <= day /\ day < StartOf[m] + Length[m]

DayOfMonth(day) == day - StartOf[MonthOf(day)] + 1

LastDay(m) == BsToAd(m, Length[m])

\* The days for which the years before and after are also known.
Day == StartOf[<<FirstYear + 1, 1>>]..LastDay(<<LastYear - 2, Months>>)

\* An item that has no due date, and one that is settled or not made yet.
NoDate == 0
Closed == -1

TypeOK ==
  /\ today \in Day
  /\ items \in [Ref -> Day \cup {NoDate, Closed}]
  /\ posted \subseteq [day: Day, recorded: Day, backdated: BOOLEAN]

Init ==
  /\ today = StartOf[<<FirstYear + 1, 1>>]
  /\ items = [r \in Ref |-> Closed]
  /\ posted = {}
-------------------------------------------------------------------------------
\* Operators named ...Mutant are wrong versions of the definition after them,
\* kept to show that a property notices the change; the model does not use them.

\* Mutant: the year does not roll back.
PreviousMonthMutant(m) == IF m[2] = 1 THEN <<m[1], Months>> ELSE <<m[1], m[2] - 1>>

PreviousMonth(m) == IF m[2] = 1 THEN <<m[1] - 1, Months>> ELSE <<m[1], m[2] - 1>>

\* Mutant: the last month's return is due in the same year.
FilingDeadlineMutant(m) ==
  BsToAd(IF m[2] = Months THEN <<m[1], 1>> ELSE <<m[1], m[2] + 1>>, FilingDay)

\* VAT returns and TDS deposits share the rule.
FilingDeadline(m) == BsToAd(NextMonth(m), FilingDay)

FiscalYear(m) == IF m[2] >= FyStart THEN m[1] ELSE m[1] - 1

Kinds == <<"bill_due", "fiscal_year_end", "fiscal_year_start", "invoice_due", "tds_deposit", "vat_filing">>

Event(kind, about, due) == [kind |-> kind, about |-> about, due |-> due, daysUntil |-> due - today]

Statutory ==
  UNION { {Event("vat_filing", m, FilingDeadline(m)), Event("tds_deposit", m, FilingDeadline(m))} :
          m \in {PreviousMonth(MonthOf(today)), MonthOf(today)} }

\* The fiscal year ends with the month before the next one begins.
YearBounds ==
  LET fy == FiscalYear(MonthOf(today)) IN
  { Event("fiscal_year_start", <<fy, FyStart>>, BsToAd(<<fy, FyStart>>, 1)),
    Event("fiscal_year_end", <<fy, FyStart>>, LastDay(PreviousMonth(<<fy + 1, FyStart>>))) }

DueItems == { Event("invoice_due", r, items[r]) : r \in {r \in Ref : items[r] \in Day} }

\* What is due within the horizon, and what is overdue.
Calendar == {e \in Statutory \cup YearBounds \cup DueItems : e.daysUntil <= Horizon}

KindNumber(k) == CHOOSE i \in DOMAIN Kinds : Kinds[i] = k

Before(e, o) ==
  \/ e.due < o.due
  \/ e.due = o.due /\ KindNumber(e.kind) < KindNumber(o.kind)

\* The next deadlines, most imminent first: what comes before one of them is listed
\* before it.
NextDeadlines ==
  LET coming == {e \in Calendar : e.daysUntil >= 0}
      places == 1..Min({Upcoming, Cardinality(coming)})
  IN CHOOSE list \in [places -> coming] :
       \A i \in places :
         LET listed == {list[j] : j \in 1..(i - 1)}
         IN list[i] \notin listed /\ \A e \in coming : Before(e, list[i]) => e \in listed

\* Mutant: the last day of a bucket is the first of the next.
BucketMutant(days) == Cardinality({l \in BucketLimits \cup {0} : days >= l})

\* Days past due: not yet due, up to each limit, beyond the last.
Bucket(days) == Cardinality({l \in BucketLimits \cup {0} : days > l})

DaysPastDue(r) == today - items[r]

\* Mutant: the months are compared without their years.
BackdatedMutant(day) == MonthOf(day)[2] < MonthOf(today)[2]

\* The entry belongs to a month before the current one.
Backdated(day) == Earlier(MonthOf(day), MonthOf(today))
-------------------------------------------------------------------------------
NextDay == today + 1 \in Day /\ today' = today + 1 /\ UNCHANGED <<items, posted>>

\* An invoice is confirmed, with or without a due date, or paid off.
Open(r) ==
  /\ items[r] = Closed
  /\ \E due \in {NoDate, today, today + 1} : due \in Day \cup {NoDate} /\ items' = [items EXCEPT ![r] = due]
  /\ UNCHANGED <<today, posted>>

Close(r) ==
  /\ items[r] # Closed /\ items' = [items EXCEPT ![r] = Closed]
  /\ UNCHANGED <<today, posted>>

\* An entry dated ahead of today is refused.
Post(day) ==
  /\ day <= today /\ Cardinality(posted) < MaxPosted
  /\ posted' = posted \cup {[day |-> day, recorded |-> today, backdated |-> Backdated(day)]}
  /\ UNCHANGED <<today, items>>

Next ==
  \/ NextDay
  \/ \E r \in Ref : Open(r) \/ Close(r)
  \/ \E day \in Day : Post(day)

Spec == Init /\ [][Next]_vars
-------------------------------------------------------------------------------
(* Properties *)

\* From the first day of a month to the day its return is due, the calendar lists the
\* return once, on the filing day of the month after it: the day that counts as the
\* FilingDay-th from the end of the month itself.  The earliest of what is to come
\* heads the list of next deadlines.
ReturnsListed ==
  LET listed == Calendar
      coming == NextDeadlines
  IN
  /\ \A m \in Month :
       LET due == LastDay(m) + FilingDay IN
       StartOf[m] <= today /\ today <= due /\ due - today <= Horizon =>
         {e.due : e \in {e \in listed : e.kind = "vat_filing" /\ e.about = m}} = {due}
  /\ coming # <<>> => \A e \in listed : e.due >= today => coming[1].due <= e.due

\* "A late-logged bill flags a prior return period": the return of the month of an
\* entry that carries no flag was not yet due when the entry was recorded.
UnflaggedInTime ==
  \A p \in posted : ~p.backdated => LastDay(MonthOf(p.day)) + FilingDay > p.recorded

\* An open invoice is in the first bucket up to its due date, and in each next one
\* from the day after a limit.
AgedByLimits ==
  \A r \in Ref : items[r] \in Day =>
    /\ today <= items[r] => Bucket(DaysPastDue(r)) = 0
    /\ \A l \in BucketLimits :
         (Bucket(DaysPastDue(r)) > Cardinality({o \in BucketLimits : o <= l}))
           <=> (today > items[r] + l)
===============================================================================
