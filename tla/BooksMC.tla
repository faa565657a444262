-------------------------------- MODULE BooksMC --------------------------------
(***************************************************************************)
(* The stores of one business's figures, one at a time: receivables and    *)
(* payments, numbered documents with the audit log, the entries made of    *)
(* bills, the calendar, and the questions put to its TallyPrime.  The      *)
(* properties relate no two of them, so a behaviour follows one, chosen at *)
(* the start (part); the others stay in their first state.                 *)
(***************************************************************************)
EXTENDS Integers, FiniteSets

CONSTANTS Calls, Keys, Invoices, InvoiceTotal, MaxPayments, Amount,
          Year, Months, MaxRows, MaxDocs, MaxEntries, MaxDay, Ref, MaxPosted,
          FirstYear, LastYear, MonthLength, FyStart, FilingDay, BucketLimits, Horizon, Upcoming,
          MaxReports, MaxConnectors, MaxJobs, Company, NoCompany, Setup, Tool, Worker, Simulated, Production

ASSUME CountAssumption ==
  /\ {Invoices, MaxPayments, Months, MaxRows, MaxDocs, MaxEntries, MaxDay, MaxPosted, MaxReports, MaxJobs} \subseteq Nat
  /\ MaxConnectors \in Nat \ {0}
ASSUME MoneyAssumption == InvoiceTotal \in Nat \ {0} /\ Amount \subseteq Nat \ {0}
\* Every month has its filing day.
ASSUME CalendarAssumption ==
  /\ {FirstYear, LastYear} \subseteq Int /\ FirstYear + 3 <= LastYear /\ FyStart \in 1..Months
  /\ MonthLength \in [(FirstYear..LastYear) \X (1..Months) -> Nat]
  /\ FilingDay \in Nat \ {0} /\ \A m \in DOMAIN MonthLength : FilingDay <= MonthLength[m]
  /\ BucketLimits \subseteq Nat \ {0} /\ IsFiniteSet(BucketLimits) /\ IsFiniteSet(Ref)
  /\ {Horizon, Upcoming} \subseteq Nat
ASSUME TallyAssumption ==
  NoCompany \notin Company /\ Simulated \subseteq Worker /\ Production \in BOOLEAN

VARIABLES part,
          invoices, payments, keys, paying, applied, overlapped,
          sequences, documents, trail, serial, vat, filing,
          day, entries, parties, entering, today, items, posted,
          confirmed, balances, turn, job, audit, chat, lapsed,
          connectors, issued, setup, catalog, bound, jobs, tool, worker, told

partyVars == <<invoices, payments, keys, paying, applied, overlapped>>
taxVars == <<sequences, documents, trail, serial, vat, filing>>
entryVars == <<day, entries, parties, entering>>
dateVars == <<today, items, posted>>
reportVars == <<confirmed, balances, turn, job, audit, chat, lapsed>>
tallyVars == <<connectors, issued, setup, catalog, bound, jobs, tool, worker, told>>
vars == <<part, partyVars, taxVars, entryVars, dateVars, reportVars, tallyVars>>

Party == INSTANCE PartyPayments WITH call <- paying, Call <- Calls, Key <- Keys, Total <- InvoiceTotal
Tax == INSTANCE TaxDocuments WITH call <- filing, Call <- Calls
Tally == INSTANCE TallyJobs

\* A tax invoice of the first vendor, paid in cash on the first day; other documents
\* differ from it in what their checks look at.
Invoice ==
  [table |-> "expenses", vendor |-> <<"ram", "lower">>, no |-> 1, day |-> 0, amount |-> 113,
   inclusive |-> TRUE, registered |-> TRUE, printed |-> <<>>, type |-> "rule17",
   business |-> TRUE, service |-> FALSE]

Bills ==
  { Invoice,
    [Invoice EXCEPT !.printed = <<102, 11>>, !.day = 1, !.vendor = <<"ram", "title">>],
    [Invoice EXCEPT !.no = 0, !.registered = FALSE, !.service = TRUE],
    [Invoice EXCEPT !.table = "ap_bills", !.inclusive = FALSE, !.amount = 100, !.vendor = <<"ram", "title">>],
    [Invoice EXCEPT !.table = "sales", !.no = 0, !.printed = <<100, 13>>],
    [Invoice EXCEPT !.table = "ar_invoices", !.day = 2] }

\* Amounts in rupees; 13% VAT, 1.5% and 15% withheld.
Entry == INSTANCE BillEntry
  WITH call <- entering, Call <- Calls, today <- day, Bill <- Bills, Name <- {b.vendor : b \in Bills},
       VatBps <- 1300, Tolerance <- 1, MaxAmount <- 1000, RegisteredBps <- 150, PanOnlyBps <- 1500,
       Window <- 1, MonthDays <- 2

Date == INSTANCE ComplianceCalendar WITH Length <- MonthLength

\* Five short years of two months, for the runs.
ShortMonths == [m \in (1..5) \X (1..2) |-> IF (m[1] + m[2]) % 2 = 0 THEN 3 ELSE 4]

\* An invoice, its part payment, a bill, its payment, and a sale.
Row(kind, amount, of) == [kind |-> kind, amount |-> amount, of |-> of]
Report == INSTANCE ReportDelivery
  WITH Ledger <- <<Row("invoice", 3, 0), Row("bill", 2, 0), Row("received", 1, 1), Row("paid", 2, 2),
                   Row("sale", 1, 0)>>

Init ==
  /\ part \in {"party", "tax", "entry", "date", "report", "tally"}
  /\ Party!Init /\ Tax!Init /\ Entry!Init /\ Date!Init /\ Report!Init /\ Tally!Init

Next ==
  /\ UNCHANGED part
  /\ \/ part = "party" /\ Party!Next /\ UNCHANGED <<taxVars, entryVars, dateVars, reportVars, tallyVars>>
     \/ part = "tax" /\ Tax!Next /\ UNCHANGED <<partyVars, entryVars, dateVars, reportVars, tallyVars>>
     \/ part = "entry" /\ Entry!Next /\ UNCHANGED <<partyVars, taxVars, dateVars, reportVars, tallyVars>>
     \/ part = "date" /\ Date!Next /\ UNCHANGED <<partyVars, taxVars, entryVars, reportVars, tallyVars>>
     \/ part = "report" /\ Report!Next /\ UNCHANGED <<partyVars, taxVars, entryVars, dateVars, tallyVars>>
     \/ part = "tally" /\ Tally!Next /\ UNCHANGED <<partyVars, taxVars, entryVars, dateVars, reportVars>>

\* The server runs a tool call it has accepted, and its deadline passes.
Fairness ==
  \A t \in Tool :
    WF_vars(part = "tally" /\ Tally!Dispatch(t) /\ UNCHANGED <<part, partyVars, taxVars, entryVars, dateVars, reportVars>>)

Spec == Init /\ [][Next]_vars /\ Fairness
-------------------------------------------------------------------------------
AllTypesOK ==
  CASE part = "party" -> Party!TypeOK [] part = "tax" -> Tax!TypeOK [] part = "tally" -> Tally!TypeOK
    [] part = "report" -> Report!TypeOK
    [] part = "entry" -> Entry!TypeOK [] part = "date" -> Date!TypeOK

\* Every balance is what the confirmed payments left of its invoice, a payment comes
\* off twice only by two confirmations at once, and the statement and the ageing
\* report of a party otherwise say the same: so does every PDF, if nothing is confirmed
\* while a statement is read.  The yearly roll-up neither loses nor invents a VAT credit.
BooksAgree ==
  /\ part = "party" => Party!BooksBalance /\ Party!TwiceOnlyByOverlap /\ Party!StatementAgrees
  /\ part = "report" => Report!ReportTrue
  /\ part = "tax" => Tax!YearAddsUp

\* A key stands for one payment row, however often it is used, and a payment without
\* instructions clears the oldest invoices first.
PaymentsAsAsked == part = "party" => Party!OnePaymentPerKey /\ Party!OldestFirst

\* A fiscal year's numbers are 1, 2, 3 and so on, each on one document, and the audit
\* log that tells of them is one chain of hashes in the order of its ids, which shows a row
\* altered, removed from the middle or moved.  A request for a report has one answer, and
\* the log has a refusal before the owner.
PaperTrail ==
  /\ part = "tax" => Tax!NumbersGapFree /\ Tax!ChainVerifies /\ Tax!ChangesNoticed
  /\ part = "report" => Report!OneTrueAnswer /\ Report!RefusalsOnRecord

\* What is stored of a bill adds up to the bill; what looks wrong, or twice, is saved
\* with a warning on record; a name has one party.
EntriesAsShown == part = "entry" =>
  Entry!FiguresReconcile /\ Entry!OddVatWarned /\ Entry!TwinWarned /\ Entry!OneRowPerParty

\* Returns are listed on their day until it, entries for a closed return are flagged, and
\* invoices age by the limits of the report.
FilingsRight == part = "date" => Date!ReturnsListed /\ Date!UnflaggedInTime /\ Date!AgedByLimits

\* A figure is told from the job's own connector, no job is in the hands of two
\* installations of it, and a device token outlives the setup code it was exchanged for.
ToldFromLiveLink == part = "tally" =>
  Tally!ToldFromOwnConnector /\ Tally!OneHandPerJob /\ Tally!TokenKillsCode

\* The bridge implements the abstract questions and answers.
ImplementsAnswers == Tally!ImplementsAnswers

\* A tool call ends, whatever becomes of the connector.
EveryCallEnds == Tally!EveryCallEnds
===============================================================================
