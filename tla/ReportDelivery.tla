---------------------------- MODULE ReportDelivery ----------------------------
(***************************************************************************)
(* PDF reports: asked for in a turn (request_report), built and delivered  *)
(* after it (orchestrator/src/reports: dispatch, report-job, report-data)  *)
(* from the figures of the ledger (mcp-ledger/src/arap-tools.ts), while    *)
(* other turns go on confirming entries.                                   *)
(*                                                                         *)
(* One party, one month: an entry is an invoice, a bill, a payment of one  *)
(* of them, or a sale.  A confirmation is one commit.  A query sees what   *)
(* is committed when it runs; a statement is three of them.                *)
(***************************************************************************)
EXTENDS Integers, Sequences, FiniteSetsExt

CONSTANTS
  Ledger,      \* the entries, in the order drafted: [kind, amount, of], of the paid one or 0
  MaxReports   \* bound: requests of a turn

VARIABLES
  confirmed,  \* entries with status confirmed
  balances,   \* balance_paisa of the invoices and bills
  turn,       \* the turn that may ask for reports, and what it asked for
  job,        \* the report being made
  audit,      \* audit_log: what it says of each request
  chat,       \* what the owner got for each request
  lapsed      \* history: requests whose handling was cut off or threw

vars == <<confirmed, balances, turn, job, audit, chat, lapsed>>
-------------------------------------------------------------------------------
Entries == DOMAIN Ledger
OfKind(kind) == {e \in Entries : Ledger[e].kind = kind}
Debts == OfKind("invoice") \cup OfKind("bill")

\* What the agent may put into a request; about is the party of a statement or the
\* month of a summary.
Requests ==
  [type : {"receivables", "payables"}, about : {"none"}] \cup
  [type : {"statement"}, about : {"none", "known", "unknown"}] \cup
  [type : {"sales_summary"}, about : {"none", "known"}]
Reports == 1..MaxReports

Stages == {"tenant", "read", "bills", "payments", "built", "log", "text", "document", "delivered"}
Idle == [at |-> "idle"]

TypeOK ==
  /\ confirmed \subseteq Entries
  /\ balances \in [Debts -> Nat]
  /\ turn.at \in {"open", "replied", "over"} /\ turn.asked \in Seq(Requests)
  /\ turn.next \in 1..(MaxReports + 1)
  /\ job = Idle \/ job.at \in Stages
  /\ audit \subseteq Reports \X {"request_report", "report_held", "report_blocked", "report_delivered"}
  /\ chat \subseteq Reports \X {"document", "report_held", "report_blocked"}
  /\ lapsed \subseteq Reports

Init ==
  /\ confirmed = {}
  /\ balances = [e \in Debts |-> Ledger[e].amount]
  /\ turn = [at |-> "open", asked |-> <<>>, next |-> 1]
  /\ job = Idle
  /\ audit = {} /\ chat = {} /\ lapsed = {}
-------------------------------------------------------------------------------
\* Operators named ...Mutant are wrong versions of the definition after them,
\* kept to show that a property notices the change; the model does not use them.

\* A payment was planned for a confirmed invoice or bill, and takes down its balance in
\* the transaction that confirms it.
Confirm(e) ==
  /\ e \notin confirmed
  /\ Ledger[e].of # 0 => Ledger[e].of \in confirmed /\ Ledger[e].amount <= balances[Ledger[e].of]
  /\ confirmed' = confirmed \cup {e}
  /\ balances' = [d \in Debts |-> IF Ledger[e].of = d THEN balances[d] - Ledger[e].amount ELSE balances[d]]
  /\ UNCHANGED <<turn, job, audit, chat, lapsed>>
-------------------------------------------------------------------------------
(* The turn *)

\* request_report: a statement names its party, a summary its month.
Complete(r) == r.type \in {"statement", "sales_summary"} => r.about # "none"

Ask(r) ==
  /\ turn.at = "open" /\ Len(turn.asked) < MaxReports /\ Complete(r)
  /\ turn' = [turn EXCEPT !.asked = Append(@, r)]
  /\ audit' = audit \cup {<<Len(turn.asked) + 1, "request_report">>}
  /\ UNCHANGED <<confirmed, balances, job, chat, lapsed>>

\* The reply goes out first; a turn that fails before leaves its requests undone.
Reply(sent) ==
  /\ turn.at = "open"
  /\ turn' = [turn EXCEPT !.at = IF sent THEN "replied" ELSE "over"]
  /\ UNCHANGED <<confirmed, balances, job, audit, chat, lapsed>>

\* The requests of a turn are dispatched one after the other.
Dispatch ==
  /\ turn.at = "replied" /\ job = Idle /\ turn.next <= Len(turn.asked)
  /\ turn' = [turn EXCEPT !.next = @ + 1]
  /\ job' = [at |-> "tenant", no |-> turn.next, request |-> turn.asked[turn.next]]
  /\ UNCHANGED <<confirmed, balances, audit, chat, lapsed>>
-------------------------------------------------------------------------------
(* buildReport over the ledger's read tools *)

\* The job goes on to stage at, and remembers more.
Goto(at, more) ==
  /\ job' = [x \in DOMAIN more \cup DOMAIN job |->
               IF x \in DOMAIN more THEN more[x] ELSE IF x = "at" THEN at ELSE job[x]]
  /\ UNCHANGED <<confirmed, balances, turn, audit, chat, lapsed>>

Nothing == <<>>

\* The tenant is there and the connection to the ledger stands.
Connect == job.at = "tenant" /\ Goto("read", Nothing)

\* The rows of a table that a report lists, each with its amount.
Listed(kind, amounts) == {<<e, amounts[e]>> : e \in confirmed \cap OfKind(kind)}

Debit == [e \in Entries |-> Ledger[e].amount]
Credit == [e \in Entries |-> -Ledger[e].amount]

SumOf(rows) == MapThenSumSet(LAMBDA row : row[2], rows)

\* Mutant: every confirmed invoice or bill at its full amount.
OpenRowsMutant(kind) == Listed(kind, Debit)

\* receivablesOrPayables: what is still open, in one query.
OpenRows(kind) == {row \in Listed(kind, balances) : row[2] > 0}

\* What a tool of a single query answers: the rows and their total.
Answer(rows) == [found |-> TRUE, rows |-> rows, total |-> SumOf(rows), seen |-> confirmed, torn |-> FALSE]

ReadOpen ==
  /\ job.at = "read"
  /\ \/ job.request.type = "receivables" /\ Goto("built", Answer(OpenRows("invoice")))
     \/ job.request.type = "payables" /\ Goto("built", Answer(OpenRows("bill")))

\* get_sales_summary: the month's confirmed sales.
ReadSales ==
  job.at = "read" /\ job.request.type = "sales_summary" /\ Goto("built", Answer(Listed("sale", Debit)))

\* get_statement: the invoices first, when there is such a party.
ReadInvoices ==
  /\ job.at = "read" /\ job.request.type = "statement"
  /\ \/ job.request.about = "known" /\ Goto("bills", Answer(Listed("invoice", Debit)))
     \/ job.request.about = "unknown" /\ Goto("built", [Answer({}) EXCEPT !.found = FALSE])

ReadBills ==
  /\ job.at = "bills"
  /\ Goto("payments", [rows |-> job.rows \cup Listed("bill", Credit)])

\* Mutant: the signs of the payments swapped.
PaymentRowsMutant == Listed("received", Debit) \cup Listed("paid", Credit)

PaymentRows == Listed("received", Credit) \cup Listed("paid", Debit)

ReadPayments ==
  /\ job.at = "payments"
  /\ LET rows == job.rows \cup PaymentRows
     IN Goto("built", [rows |-> rows, total |-> SumOf(rows), torn |-> confirmed # job.seen])

RowsAddUp == SumOf(job.rows) = job.total

\* Mutant: a statement nobody was found for counts as an empty one.
ReconciledMutant == RowsAddUp

\* reconcile-or-hold: the party is known and the rows add up to the total.
Reconciled == job.found /\ RowsAddUp
-------------------------------------------------------------------------------
(* runReportJob *)

\* A report that is not to be sent: logged first, then the owner is told.
Refuse(action) ==
  /\ job' = [at |-> "log", no |-> job.no, action |-> action]
  /\ UNCHANGED <<confirmed, balances, turn, audit, chat, lapsed>>

Hold == job.at = "built" /\ ~Reconciled /\ Refuse("report_held")

\* A tool call failed, or there is no PDF to send.
Block == job.at \in {"read", "bills", "payments"} /\ Refuse("report_blocked")
NoPdf == job.at = "built" /\ Reconciled /\ Refuse("report_blocked")

Render == job.at = "built" /\ Reconciled /\ Goto("document", Nothing)

\* Mutant: the owner is told whether or not it could be logged.
LogRefusalMutant(written) ==
  /\ job.at = "log"
  /\ audit' = audit \cup {e \in {<<job.no, job.action>>} : written}
  /\ job' = [job EXCEPT !.at = "text"]
  /\ UNCHANGED <<confirmed, balances, turn, chat, lapsed>>

\* What throws here ends the report: the router logs a line and goes on.
Throw ==
  /\ job' = Idle /\ lapsed' = lapsed \cup {job.no}
  /\ UNCHANGED <<confirmed, balances, turn>>

LogRefusal(written) ==
  /\ job.at = "log"
  /\ \/ /\ written
        /\ audit' = audit \cup {<<job.no, job.action>>}
        /\ job' = [job EXCEPT !.at = "text"]
        /\ UNCHANGED <<confirmed, balances, turn, chat, lapsed>>
     \/ ~written /\ Throw /\ UNCHANGED <<audit, chat>>

SendText(sent) ==
  /\ job.at = "text" /\ UNCHANGED audit
  /\ \/ /\ sent
        /\ chat' = chat \cup {<<job.no, job.action>>} /\ job' = Idle
        /\ UNCHANGED <<confirmed, balances, turn, lapsed>>
     \/ ~sent /\ Throw /\ UNCHANGED chat

SendDocument(sent) ==
  /\ job.at = "document" /\ UNCHANGED audit
  /\ \/ /\ sent
        /\ chat' = chat \cup {<<job.no, "document">>} /\ job' = [at |-> "delivered", no |-> job.no]
        /\ UNCHANGED <<confirmed, balances, turn, lapsed>>
     \/ ~sent /\ Throw /\ UNCHANGED chat

LogDelivery(written) ==
  /\ job.at = "delivered" /\ UNCHANGED chat
  /\ \/ /\ written
        /\ audit' = audit \cup {<<job.no, "report_delivered">>} /\ job' = Idle
        /\ UNCHANGED <<confirmed, balances, turn, lapsed>>
     \/ ~written /\ Throw /\ UNCHANGED audit

\* The tenant is gone or the ledger does not answer: nobody is told.
Unreachable == job.at = "tenant" /\ Throw /\ UNCHANGED <<audit, chat>>

\* The process dies; what the turn had asked for is remembered nowhere else.
Kill ==
  /\ turn.at # "over"
  /\ job' = Idle /\ turn' = [turn EXCEPT !.at = "over"]
  /\ lapsed' = lapsed \cup (IF job = Idle THEN {} ELSE {job.no})
  /\ UNCHANGED <<confirmed, balances, audit, chat>>

Job ==
  \/ Connect \/ ReadOpen \/ ReadSales \/ ReadInvoices \/ ReadBills \/ ReadPayments
  \/ Hold \/ Block \/ NoPdf \/ Render \/ Unreachable
  \/ \E ok \in BOOLEAN : LogRefusal(ok) \/ SendText(ok) \/ SendDocument(ok) \/ LogDelivery(ok)

Next ==
  \/ \E e \in Entries : Confirm(e)
  \/ \E r \in Requests : Ask(r)
  \/ \E sent \in BOOLEAN : Reply(sent)
  \/ Dispatch \/ Job \/ Kill

Spec == Init /\ [][Next]_vars
-------------------------------------------------------------------------------
\* What is left of the entries of one kind when exactly those of S are confirmed,
\* worked out from the documents and not from the balances kept.
Left(kind, S) ==
  MapThenSumSet(LAMBDA e : Ledger[e].amount, S \cap OfKind(kind))
    - MapThenSumSet(LAMBDA p : Ledger[p].amount,
                    {p \in S : Ledger[p].of # 0 /\ Ledger[Ledger[p].of].kind = kind})

\* A report that goes out shows what was confirmed at one moment: an open-items report
\* the balances the payments left, a statement receivables less payables.  A statement
\* may fail to only when an entry was confirmed between its queries.
ReportTrue ==
  job.at = "document" =>
    LET type == job.request.type
    IN /\ type = "receivables" => job.total = Left("invoice", job.seen)
       /\ type = "payables" => job.total = Left("bill", job.seen)
       /\ type = "statement" /\ ~job.torn =>
            job.total = Left("invoice", job.seen) - Left("bill", job.seen)

\* Nobody gets an empty statement of a party that does not exist, and no request is
\* answered twice, or with a report and a refusal.
OneTrueAnswer ==
  /\ \A m \in chat : m[2] = "document" => turn.asked[m[1]].about # "unknown" \/ turn.asked[m[1]].type # "statement"
  /\ \A m, n \in chat : m[1] = n[1] => m = n

\* An owner who is told that a report is held or failed is told what the log already
\* says, and a PDF that left without a record is one whose handling was cut off.
RefusalsOnRecord ==
  \A m \in chat :
    IF m[2] = "document"
    THEN <<m[1], "report_delivered">> \in audit \/ m[1] \in lapsed \/ (job # Idle /\ job.no = m[1])
    ELSE m \in audit
===============================================================================
