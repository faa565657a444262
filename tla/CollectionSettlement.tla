------------------------- MODULE CollectionSettlement -------------------------
(***************************************************************************)
(* Customer collections through Khalti (packages/mcp-payments).            *)
(*                                                                         *)
(* A request is one call in flight: initiate_payment, verify_payment, the  *)
(* payer's return-URL callback or refund_payment.  Each reads the payments *)
(* row once, then awaits the gateway, then writes; nothing locks the row   *)
(* between the read and the write, so the row a request decides on may be  *)
(* stale.  What a request writes after its last await commits as one       *)
(* Postgres transaction: the UPDATE's row lock is held to the commit, and  *)
(* an UPDATE that waited for the lock evaluates its WHERE on the committed *)
(* row, so the writes are one step that reads the current table.           *)
(*                                                                         *)
(* The gateway is external: it keeps one record per pidx and is the only   *)
(* source of truth for its status and total.                               *)
(***************************************************************************)
EXTENDS Naturals, FiniteSets

CONSTANTS
  Pidx,             \* gateway payment ids
  Request,          \* calls that can be in flight at the same time
  SaleId,           \* ids sales may take: the bound on the number of sales
  Amount,           \* amounts in paisa, told apart only by equality
  NoSale,           \* SQL NULL in payments.sale_id
  ReopenCancelled   \* may a payer who cancelled come back to the same link?

ASSUME SaleAssumption == NoSale \notin SaleId
ASSUME AmountAssumption == Amount # {}
ASSUME ReopenAssumption == ReopenCancelled \in BOOLEAN

VARIABLES
  payments,   \* the payments table, by pidx
  sales,      \* the gateway sales of the sales table
  audit,      \* what the audit trail says of collections, repeats collapsed
  gateway,    \* Khalti's record of each pidx
  pc,         \* where each request stands
  req         \* what each request holds: its pidx, the row it read, the answer

vars == <<payments, sales, audit, gateway, pc, req>>
-------------------------------------------------------------------------------
(* Types *)

RowStatus == {"absent", "initiated", "completed", "canceled", "expired",
              "refunded", "amount_mismatch"}
Row == [status: RowStatus, amount: Amount, saleId: SaleId \cup {NoSale}]
Sale == [id: SaleId, ref: Pidx, amount: Amount]

GatewayStatus == {"none", "Initiated", "Pending", "Completed", "Refunded",
                  "Partially Refunded", "Expired", "User canceled"}
Lookup == [status: GatewayStatus, total: Amount]

\* Statuses from which the payer's money has reached the gateway.
Collected == {"Completed", "Refunded", "Partially Refunded"}

Trail == [action: {"initiated", "amount_mismatch", "completed", "refunded",
                   "expired", "canceled"},
          pidx: Pidx, sale: SaleId \cup {NoSale}]

RequestState == {"idle", "insert", "lookup", "settle", "refund", "record"}
Held == [pidx: Pidx, row: Row, answer: Lookup]

AnyAmount == CHOOSE a \in Amount : TRUE
NoRow == [status |-> "absent", amount |-> AnyAmount, saleId |-> NoSale]
NoLookup == [status |-> "none", total |-> AnyAmount]

TypeOK ==
  /\ payments \in [Pidx -> Row]
  /\ sales \subseteq Sale
  /\ audit \subseteq Trail
  /\ gateway \in [Pidx -> Lookup]
  /\ pc \in [Request -> RequestState]
  /\ req \in [Request -> Held]

Init ==
  /\ payments = [p \in Pidx |-> NoRow]
  /\ sales = {}
  /\ audit = {}
  /\ gateway = [p \in Pidx |-> NoLookup]
  /\ pc = [t \in Request |-> "idle"]
  /\ req \in [Request -> {h \in Held : h.row = NoRow /\ h.answer = NoLookup}]
-------------------------------------------------------------------------------
(* Helpers *)

\* Operators named ...Mutant are not part of the model: each is a wrong version
\* of the definition after it, kept to show that a property notices the change.

\* Mutant: the gateway's own word is stored for anything but Completed.
RowStatusForMutant(s) == IF s = "Completed" THEN "completed" ELSE s

\* The payment status a lookup status maps onto; "absent" for in-flight ones.
RowStatusFor(s) ==
  CASE s = "Completed"                           -> "completed"
    [] s \in {"Refunded", "Partially Refunded"}  -> "refunded"
    [] s = "Expired"                             -> "expired"
    [] s = "User canceled"                       -> "canceled"
    [] OTHER                                     -> "absent"

\* Mutant: only a row that is still open gets an entry.
LogMutant(a, p, s) ==
  audit' = IF payments[p].status \in {"absent", "initiated"}
             THEN audit \cup {[action |-> a, pidx |-> p, sale |-> s]}
             ELSE audit

Log(a, p, s) == audit' = audit \cup {[action |-> a, pidx |-> p, sale |-> s]}

\* The row a request holds is a copy made when it read the table.
Hold(t, p, row) ==
  req' = [req EXCEPT ![t] = [pidx |-> p, row |-> row, answer |-> NoLookup]]

Goto(t, from, to) == pc[t] = from /\ pc' = [pc EXCEPT ![t] = to]

\* Mutant: the totals are not reconciled.
AmountAgreesMutant(t) == req[t].row.amount \in Amount

AmountAgrees(t) == req[t].answer.total = req[t].row.amount

\* Mutant: the latch is not consulted.
AlreadyLinkedMutant(t) == req[t].row.saleId \notin SaleId \cup {NoSale}

\* if (row.saleId): on the row as it was read
AlreadyLinked(t) == req[t].row.saleId # NoSale

FreshSale == SaleId \ {s.id : s \in sales}
-------------------------------------------------------------------------------
(* initiate_payment: the gateway first, then the row *)

InitiateAtGateway(t, p, amount, total) ==
  /\ Goto(t, "idle", "insert")
  /\ gateway[p].status = "none"
  /\ gateway' = [gateway EXCEPT ![p] = [status |-> "Initiated", total |-> total]]
  /\ Hold(t, p, [NoRow EXCEPT !.status = "initiated", !.amount = amount])
  /\ UNCHANGED <<payments, sales, audit>>

InsertPayment(t) ==
  /\ Goto(t, "insert", "idle")
  /\ payments' = [payments EXCEPT ![req[t].pidx] = req[t].row]
  /\ Log("initiated", req[t].pidx, NoSale)
  /\ UNCHANGED <<sales, gateway, req>>
-------------------------------------------------------------------------------
(* settlePayment, run by verify_payment and by the return callback *)

ReadForSettlement(t, p) ==
  /\ Goto(t, "idle", "lookup")
  /\ payments[p].status # "absent"
  /\ Hold(t, p, payments[p])
  /\ UNCHANGED <<payments, sales, audit, gateway>>

\* Mutant: the status the redirect carries is believed.
LookupPaymentMutant(t) ==
  /\ Goto(t, "lookup", "settle")
  /\ req' = [req EXCEPT ![t].answer = [gateway[req[t].pidx] EXCEPT !.status = "Completed"]]
  /\ UNCHANGED <<payments, sales, audit, gateway>>

LookupPayment(t) ==
  /\ Goto(t, "lookup", "settle")
  /\ req' = [req EXCEPT ![t].answer = gateway[req[t].pidx]]
  /\ UNCHANGED <<payments, sales, audit, gateway>>

\* 1. a total that is not the amount initiated flags the row, whatever it holds
FlagMismatch(t) ==
  LET p == req[t].pidx IN
  /\ Goto(t, "settle", "idle")
  /\ ~AmountAgrees(t)
  /\ payments' = [payments EXCEPT ![p].status = "amount_mismatch"]
  /\ Log("amount_mismatch", p, NoSale)
  /\ UNCHANGED <<sales, gateway, req>>

\* 2. Completed, and the row read already carries its sale
AlreadyRecorded(t) ==
  /\ Goto(t, "settle", "idle")
  /\ AmountAgrees(t)
  /\ req[t].answer.status = "Completed"
  /\ AlreadyLinked(t)
  /\ UNCHANGED <<payments, sales, audit, gateway, req>>

\* Mutant: the row is completed without its sale.
CompletionNoLatchMutant(p, id) == [payments EXCEPT ![p].status = "completed"]

\* UPDATE payments ... WHERE id = row.id AND status = 'initiated': the guard is
\* on the committed row, and how many rows it matched is not looked at.
Completion(p, id) ==
  IF payments[p].status = "initiated"
    THEN [payments EXCEPT ![p].status = "completed", ![p].saleId = id]
    ELSE payments

\* 2. Completed: insert the confirmed sale, then complete the row if initiated
RecordSale(t) ==
  LET p == req[t].pidx IN
  /\ Goto(t, "settle", "idle")
  /\ AmountAgrees(t)
  /\ req[t].answer.status = "Completed"
  /\ ~AlreadyLinked(t)
  /\ \E id \in FreshSale :
       /\ sales' = sales \cup {[id |-> id, ref |-> p, amount |-> req[t].row.amount]}
       /\ payments' = Completion(p, id)
       /\ Log("completed", p, id)
  /\ UNCHANGED <<gateway, req>>

\* 3. terminal at the gateway: the row follows if the row read was initiated
CloseUnpaid(t) ==
  LET p == req[t].pidx
      terminal == RowStatusFor(req[t].answer.status) IN
  /\ Goto(t, "settle", "idle")
  /\ AmountAgrees(t)
  /\ terminal \notin {"absent", "completed"}
  /\ IF req[t].row.status = "initiated"
       THEN /\ payments' = [payments EXCEPT ![p].status = terminal]
            /\ Log(terminal, p, NoSale)
       ELSE UNCHANGED <<payments, audit>>
  /\ UNCHANGED <<sales, gateway, req>>

\* 3. still in flight at the gateway: nothing changes
StillInFlight(t) ==
  /\ Goto(t, "settle", "idle")
  /\ AmountAgrees(t)
  /\ RowStatusFor(req[t].answer.status) = "absent"
  /\ UNCHANGED <<payments, sales, audit, gateway, req>>

Settle(t) ==
  \/ FlagMismatch(t) \/ AlreadyRecorded(t) \/ RecordSale(t)
  \/ CloseUnpaid(t) \/ StillInFlight(t)
-------------------------------------------------------------------------------
(* refund_payment *)

ReadForRefund(t, p) ==
  /\ Goto(t, "idle", "refund")
  /\ payments[p].status = "completed"
  /\ Hold(t, p, payments[p])
  /\ UNCHANGED <<payments, sales, audit, gateway>>

\* Mutant: the row is marked without waiting for the gateway's answer.
RefundAtGatewayMutant(t) ==
  /\ Goto(t, "refund", "record")
  /\ UNCHANGED <<payments, sales, audit, gateway, req>>

\* The gateway refunds what is still collected; a refusal ends in Fail.
RefundAtGateway(t) ==
  LET p == req[t].pidx IN
  /\ Goto(t, "refund", "record")
  /\ gateway[p].status \in {"Completed", "Partially Refunded"}
  /\ gateway' = [gateway EXCEPT ![p].status = "Refunded"]
  /\ UNCHANGED <<payments, sales, audit, req>>

RecordRefund(t) ==
  LET p == req[t].pidx IN
  /\ Goto(t, "record", "idle")
  /\ payments' = [payments EXCEPT ![p].status = "refunded"]
  /\ Log("refunded", p, NoSale)
  /\ UNCHANGED <<sales, gateway, req>>
-------------------------------------------------------------------------------
(* Failures and the gateway's own moves *)

\* The process dies, the gateway errors or the transaction aborts: the request
\* is over and what it had not committed is gone; the gateway forgets nothing.
Fail(t) ==
  /\ pc[t] # "idle"
  /\ pc' = [pc EXCEPT ![t] = "idle"]
  /\ UNCHANGED <<payments, sales, audit, gateway, req>>

GatewayMove ==
  { <<"Initiated", "Pending">>, <<"Pending", "Completed">>,
    <<"Initiated", "Expired">>, <<"Pending", "Expired">>,
    <<"Initiated", "User canceled">>, <<"Pending", "User canceled">>,
    <<"Completed", "Partially Refunded">>, <<"Completed", "Refunded">> }
  \cup (IF ReopenCancelled THEN {<<"User canceled", "Pending">>} ELSE {})

GatewayStep(p) ==
  \E s \in GatewayStatus :
    /\ <<gateway[p].status, s>> \in GatewayMove
    /\ gateway' = [gateway EXCEPT ![p].status = s]
    /\ UNCHANGED <<payments, sales, audit, pc, req>>
-------------------------------------------------------------------------------
Initiate(t) ==
  \E p \in Pidx, amount, total \in Amount : InitiateAtGateway(t, p, amount, total)

Next ==
  \/ \E t \in Request :
       \/ Initiate(t) \/ InsertPayment(t)
       \/ \E p \in Pidx : ReadForSettlement(t, p)
       \/ LookupPayment(t) \/ Settle(t)
       \/ \E p \in Pidx : ReadForRefund(t, p)
       \/ RefundAtGateway(t) \/ RecordRefund(t)
       \/ Fail(t)
  \/ \E p \in Pidx : GatewayStep(p)

Spec == Init /\ [][Next]_vars
-------------------------------------------------------------------------------
(* Properties *)

\* Every confirmed gateway sale stands for money the gateway collected: its
\* amount is both the amount initiated and the gateway's total (settlePayment
\* never records on a callback's word, a pending lookup or another amount).
SaleBacked ==
  \A s \in sales :
    /\ gateway[s.ref].status \in Collected
    /\ s.amount = gateway[s.ref].total
    /\ s.amount = payments[s.ref].amount

\* payments.sale_id never dangles and never points at another payment's sale,
\* and a completed row always has one: row and sale commit together.
LatchPointsAtOwnSale ==
  \A p \in Pidx :
    /\ payments[p].status = "completed" => payments[p].saleId # NoSale
    /\ payments[p].saleId # NoSale =>
         \E s \in sales : s.id = payments[p].saleId /\ s.ref = p

\* The books and the trail agree: the sales are exactly the ones the audit trail
\* says were completed, with the payment and the sale_id it names.
TrailMatchesSales ==
  {<<s.ref, s.id>> : s \in sales}
    = {<<a.pidx, a.sale>> : a \in {b \in audit : b.action = "completed"}}

\* Once a sale exists for a payment, its row no longer waits to be completed:
\* the sale is inserted and the row leaves 'initiated' in the same commit.
NoOpenRowWithSale == \A s \in sales : payments[s.ref].status \notin {"absent", "initiated"}

\* A row says refunded only when the gateway did refund: refund_payment writes
\* after the gateway accepted, and settlement copies only what lookup reported.
RefundedAtGateway ==
  \A p \in Pidx :
    payments[p].status = "refunded" =>
      gateway[p].status \in {"Refunded", "Partially Refunded"}

\* The latch is written once: no later settlement, refund or stale writer
\* replaces or clears the sale a payment is linked to.
LatchWriteOnce ==
  [][\A p \in Pidx : payments[p].saleId # NoSale =>
       payments'[p].saleId = payments[p].saleId]_vars

\* A request about to insert owns its pidx: the gateway issued it, no row has it.
InsertReady(t) ==
  pc[t] = "insert" =>
    /\ req[t].row.status = "initiated" /\ req[t].row.saleId = NoSale
    /\ payments[req[t].pidx].status = "absent"
    /\ gateway[req[t].pidx].status # "none"
    /\ \A u \in Request : pc[u] = "insert" /\ req[u].pidx = req[t].pidx => u = t

\* The row a request read still exists, with that amount and that sale.
HeldRowTrue(t) ==
  pc[t] \in {"lookup", "settle", "refund", "record"} =>
    LET row == payments[req[t].pidx] IN
    /\ row.status # "absent"
    /\ req[t].row.amount = row.amount
    /\ req[t].row.saleId # NoSale => row.saleId # NoSale

\* The answer in hand: money it reports collected, or refunded, still is.
AnswerTrue(t) ==
  LET now == gateway[req[t].pidx] IN
  /\ pc[t] = "settle" =>
       /\ req[t].answer.total = now.total
       /\ req[t].answer.status \in Collected => now.status \in Collected
       /\ RowStatusFor(req[t].answer.status) = "refunded" =>
            now.status \in {"Refunded", "Partially Refunded"}
  /\ pc[t] = "record" => now.status = "Refunded"

\* What a request decided on is still true when it writes.
RequestsInSync ==
  \A t \in Request : InsertReady(t) /\ HeldRowTrue(t) /\ AnswerTrue(t)

\* A row exists only for a pidx the gateway issued, and carries no sale before.
RowsIssued ==
  \A p \in Pidx :
    /\ gateway[p].status = "none" => payments[p].status = "absent"
    /\ payments[p].status = "absent" => payments[p].saleId = NoSale

\* The conjunction that is inductive, and so what the proofs are about.
IInv ==
  /\ TypeOK /\ RowsIssued /\ RequestsInSync
  /\ SaleBacked /\ LatchPointsAtOwnSale /\ TrailMatchesSales
  /\ NoOpenRowWithSale /\ RefundedAtGateway

SalesOf(p) == {s \in sales : s.ref = p}

\* Replays record nothing: of a linked payment there are never more sales than
\* requests that were in flight together when the first one was recorded.
DuplicatesOnlyByOverlap ==
  \A p \in Pidx :
    payments[p].saleId # NoSale => Cardinality(SalesOf(p)) <= Cardinality(Request)

\* "The confirmed gateway sale is created at most once": no two sales for one
\* pidx.  It holds when requests do not overlap and not otherwise.
AtMostOneSale == \A p \in Pidx : Cardinality(SalesOf(p)) <= 1
===============================================================================
