-------------------------- MODULE SubscriptionBilling --------------------------
(***************************************************************************)
(* The business paying HisabKitab: the trial, prepaid months bought        *)
(* through Khalti, cancellation, and the daily dunning pass.  One tenant:  *)
(* no rule relates two tenants.                                            *)
(*                                                                         *)
(* A settlement reads the billing_payments row, asks the gateway, reads    *)
(* the subscription, then writes subscription, payment row, audit trail    *)
(* and receipt in one transaction.  Nothing is locked by the reads: the    *)
(* new period is computed from what was read and the upsert stores it as   *)
(* it is.  A dunning pass works on the row its one SELECT returned; its    *)
(* UPDATEs go by tenant alone.                                             *)
(*                                                                         *)
(* Dates are day numbers and a month is MonthDays days.                    *)
(***************************************************************************)
EXTENDS Integers, FiniteSets

CONSTANTS
  Pidx,          \* gateway payment ids of subscription payments
  Request,       \* tool calls and callbacks in flight at the same time
  Dunner,        \* dunning passes that may run at the same time
  MonthDays, TrialDays, GraceDays, NudgeDays,   \* the first two above 0
  MaxDay,        \* bound: the last day the model looks at
  HasNumber,     \* does the tenant have a WhatsApp number?
  MayCancel,     \* may the owner cancel?
  MayFail        \* may a request or a pass die half way?

VARIABLES
  today,     \* the calendar
  sub,       \* the tenant's subscriptions row
  bills,     \* billing_payments, by pidx
  trail,     \* "payment_completed" entries of the audit trail
  receipts,  \* payment_received notifications queued in the outbox, by pidx
  sent,      \* nudges that reached WhatsApp, by stage and period end
  gateway,   \* Khalti's record of each pidx: status and whether totals agree
  pc, req,   \* where each request stands and what it holds
  dpc, dun   \* the same for each dunning pass

requestVars == <<pc, req>>
dunVars == <<dpc, dun, sent>>
vars == <<today, sub, bills, trail, receipts, sent, gateway, pc, req, dpc, dun>>
-------------------------------------------------------------------------------
(* Types *)

SubStatus == {"absent", "trial", "active", "past_due", "suspended", "cancelled"}
Stage == {"renewal_due_soon", "expired", "suspended"}
Sub == [status: SubStatus, periodEnd: Nat, lastStage: Stage \cup {"none"}, lastFor: Nat]

BillStatus == {"absent", "initiated", "completed", "canceled", "expired", "amount_mismatch"}
Bill == [status: BillStatus, periodEnd: Nat]    \* periodEnd 0: SQL NULL

GatewayStatus == {"none", "Initiated", "Pending", "Completed", "Refunded", "Expired", "User canceled"}
Lookup == [status: GatewayStatus, agrees: BOOLEAN]

RequestState == {"idle", "insert", "lookup", "settle", "credit", "trial"}
Held == [pidx: Pidx, bill: Bill, answer: Lookup, prior: Sub, day: Nat]
DunnerState == {"idle", "reconcile", "send", "latch"}
Snapshot == [row: Sub, day: Nat]

NoSub == [status |-> "absent", periodEnd |-> 0, lastStage |-> "none", lastFor |-> 0]
NoBill == [status |-> "absent", periodEnd |-> 0]
NoLookup == [status |-> "none", agrees |-> TRUE]

TypeOK ==
  /\ today \in 1..MaxDay
  /\ sub \in Sub
  /\ bills \in [Pidx -> Bill]
  /\ trail \subseteq [pidx: Pidx, periodEnd: Nat]
  /\ receipts \subseteq Pidx
  /\ sent \subseteq [stage: Stage, periodEnd: Nat]
  /\ gateway \in [Pidx -> Lookup]
  /\ pc \in [Request -> RequestState] /\ req \in [Request -> Held]
  /\ dpc \in [Dunner -> DunnerState] /\ dun \in [Dunner -> Snapshot]

\* A finished call holds nothing: Held is reset, to a record like any other.
Idle(p) == [pidx |-> p, bill |-> NoBill, answer |-> NoLookup, prior |-> NoSub, day |-> 1]

NoRequest == Idle(CHOOSE p \in Pidx : TRUE)
NoSnapshot == [row |-> NoSub, day |-> 1]

Init ==
  /\ today = 1
  /\ sub = NoSub
  /\ bills = [p \in Pidx |-> NoBill]
  /\ trail = {}
  /\ receipts = {}
  /\ sent = {}
  /\ gateway = [p \in Pidx |-> NoLookup]
  /\ pc = [t \in Request |-> "idle"]
  /\ req = [t \in Request |-> NoRequest]
  /\ dpc = [d \in Dunner |-> "idle"]
  /\ dun = [d \in Dunner |-> NoSnapshot]
-------------------------------------------------------------------------------
(* The pure lifecycle, shared/src/billing *)

\* Operators named ...Mutant are wrong versions of the definition after them,
\* kept to show that a property notices the change; the model does not use them.

\* Mutant: the last day of grace already suspends.
ProjectStatusMutant(s, day) ==
  CASE s.status = "cancelled"                 -> "cancelled"
    [] s.status = "trial" /\ day <= s.periodEnd -> "trial"
    [] s.status \notin {"cancelled", "trial"} /\ day <= s.periodEnd -> "active"
    [] s.status # "cancelled" /\ day > s.periodEnd ->
         IF day - s.periodEnd < GraceDays THEN "past_due" ELSE "suspended"

ProjectStatus(s, day) ==
  CASE s.status = "cancelled"                 -> "cancelled"
    [] s.status = "trial" /\ day <= s.periodEnd -> "trial"
    [] s.status \notin {"cancelled", "trial"} /\ day <= s.periodEnd -> "active"
    [] s.status # "cancelled" /\ day > s.periodEnd ->
         IF day - s.periodEnd <= GraceDays THEN "past_due" ELSE "suspended"

\* dunningDecision: the nudge due, "none" for null.
StageDue(s, day) ==
  LET status == ProjectStatus(s, day) IN
  CASE status = "cancelled" -> "none"
    [] status = "suspended" -> "suspended"
    [] status = "past_due"  -> "expired"
    [] status \in {"trial", "active"} ->
         IF s.periodEnd - day <= NudgeDays THEN "renewal_due_soon" ELSE "none"

\* Mutant: a month from today, whatever is left of the period.
RenewMutant(s, day) == [s EXCEPT !.status = "active", !.periodEnd = day + MonthDays]

\* renew: a month from the later of the period end and the day of payment.
Renew(s, day) ==
  [s EXCEPT !.status = "active",
            !.periodEnd = (IF @ > day THEN @ ELSE day) + MonthDays]
-------------------------------------------------------------------------------
(* Requests *)

Goto(t, from, to) == pc[t] = from /\ pc' = [pc EXCEPT ![t] = to]

End(t, from) == Goto(t, from, "idle") /\ req' = [req EXCEPT ![t] = NoRequest]

\* What the row upserted by writeSubscription keeps of the current one.
Upsert(next) == [sub EXCEPT !.status = next.status, !.periodEnd = next.periodEnd]

\* ensureTrial: a trial only when the tenant has no row when it looks
MayStartTrial == sub.status = "absent"

ReadForTrial(t) ==
  /\ Goto(t, "idle", "trial")
  /\ MayStartTrial
  /\ req' = [req EXCEPT ![t].day = today]
  /\ UNCHANGED <<today, sub, bills, trail, receipts, gateway, dunVars>>

WriteTrial(t) ==
  /\ End(t, "trial")
  /\ sub' = Upsert([status |-> "trial", periodEnd |-> req[t].day + TrialDays])
  /\ UNCHANGED <<today, bills, trail, receipts, gateway, dunVars>>

\* initiate_subscription: the gateway first, then the row
InitiateAtGateway(t, p, agrees) ==
  /\ Goto(t, "idle", "insert")
  /\ gateway[p].status = "none"
  /\ gateway' = [gateway EXCEPT ![p] = [status |-> "Initiated", agrees |-> agrees]]
  /\ req' = [req EXCEPT ![t] = Idle(p)]
  /\ UNCHANGED <<today, sub, bills, trail, receipts, dunVars>>

InsertBill(t) ==
  /\ End(t, "insert")
  /\ bills' = [bills EXCEPT ![req[t].pidx] = [NoBill EXCEPT !.status = "initiated"]]
  /\ UNCHANGED <<today, sub, trail, receipts, gateway, dunVars>>

\* settleSubscriptionPayment, run by verify_subscription and the callback
ReadBill(t, p) ==
  /\ Goto(t, "idle", "lookup")
  /\ bills[p].status # "absent"
  /\ req' = [req EXCEPT ![t] = [Idle(p) EXCEPT !.bill = bills[p], !.day = today]]
  /\ UNCHANGED <<today, sub, bills, trail, receipts, gateway, dunVars>>

\* Mutant: the redirect's word is taken for the gateway's.
LookupPaymentMutant(t) ==
  /\ Goto(t, "lookup", "settle")
  /\ req' = [req EXCEPT ![t].answer = [status |-> "Completed", agrees |-> TRUE]]
  /\ UNCHANGED <<today, sub, bills, trail, receipts, gateway, dunVars>>

LookupPayment(t) ==
  /\ Goto(t, "lookup", "settle")
  /\ req' = [req EXCEPT ![t].answer = gateway[req[t].pidx]]
  /\ UNCHANGED <<today, sub, bills, trail, receipts, gateway, dunVars>>

FlagMismatch(t) ==
  /\ End(t, "settle")
  /\ ~req[t].answer.agrees
  /\ bills' = [bills EXCEPT ![req[t].pidx].status = "amount_mismatch"]
  /\ UNCHANGED <<today, sub, trail, receipts, gateway, dunVars>>

\* Mutant: the payment row is not consulted.
CreditedMutant(bill) == bill.status = "absent"

\* row.status === 'completed' && row.periodEnd, on the row as it was read
Credited(bill) == bill.status = "completed" /\ bill.periodEnd # 0

AlreadyCredited(t) ==
  /\ End(t, "settle")
  /\ req[t].answer.agrees /\ req[t].answer.status = "Completed"
  /\ Credited(req[t].bill)
  /\ UNCHANGED <<today, sub, bills, trail, receipts, gateway, dunVars>>

\* Without a row the prior state is a trial that ends today.
LoadSubscription(t) ==
  /\ Goto(t, "settle", "credit")
  /\ req[t].answer.agrees /\ req[t].answer.status = "Completed"
  /\ ~Credited(req[t].bill)
  /\ req' = [req EXCEPT ![t].prior =
               IF sub.status = "absent"
                 THEN [NoSub EXCEPT !.status = "trial", !.periodEnd = req[t].day]
                 ELSE sub]
  /\ UNCHANGED <<today, sub, bills, trail, receipts, gateway, dunVars>>

\* Mutant: a trial cannot be renewed.
RenewableMutant(s) == s.status \in {"active", "past_due", "suspended"}

\* renew throws for a cancelled subscription
Renewable(s) == s.status # "cancelled"

\* UPDATE billing_payments ... WHERE id = row.id AND status = 'initiated'
Completion(p, end) ==
  IF bills[p].status = "initiated"
    THEN [bills EXCEPT ![p] = [status |-> "completed", periodEnd |-> end]]
    ELSE bills

\* Mutant: a receipt only for the request that completed the row.
QueueReceiptMutant(p) ==
  IF HasNumber /\ bills[p].status = "initiated" /\ sub.status # "absent"
    THEN receipts \cup {p} ELSE receipts

\* enqueueNotification with dedupe key payment_received:<pidx>
QueueReceipt(p) == IF HasNumber THEN receipts \cup {p} ELSE receipts

Credit(t) ==
  LET p == req[t].pidx
      next == Renew(req[t].prior, req[t].day) IN
  /\ End(t, "credit")
  /\ Renewable(req[t].prior)
  /\ sub' = Upsert(next)
  /\ bills' = Completion(p, next.periodEnd)
  /\ trail' = trail \cup {[pidx |-> p, periodEnd |-> next.periodEnd]}
  /\ receipts' = QueueReceipt(p)
  /\ UNCHANGED <<today, gateway, dunVars>>

\* The throw rolls the transaction back.
RejectCancelled(t) ==
  /\ End(t, "credit")
  /\ ~Renewable(req[t].prior)
  /\ UNCHANGED <<today, sub, bills, trail, receipts, gateway, dunVars>>

\* Mutant: the subscription's spelling, which the CHECK on the column refuses.
ClosedStatusMutant(s) == IF s = "Expired" THEN "expired" ELSE "cancelled"

ClosedStatus(s) == IF s = "Expired" THEN "expired" ELSE "canceled"

CloseUnpaid(t) ==
  /\ End(t, "settle")
  /\ req[t].answer.agrees
  /\ req[t].answer.status \in {"Expired", "User canceled"}
  /\ bills' = IF req[t].bill.status = "initiated"
                THEN [bills EXCEPT ![req[t].pidx].status = ClosedStatus(req[t].answer.status)]
                ELSE bills
  /\ UNCHANGED <<today, sub, trail, receipts, gateway, dunVars>>

NothingToDo(t) ==
  /\ End(t, "settle")
  /\ req[t].answer.agrees
  /\ req[t].answer.status \in {"Initiated", "Pending", "Refunded"}
  /\ UNCHANGED <<today, sub, bills, trail, receipts, gateway, dunVars>>

Fail(t) ==
  /\ MayFail /\ pc[t] # "idle"
  /\ End(t, pc[t])
  /\ UNCHANGED <<today, sub, bills, trail, receipts, gateway, dunVars>>

\* cancel_subscription: its UPDATE does not depend on what it read
Cancel ==
  /\ MayCancel /\ sub.status \notin {"absent", "cancelled"}
  /\ sub' = [sub EXCEPT !.status = "cancelled"]
  /\ UNCHANGED <<today, bills, trail, receipts, gateway, requestVars, dunVars>>
-------------------------------------------------------------------------------
(* runDunningPass *)

dunRest == <<today, bills, trail, receipts, gateway, requestVars>>

DunStep(d, from, to) ==
  /\ dpc[d] = from
  /\ dpc' = [dpc EXCEPT ![d] = to]
  /\ IF to = "idle" THEN dun' = [dun EXCEPT ![d] = NoSnapshot]
     ELSE from # "idle" => UNCHANGED dun

ReadSubscriptions(d) ==
  /\ DunStep(d, "idle", "reconcile")
  /\ sub.status # "absent"
  /\ dun' = [dun EXCEPT ![d] = [row |-> sub, day |-> today]]
  /\ UNCHANGED <<sub, sent, dunRest>>

\* Mutant: the latch is compared with today, not with the period end.
LatchedMutant(s, day) == s.lastStage = StageDue(s, day) /\ s.lastFor = day

\* same (stage, period_end) already nudged, by the row as it was read
Latched(s, day) == s.lastStage = StageDue(s, day) /\ s.lastFor = s.periodEnd

NudgeDue(s, day) == StageDue(s, day) # "none" /\ ~Latched(s, day) /\ HasNumber

\* UPDATE ... SET status when it differs from the row read; on to the nudge, if any
Reconcile(d) ==
  LET row == dun[d].row
      status == ProjectStatus(row, dun[d].day) IN
  /\ DunStep(d, "reconcile", IF NudgeDue(row, dun[d].day) THEN "send" ELSE "idle")
  /\ sub' = IF status # row.status THEN [sub EXCEPT !.status = status] ELSE sub
  /\ UNCHANGED <<sent, dunRest>>

Nudge(d) == [stage |-> StageDue(dun[d].row, dun[d].day), periodEnd |-> dun[d].row.periodEnd]

SendNudge(d) ==
  /\ DunStep(d, "send", "latch")
  /\ sent' = sent \cup {Nudge(d)}
  /\ UNCHANGED <<sub, dunRest>>

RecordLatch(d) ==
  /\ DunStep(d, "latch", "idle")
  /\ sub' = [sub EXCEPT !.status = ProjectStatus(dun[d].row, dun[d].day),
                        !.lastStage = Nudge(d).stage,
                        !.lastFor = Nudge(d).periodEnd]
  /\ UNCHANGED <<sent, dunRest>>

\* The send or the process fails: the pass records an error and moves on.
PassFails(d) ==
  /\ MayFail /\ dpc[d] # "idle"
  /\ DunStep(d, dpc[d], "idle")
  /\ UNCHANGED <<sub, sent, dunRest>>
-------------------------------------------------------------------------------
Tick ==
  /\ today < MaxDay
  /\ today' = today + 1
  /\ UNCHANGED <<sub, bills, trail, receipts, gateway, requestVars, dunVars>>

GatewayMove ==
  { <<"Initiated", "Pending">>, <<"Pending", "Completed">>, <<"Initiated", "Expired">>,
    <<"Pending", "Expired">>, <<"Initiated", "User canceled">>,
    <<"Pending", "User canceled">>, <<"Completed", "Refunded">> }

GatewayStep(p) ==
  \E s \in GatewayStatus :
    /\ <<gateway[p].status, s>> \in GatewayMove
    /\ gateway' = [gateway EXCEPT ![p].status = s]
    /\ UNCHANGED <<today, sub, bills, trail, receipts, requestVars, dunVars>>

Settle(t) ==
  \/ FlagMismatch(t) \/ AlreadyCredited(t) \/ LoadSubscription(t) \/ Credit(t)
  \/ RejectCancelled(t) \/ CloseUnpaid(t) \/ NothingToDo(t)

Proceed(t) == InsertBill(t) \/ LookupPayment(t) \/ Settle(t) \/ WriteTrial(t)

DunningPass(d) ==
  \/ ReadSubscriptions(d) \/ Reconcile(d) \/ SendNudge(d) \/ RecordLatch(d) \/ PassFails(d)

Next ==
  \/ \E t \in Request :
       \/ ReadForTrial(t) \/ Proceed(t) \/ Fail(t)
       \/ \E p \in Pidx, agrees \in BOOLEAN : InitiateAtGateway(t, p, agrees)
       \/ \E p \in Pidx : ReadBill(t, p)
  \/ Cancel
  \/ \E d \in Dunner : DunningPass(d)
  \/ Tick
  \/ \E p \in Pidx : GatewayStep(p)

Spec == Init /\ [][Next]_vars

\* A request under way runs on or dies.  Somebody keeps verifying each payment (the
\* owner asks again, or the payer's redirect arrives) and not every attempt dies at
\* the same step.  No gateway move is assumed.
FairSpec ==
  /\ Spec
  /\ \A t \in Request :
       /\ WF_vars(Proceed(t) \/ Fail(t))
       /\ \A p \in Pidx : SF_vars(ReadBill(t, p))
       /\ SF_vars(LookupPayment(t)) /\ SF_vars(LoadSubscription(t)) /\ SF_vars(Credit(t))
-------------------------------------------------------------------------------
(* Properties *)

Extensions(p) == {e \in trail : e.pidx = p}

\* A period is only ever extended for money the gateway collected in the right
\* amount, and a completed payment carries a period the trail says it bought.
CreditBacked ==
  /\ \A e \in trail : gateway[e.pidx].agrees /\ gateway[e.pidx].status \in {"Completed", "Refunded"}
  /\ \A p \in Pidx : bills[p].status = "completed" =>
       [pidx |-> p, periodEnd |-> bills[p].periodEnd] \in trail

\* "It exists iff the period was extended": a receipt is queued for exactly the
\* payments that extended the period, when there is a number to send it to.
ReceiptIffExtended == HasNumber => receipts = {e.pidx : e \in trail}

\* No nudge is ahead of its day: "expired" only after the period end it names,
\* "paused" only after the grace days, a renewal notice only in the nudge window.
NudgesNotEarly ==
  \A n \in sent :
    CASE n.stage = "expired"          -> today > n.periodEnd
      [] n.stage = "suspended"        -> today > n.periodEnd + GraceDays
      [] n.stage = "renewal_due_soon" -> today + NudgeDays >= n.periodEnd

\* "On Completed: extends the subscription period exactly once", and "a replayed callback
\* or double verify finds it already completed and no-ops": no payment buys two periods.
ExtendedOnce == \A p \in Pidx : Cardinality(Extensions(p)) <= 1

\* What is left of it in the code: a completed payment has extended the period at most
\* as often as there were requests in flight together, however often it is settled.
ExtensionsOnlyByOverlap(inFlight) ==
  \A p \in Pidx :
    bills[p].status = "completed" => Cardinality(Extensions(p)) <= Cardinality(inFlight)

\* "Paying early stacks": a payment adds a whole month to whatever the tenant has,
\* and no other payment, trial or pass takes a day away.  It holds when requests do
\* not overlap: two that do may store one renewal over the other.
KeepsEveryDay ==
  LET paid == \E t \in Request : Credit(t) /\ sub.status # "absent" IN
  sub'.periodEnd >= sub.periodEnd + (IF paid THEN MonthDays ELSE 0)
NoDayIsLost == [][KeepsEveryDay]_vars

\* "Never double-send": no pass sends the nudge the latch already names.  A nudge is
\* repeated only if the pass that sent it died before it wrote the latch.
RespectsLatch ==
  \A d \in Dunner : SendNudge(d) =>
    ~(sub.lastStage = Nudge(d).stage /\ sub.lastFor = Nudge(d).periodEnd)
NeverNudgesLatched == [][RespectsLatch]_vars

\* A payment the gateway completed in the right amount is credited in the end
\* (or refunded at the gateway), as long as somebody keeps verifying it.
PaidIsCredited ==
  \A p \in Pidx :
    (gateway[p].status = "Completed" /\ gateway[p].agrees /\ bills[p].status # "absent")
      ~> (Extensions(p) # {} \/ gateway[p].status = "Refunded")
===============================================================================
