------------------------------- MODULE PaymentsMC ------------------------------
(***************************************************************************)
(* The two uses of the payment gateway, which share no row: what a         *)
(* business collects from its customers, and what it pays for its own      *)
(* subscription.  A behaviour follows one (part), the other stays in its   *)
(* first state.  The subscription is two parts.  "overlap": two requests   *)
(* on one payment at the same time, with cancellation and no dunning.      *)
(* "cycle": one request at a time beside the daily dunning pass, until the *)
(* money that was collected is credited.                                   *)
(***************************************************************************)
EXTENDS CollectionSettlement

CONSTANTS OneRequest, Dunners, MonthDays, TrialDays, GraceDays, NudgeDays, MaxDay

ASSUME PidxAssumption == Pidx # {}
ASSUME OneAssumption == OneRequest \subseteq Request
ASSUME DaysAssumption ==
  /\ {MonthDays, TrialDays, MaxDay} \subseteq Nat \ {0}
  /\ {GraceDays, NudgeDays} \subseteq Nat

VARIABLES part, today, sub, bills, trail, receipts, sent, billing, at, held, dpc, dun

billingVars == <<today, sub, bills, trail, receipts, sent, billing, at, held, dpc, dun>>
allVars == <<part, vars, billingVars>>

Billing == INSTANCE SubscriptionBilling WITH
  gateway <- billing, pc <- at, req <- held,
  Dunner <- Dunners, HasNumber <- TRUE, MayCancel <- TRUE, MayFail <- TRUE

MCInit ==
  /\ part \in {"collection", "overlap", "cycle"}
  /\ Init /\ Billing!Init

\* What a part leaves out of the subscription; a dunning pass moves with every step.
Followed ==
  /\ part = "overlap" => dpc' = dpc
  /\ part = "cycle" => sub'.status # "cancelled" /\ \A t \in Request \ OneRequest : at'[t] = "idle"

MCNext ==
  /\ UNCHANGED part
  /\ \/ part = "collection" /\ Next /\ UNCHANGED billingVars
     \/ part # "collection" /\ Billing!Next /\ Followed /\ UNCHANGED vars

\* As SubscriptionBilling!FairSpec has it, where one request at a time is followed.
Of(action) == part = "cycle" /\ action /\ UNCHANGED <<part, vars>>

Fairness ==
  \A t \in OneRequest :
    /\ WF_allVars(Of(Billing!Proceed(t) \/ Billing!Fail(t)))
    /\ \A p \in Pidx : SF_allVars(Of(Billing!ReadBill(t, p)))
    /\ SF_allVars(Of(Billing!LookupPayment(t)))
    /\ SF_allVars(Of(Billing!LoadSubscription(t)))
    /\ SF_allVars(Of(Billing!Credit(t)))

MCSpec == MCInit /\ [][MCNext]_allVars /\ Fairness
-------------------------------------------------------------------------------
\* The state of the subscription is well typed.
BillingTypeOK == Billing!TypeOK

\* A period is extended only for money collected in the right amount, a receipt is
\* queued exactly when one is, and only requests in flight together extend it twice:
\* that they do is ExtendedOnce failing, in a run of its own.
CreditBacked ==
  /\ Billing!CreditBacked /\ Billing!ReceiptIffExtended
  /\ part = "overlap" => Billing!ExtensionsOnlyByOverlap(Request)
  /\ part = "cycle" => Billing!ExtensionsOnlyByOverlap(OneRequest)

\* One request and one pass at a time: no nudge is ahead of its day or repeats the
\* one the latch names, and no day the tenant paid for is taken away.
NudgesAndDays ==
  [][part = "cycle" => Billing!NudgesNotEarly' /\ Billing!RespectsLatch /\ Billing!KeepsEveryDay]_allVars

\* Collected money is credited in the end, or refunded.
PaidIsCredited == part = "cycle" => Billing!PaidIsCredited
===============================================================================
