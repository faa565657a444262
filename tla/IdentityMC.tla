------------------------------- MODULE IdentityMC ------------------------------
(***************************************************************************)
(* The life of a business for TLC: SignupPairing, OnboardingDelivery,      *)
(* TurnBearers, UsageBudget and TenantPurge.  The parts share no state     *)
(* that another one changes, so a behaviour follows one of them, chosen at *)
(* the start (part); the others stay in their first state.  SignupPairing  *)
(* is two parts: signups from an empty system, and teams already at work.  *)
(* The inputs are bounded; the steps they set off come in every order.     *)
(***************************************************************************)
EXTENDS SignupPairing

CONSTANTS n1, n2, n3, t1, t2, MaxInputs,
  Retrier, Customer, Failure, MaxAttempts, MaxSends,
  MaxSpendInputs, MaxPurgeInputs, MaxVaults, MaxTurns

VARIABLES
  part, left,  \* left: inputs of the first three parts still to come
  msgs, last, stage, hand, busyDesk, met,
  month, tier, counter, bucket, talk, yes, nudged, spent, lost,
  business, rows, user, member, registry, live, opened, turn, purge, proof, blamed, crossed,
  vaults, inUse, alive, acting, turns, stray, shared, overlapped, misfits,
  inputs       \* inputs of budget and deletion so far

ASSUME InputAssumption ==
  /\ {n1, n2, n3} \subseteq Number /\ n1 # n2 /\ n1 # n3 /\ n2 # n3
  /\ {t1, t2} \subseteq Tenant /\ t1 # t2 /\ "accountant" \in Role
  /\ MaxInputs \in Nat \ {0}
ASSUME CustomerAssumption == IsFiniteSet(Customer)
ASSUME BearerAssumption == {MaxVaults, MaxTurns} \subseteq Nat \ {0}
ASSUME DeliveryAssumption ==
  /\ {MaxAttempts, MaxSends} \subseteq Nat \ {0}
  /\ Failure \subseteq {"account", "transient", "template", "recipient"}

\* The actors of a part are interchangeable; parts use the same names for them.
Delivery ==
  INSTANCE OnboardingDelivery WITH Click <- Retrier, desk <- busyDesk,
    Reported <- {"sent", "failed", "delivered"}

Budget ==
  INSTANCE UsageBudget WITH Member <- Customer, plan <- tier, hand <- talk, approved <- yes,
    Cap <- [starter |-> 6, pro |-> 10], Cost <- {5}, Burst <- 3, Months <- 2,
    MaxInputs <- MaxSpendInputs

Deletion ==
  INSTANCE TenantPurge WITH Person <- Customer, Purger <- Retrier, Turn <- {n1},
    Contents <- {{"logs", "payments", "sales", "jobs", "connectors"}, {"parties"}},
    Written <- {"payments"}, MaxSessions <- 2, MaxInputs <- MaxPurgeInputs

Bearers ==
  INSTANCE TurnBearers WITH Member <- Customer, Acting <- {"owner", "staff"},
    Servers <- <<"ledger", "payments">>,
    registry <- inUse, live <- alive, turn <- acting, crossed <- overlapped

deliveryVars == <<msgs, last, stage, hand, busyDesk, met>>
budgetVars == <<month, tier, counter, bucket, talk, yes, nudged, spent, lost>>
deletionVars == <<business, rows, user, member, registry, live, opened, turn, purge, proof,
                  blamed, crossed>>
bearerVars == <<vaults, inUse, alive, acting, turns, stray, shared, overlapped, misfits>>

allVars == <<vars, deliveryVars, budgetVars, deletionVars, bearerVars, part, left, inputs>>

Symmetry == Permutations(Retrier) \cup Permutations(Customer)

Verified(n) == [NoBusiness EXCEPT !.status = "active", !.owner = n]

SeatsOf == [p \in Plan |-> IF p = TrialPlan THEN 2 ELSE 1]

\* Both businesses came by hand: n1 is the owner of t1 and n2 that of t2; the
\* access n3 had to t1 is over.
Established ==
  /\ tenant = [t \in Tenant |-> IF t = t1 THEN Verified(n1) ELSE IF t = t2 THEN Verified(n2) ELSE NoBusiness]
  /\ plan = [t \in Tenant |-> IF t \in {t1, t2} THEN TrialPlan ELSE NoSubscription]
  /\ row = [k \in Number \X Tenant |->
       CASE k \in {<<n1, t1>>, <<n2, t2>>} -> [NoRow EXCEPT !.status = "active"]
         [] k = <<n3, t1>> -> [status |-> "active", role |-> "accountant",
                               limited |-> TRUE, over |-> TRUE, stale |-> FALSE]
         [] OTHER -> NoRow]
  /\ created = <<<<n1, t1>>, <<n3, t1>>, <<n2, t2>>>>
  /\ touched = [n \in Number |-> IF n \in {n1, n3} THEN <<t1>> ELSE IF n = n2 THEN <<t2>> ELSE <<>>]
  /\ at = [n \in Number |-> Idle] /\ pick = [n \in Number |-> NoTenant]
  /\ strained = {} /\ paused = FALSE
  /\ reviewed = TRUE
  /\ code = [t \in Tenant |-> NoCode]
  /\ sent = [n \in Number |-> [form |-> 0, desk |-> 0]]
  /\ form = [n \in Number |-> NoForm]
  /\ desk = {} /\ approved = {}

OneUnderReview ==
  {[x \in Customer |-> IF x = c THEN "review" ELSE "pending"] : c \in Customer}

MCInit ==
  /\ part \in {"signups", "teams", "delivery", "bearers", "budget", "deletion"}
  /\ left = IF part = "teams" THEN MaxInputs ELSE MaxInputs - 1
  /\ IF part = "signups" THEN Init ELSE Established
  /\ Delivery!Init /\ Bearers!Init /\ Budget!Init /\ Deletion!Init
  /\ IF part = "delivery" THEN stage \in OneUnderReview ELSE stage = [c \in Customer |-> "pending"]
  /\ part # "budget" => tier = "none" /\ spent = 0 /\ bucket = 1
  /\ part # "deletion" =>
       /\ member = Customer \X Tenant /\ \A t \in Tenant : <<"parties", "early">> \in rows[t]

Input == left > 0 /\ left' = left - 1

Signup ==
  /\ part \in {"signups", "teams"}
  /\ (Input /\ Inputs) \/ (left' = left /\ Steps)
  /\ UNCHANGED <<deliveryVars, bearerVars, budgetVars, deletionVars, part, inputs>>

Deliver ==
  /\ part = "delivery"
  /\ (Input /\ Delivery!Inputs) \/ (left' = left /\ Delivery!Steps)
  /\ UNCHANGED <<vars, bearerVars, budgetVars, deletionVars, part, inputs>>

Act ==
  /\ part = "bearers" /\ Bearers!Next
  /\ UNCHANGED <<vars, deliveryVars, budgetVars, deletionVars, part, left, inputs>>

Spend ==
  /\ part = "budget" /\ Budget!Next
  /\ UNCHANGED <<vars, deliveryVars, bearerVars, deletionVars, part, left>>

Delete ==
  /\ part = "deletion" /\ Deletion!Next
  /\ UNCHANGED <<vars, deliveryVars, bearerVars, budgetVars, part, left>>

MCNext == Signup \/ Deliver \/ Act \/ Spend \/ Delete

MCSpec == MCInit /\ [][MCNext]_allVars

\* The state of every part is well typed.
AllTypesOK ==
  CASE part \in {"signups", "teams"} -> TypeOK
    [] part = "delivery" -> Delivery!TypeOK [] part = "bearers" -> Bearers!TypeOK
    [] part = "budget" -> Budget!TypeOK [] part = "deletion" -> Deletion!TypeOK

\* No business loses its owner to another, no plan is exceeded, nobody acts for two
\* businesses and, alone with the agent, nobody with another's rights: see TeamAccess,
\* SignupPairing and TurnBearers.
AccessSound ==
  /\ part \in {"signups", "teams"} =>
       OwnerKeepsBusiness /\ SeatsWithinPlan /\ OneBusinessPerNumber
  /\ part = "bearers" => Bearers!OwnRightsAlone /\ Bearers!OneVaultUnlessCrossed

\* Nothing under review is opened, a row is sent again once, and a broken account is
\* probed one message at a time: see SignupPairing and OnboardingDelivery.
OnboardingSound ==
  /\ part \in {"signups", "teams"} => ReviewedFirst
  /\ part = "delivery" => Delivery!ResentOnce /\ Delivery!OneProbe

\* What turns cost is counted, a month's budget is overshot by no more than the turns
\* under way, its note is sent once and an answer is never thanked for; of a business
\* that is deleted nothing is left: see UsageBudget and TenantPurge.
SpendingAndDeletion ==
  /\ part = "budget" =>
       /\ Budget!NudgedOnce /\ Budget!CountersAddUp
       /\ Budget!OverspendBounded /\ Budget!AnswersReachAgent
  /\ part = "deletion" =>
       /\ Deletion!NothingLeft /\ Deletion!GoesThrough
       /\ Deletion!OrphansLeave /\ Deletion!SessionsGone
===============================================================================
