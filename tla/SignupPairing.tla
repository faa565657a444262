----------------------------- MODULE SignupPairing -----------------------------
(***************************************************************************)
(* How a business comes to be (signup/signup.ts, onboarding/pairing.ts,    *)
(* the review and code actions of admin/routes.ts), composed with the      *)
(* teams of TeamAccess: the pairing makes the first row of memberships.    *)
(*                                                                         *)
(* A form is decided in one transaction under the number's lock; what it   *)
(* reads is not locked against the operator or against other numbers, so   *)
(* its reads and its writes are two steps.  So are the operator's.  A code *)
(* is on its way until WhatsApp takes or refuses it.                       *)
(***************************************************************************)
EXTENDS TeamAccess

CONSTANTS
  TrialPlan,      \* the plan every business starts on
  NoSubscription, \* the plan without a subscription: starter
  MaxFails,       \* SIGNUP_MAX_FAILED_ATTEMPTS
  PerNumber,      \* SIGNUP_CODES_PER_NUMBER_PER_DAY
  DailyCap        \* signup.daily_cap

ASSUME CodeAssumption == {MaxFails, PerNumber, DailyCap} \subseteq Nat \ {0}

\* PLAN_SEATS: the owner has a seat, and the trial no fewer than no subscription.
ASSUME TrialAssumption ==
  /\ {TrialPlan, NoSubscription} \subseteq Plan
  /\ Seats[NoSubscription] > 0 /\ Seats[TrialPlan] >= Seats[NoSubscription]

VARIABLES
  reviewed,   \* signup.require_approval
  code,       \* the last pairing code of each business: alive, bound to, wrong guesses
  sent,       \* codes of the last 24 hours that were not refused, by number and origin
  form,       \* the website's form of each number
  desk,       \* decisions the operator has begun
  approved    \* history: applications the operator, or a setting, let through

signupVars == <<reviewed, code, sent, form, desk, approved>>
vars == <<teamVars, signupVars>>
-------------------------------------------------------------------------------
Code == [live: BOOLEAN, to: Number \cup {NoNumber}, fails: 0..MaxFails, by: {"form", "desk"}]
NoCode == [live |-> FALSE, to |-> NoNumber, fails |-> 0, by |-> "desk"]

\* What a form has decided, for which business, and the review state it read.
Form == [at: {"idle", "apply", "reapply", "issue", "send"}, for: Tenant \cup {NoTenant}, read: Review]
NoForm == [at |-> "idle", for |-> NoTenant, read |-> "none"]

TypeOK ==
  /\ TeamTypeOK
  /\ reviewed \in BOOLEAN
  /\ code \in [Tenant -> Code]
  /\ sent \in [Number -> [form: 0..PerNumber, desk: 0..1]]
  /\ form \in [Number -> Form]
  /\ desk \subseteq {"approve", "decline"} \X Tenant
  /\ approved \subseteq Tenant

NoBusiness == [status |-> "absent", owner |-> NoNumber, review |-> "none", applicant |-> NoNumber]

Init ==
  /\ tenant = [t \in Tenant |-> NoBusiness]
  /\ plan = [t \in Tenant |-> NoSubscription]
  /\ row = [k \in Number \X Tenant |-> NoRow]
  /\ created = <<>> /\ touched = [n \in Number |-> <<>>]
  /\ at = [n \in Number |-> Idle] /\ pick = [n \in Number |-> NoTenant]
  /\ strained = {} /\ paused = FALSE
  /\ reviewed \in BOOLEAN
  /\ code = [t \in Tenant |-> NoCode]
  /\ sent = [n \in Number |-> [form |-> 0, desk |-> 0]]
  /\ form = [n \in Number |-> NoForm]
  /\ desk = {} /\ approved = {}
-------------------------------------------------------------------------------
(* handleSignup *)

\* A membership of any age, even one that is over, or a business of its own.
Taken(n) ==
  \/ \E t \in Tenant : row[<<n, t>>].status = "active"
  \/ \E t \in Tenant : tenant[t].owner = n

Application(n) == {t \in Tenant : tenant[t].status = "pending" /\ tenant[t].applicant = n}
ByCode(n) == {t \in Tenant : tenant[t].status = "pending" /\ code[t].to = n}
Absent == {t \in Tenant : tenant[t].status = "absent"}

SentTo(n) == sent[n].form + sent[n].desk
SentToday == FoldFunction(LAMBDA s, total : s.form + s.desk + total, 0, sent)

Decide(n, what, t, review) ==
  form' = [form EXCEPT ![n] = [at |-> what, for |-> t, read |-> review]]

MaySubmit(n) == SentToday < DailyCap /\ SentTo(n) < PerNumber /\ ~Taken(n)

\* The reads of the transaction.
Submit(n) ==
  /\ form[n] = NoForm
  /\ MaySubmit(n)
  /\ \/ \E t \in Application(n) :
          IF reviewed /\ tenant[t].review # "approved"
            THEN Decide(n, "reapply", t, tenant[t].review)
            ELSE Decide(n, "issue", t, tenant[t].review)
     \/ /\ Application(n) = {}
        /\ IF reviewed
             THEN Decide(n, "apply", NoTenant, "none")
             ELSE \E t \in IF ByCode(n) # {} THEN ByCode(n) ELSE {NoTenant} : Decide(n, "issue", t, "none")
  /\ UNCHANGED <<teamVars, reviewed, code, sent, desk, approved>>

\* issuePairingCode for a number: the code before it dies.
NewCode(n, by) == [live |-> TRUE, to |-> n, fails |-> 0, by |-> by]

Apply(n) ==
  /\ form[n].at = "apply"
  /\ \E t \in Absent :
       tenant' = [tenant EXCEPT ![t] =
         [status |-> "pending", owner |-> NoNumber, review |-> "awaiting", applicant |-> n]]
  /\ form' = [form EXCEPT ![n] = NoForm]
  /\ UNCHANGED <<plan, row, created, touched, at, pick, strained, paused,
                 reviewed, code, sent, desk, approved>>

\* UPDATE by id: whatever has been decided since it was read.
Reapply(n) ==
  LET t == form[n].for
  IN /\ form[n].at = "reapply"
     /\ tenant' = [tenant EXCEPT ![t].review = "awaiting"]
     /\ form' = [form EXCEPT ![n] = NoForm]
     /\ UNCHANGED <<plan, row, created, touched, at, pick, strained, paused,
                    reviewed, code, sent, desk, approved>>

\* A code for a new business, for one that has had a code, or for an application
\* that is approved or that no review holds back any more: the code approves it.
Issue(n) ==
  \E t \in IF form[n].for = NoTenant THEN Absent ELSE {form[n].for} :
    LET applied == tenant[t].applicant # NoNumber
    IN /\ form[n].at = "issue"
       /\ tenant' = [tenant EXCEPT
            ![t].status = IF @ = "absent" THEN "pending" ELSE @,
            ![t].review = IF applied /\ form[n].read # "approved" THEN "approved" ELSE @]
       /\ approved' = IF applied THEN approved \cup {t} ELSE approved
       /\ code' = [code EXCEPT ![t] = NewCode(n, "form")]
       /\ sent' = [sent EXCEPT ![n].form = @ + 1]
       /\ form' = [form EXCEPT ![n].at = "send", ![n].for = t]
       /\ UNCHANGED <<plan, row, created, touched, at, pick, strained, paused,
                      reviewed, desk>>

SendAccepted(n) ==
  /\ form[n].at = "send"
  /\ form' = [form EXCEPT ![n] = NoForm]
  /\ UNCHANGED <<teamVars, reviewed, code, sent, desk, approved>>

\* The code nobody received is burned and does not count.
SendRefused(n) ==
  LET t == form[n].for
  IN /\ form[n].at = "send"
     /\ code' = [code EXCEPT ![t].live = @ /\ code[t].by # "form"]
     /\ sent' = [sent EXCEPT ![n].form = IF @ = 0 THEN 0 ELSE @ - 1]
     /\ form' = [form EXCEPT ![n] = NoForm]
     /\ UNCHANGED <<teamVars, reviewed, desk, approved>>
-------------------------------------------------------------------------------
(* The operator's panel *)

\* deliverCode: accepted or refused, the operator has it on the screen.
DeskCode(t, n) ==
  /\ code' = [code EXCEPT ![t] = NewCode(n, "desk")]
  /\ sent' \in {sent, [sent EXCEPT ![n].desk = 1]}

\* POST /admin/tenants.
CreateByHand(n, t) ==
  /\ ~Taken(n) /\ t \in Absent
  /\ tenant' = [tenant EXCEPT ![t].status = "pending"]
  /\ DeskCode(t, n)
  /\ UNCHANGED <<plan, row, created, touched, at, pick, strained, paused,
                 reviewed, form, desk, approved>>

\* Mutant: an application that waits for its review gets a code.
MayHaveCodeMutant(t) == tenant[t].status = "pending"

MayHaveCode(t) == tenant[t].status = "pending" /\ tenant[t].review \notin {"awaiting", "declined"}

\* Resend, Retry now and the retrier.
Resend(t) ==
  /\ MayHaveCode(t)
  /\ \E n \in {IF code[t].to # NoNumber THEN code[t].to ELSE tenant[t].applicant} \ {NoNumber} :
       DeskCode(t, n)
  /\ UNCHANGED <<teamVars, reviewed, form, desk, approved>>

BeginApprove(t) ==
  /\ tenant[t].status = "pending" /\ tenant[t].review \in {"awaiting", "declined"}
  /\ ~Taken(tenant[t].applicant)
  /\ desk' = desk \cup {<<"approve", t>>}
  /\ UNCHANGED <<teamVars, reviewed, code, sent, form, approved>>

\* The decision is claimed by a conditional UPDATE; then the notice goes out, or
\* a code when WhatsApp refuses the notice.
Approve(t) ==
  /\ <<"approve", t>> \in desk
  /\ desk' = desk \ {<<"approve", t>>}
  /\ IF tenant[t].status = "pending" /\ tenant[t].review \in {"awaiting", "declined"}
       THEN /\ tenant' = [tenant EXCEPT ![t].review = "approved"]
            /\ approved' = approved \cup {t}
            /\ UNCHANGED <<code, sent>> \/ DeskCode(t, tenant[t].applicant)
       ELSE UNCHANGED <<tenant, approved, code, sent>>
  /\ UNCHANGED <<plan, row, created, touched, at, pick, strained, paused, reviewed, form>>

BeginDecline(t) ==
  /\ tenant[t].status = "pending" /\ tenant[t].review = "awaiting"
  /\ desk' = desk \cup {<<"decline", t>>}
  /\ UNCHANGED <<teamVars, reviewed, code, sent, form, approved>>

\* UPDATE by id.
Decline(t) ==
  /\ <<"decline", t>> \in desk
  /\ desk' = desk \ {<<"decline", t>>}
  /\ tenant' = [tenant EXCEPT ![t].review = "declined"]
  /\ UNCHANGED <<plan, row, created, touched, at, pick, strained, paused,
                 reviewed, code, sent, form, approved>>

Switch ==
  /\ reviewed' = ~reviewed
  /\ UNCHANGED <<teamVars, code, sent, form, desk, approved>>
-------------------------------------------------------------------------------
(* handleUnknownSender *)

\* activateOwner: the number, its row as owner, the trial.  The business's number
\* is UNIQUE: a number that owns another business fails the transaction.
Activate(n, t) ==
  /\ \A u \in Tenant \ {t} : tenant[u].owner # n
  /\ tenant' = [tenant EXCEPT ![t].status = "active", ![t].owner = n]
  /\ IF Live(n, t) THEN UNCHANGED <<row, created, touched>>
                   ELSE PutRow(n, t, [NoRow EXCEPT !.status = "active"])
  /\ plan' = [plan EXCEPT ![t] = IF @ = NoSubscription THEN TrialPlan ELSE @]
  /\ at' = [at EXCEPT ![n] = Idle]
  /\ UNCHANGED <<pick, strained, paused, reviewed, sent, form, desk, approved>>

Open(n) == {t \in Application(n) : tenant[t].review \in {"awaiting", "approved"}}

\* pairApprovedApplicant: the message itself is the proof.
PairApproved(n) ==
  /\ at[n][1] = "stranger"
  /\ \E t \in Open(n) :
       /\ tenant[t].review = "approved"
       /\ code' = [code EXCEPT ![t].live = FALSE]
       /\ Activate(n, t)

\* Mutant: a code pairs whoever sends it.
BoundToMutant(t, n) == TRUE

BoundTo(t, n) == code[t].to = n

PairByCode(n) ==
  /\ at[n] = <<"stranger", "code">> /\ Open(n) = {}
  /\ \E t \in Tenant :
       /\ code[t].live /\ BoundTo(t, n)
       /\ code' = [code EXCEPT ![t].live = FALSE]
       /\ Activate(n, t)

\* Mutant: >= became >.
FailedMutant(c) == [c EXCEPT !.fails = @ + 1, !.live = c.fails + 1 <= MaxFails]

\* countFailedAttempt: on every live code bound to the number.
Failed(c) == [c EXCEPT !.fails = @ + 1, !.live = c.fails + 1 < MaxFails]

WrongCode(n) ==
  /\ at[n] = <<"stranger", "code">> /\ Open(n) = {}
  /\ code' = [t \in Tenant |-> IF code[t].live /\ code[t].to = n THEN Failed(code[t]) ELSE code[t]]
  /\ at' = [at EXCEPT ![n] = Idle]
  /\ UNCHANGED <<tenant, plan, row, created, touched, pick, strained, paused,
                 reviewed, sent, form, desk, approved>>

\* Told that the review is not over, or how to sign up.
NotPaired(n) ==
  /\ at[n][1] = "stranger"
  /\ \/ \E t \in Open(n) : tenant[t].review = "awaiting"
     \/ Open(n) = {} /\ at[n][2] # "code"
  /\ at' = [at EXCEPT ![n] = Idle]
  /\ UNCHANGED <<tenant, plan, row, created, touched, pick, strained, paused, signupVars>>
-------------------------------------------------------------------------------
\* PAIRING_TTL_MINUTES are over.
CodeExpires(t) ==
  /\ code[t].live
  /\ code' = [code EXCEPT ![t].live = FALSE]
  /\ UNCHANGED <<teamVars, reviewed, sent, form, desk, approved>>

DayPasses ==
  /\ SentToday > 0
  /\ sent' = [n \in Number |-> [form |-> 0, desk |-> 0]]
  /\ UNCHANGED <<teamVars, reviewed, code, form, desk, approved>>

SignupInputs ==
  \/ \E n \in Number : Submit(n) \/ \E t \in Tenant : CreateByHand(n, t)
  \/ \E t \in Tenant : Resend(t) \/ BeginApprove(t) \/ BeginDecline(t) \/ CodeExpires(t)
  \/ DayPasses \/ Switch

SignupSteps ==
  \/ \E n \in Number :
       \/ Apply(n) \/ Reapply(n) \/ Issue(n) \/ SendAccepted(n) \/ SendRefused(n)
       \/ PairApproved(n) \/ PairByCode(n) \/ WrongCode(n) \/ NotPaired(n)
  \/ \E t \in Tenant : Approve(t) \/ Decline(t)

Inputs == (TeamInputs /\ UNCHANGED signupVars) \/ SignupInputs
Steps == (TeamSteps /\ UNCHANGED signupVars) \/ SignupSteps

Next == Inputs \/ Steps

Spec == Init /\ [][Next]_vars
-------------------------------------------------------------------------------
(* Properties *)

\* "Nothing is sent to an applicant before Approve": a business that came as an
\* application is never opened unless the operator approved it or the review was
\* switched off, whatever codes, retries and decisions cross.
ReviewedFirst ==
  \A t \in Tenant :
    tenant[t].owner # NoNumber /\ tenant[t].applicant # NoNumber => t \in approved
===============================================================================
