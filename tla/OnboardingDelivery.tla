-------------------------- MODULE OnboardingDelivery --------------------------
(***************************************************************************)
(* How a verification code or an approval reaches its number               *)
(* (onboarding/delivery.ts, onboarding/delivery-policy.ts).                *)
(*                                                                         *)
(* Every send leaves a row, but for a website code that is refused; what   *)
(* becomes of it is told by WhatsApp's status reports, late, twice or out  *)
(* of order.  A retrier claims the rows that are due and sends again; two  *)
(* orchestrators may run one each.  The website and the operator send too, *)
(* again for every resubmission and every click, and take no claim.  While *)
(* the last outcome says that our own account is broken, a retrier is to   *)
(* send one probe at a time.                                               *)
(*                                                                         *)
(* An actor that is killed forgets what it had claimed.                    *)
(***************************************************************************)
EXTENDS Naturals, Sequences, FiniteSets, FiniteSetsExt, Functions

CONSTANTS
  Retrier,      \* the orchestrators
  Click,        \* requests of the operator's panel that may be under way at once
  Customer,     \* pending businesses a code or an approval goes to
  Failure,      \* scopes of the failures that happen
  Reported,     \* statuses that WhatsApp reports
  MaxAttempts,  \* MAX_ATTEMPTS
  MaxSends      \* bound: rows of onboarding_messages

VARIABLES
  msgs,     \* onboarding_messages, in the order of id
  last,     \* the row whose status last became failed, delivered or read; 0: none
  stage,    \* under review or declined, approved, pending without one, or none of them any more
  hand,     \* what each retrier is doing
  desk,     \* what each request of the operator is about to send
  met       \* history: two retriers overlapped, or a batch ran into a broken account

vars == <<msgs, last, stage, hand, desk, met>>
-------------------------------------------------------------------------------
Kind == {"approval_notice", "approval_code", "admin_code", "signup_code"}
Scope == {"account", "transient", "template", "recipient"}
Status == <<"accepted", "sent", "failed", "delivered", "read">>
Outcome == {"failed", "delivered", "read"}

Message == [for: Customer, kind: Kind, status: Range(Status), scope: Scope \cup {"none"},
            attempt: Nat, retry: {"no", "later", "due"}, superseded: BOOLEAN,
            fresh: BOOLEAN, of: Nat, probe: BOOLEAN]

IdleHand == [at |-> "idle", probing |-> FALSE, rows |-> {}]

NoRequest == [kind |-> "none"]
Request == [for: Customer, kind: {"approval_notice", "admin_code"}, attempt: Nat \ {0}]

TypeOK ==
  /\ msgs \in Seq(Message) /\ Len(msgs) <= MaxSends + 1
  /\ last \in 0..Len(msgs)
  /\ stage \in [Customer -> {"review", "approved", "pending", "closed"}]
  /\ hand \in [Retrier -> [at: {"idle", "claim", "check", "send"}, probing: BOOLEAN,
                           rows: SUBSET (1..Len(msgs))]]
  /\ desk \in [Click -> Request \cup {NoRequest}]
  /\ met \subseteq {"retriers", "batch"}

Init ==
  /\ msgs = <<>> /\ last = 0
  /\ stage \in [Customer -> {"review", "pending"}]
  /\ hand = [r \in Retrier |-> IdleHand]
  /\ desk = [k \in Click |-> NoRequest]
  /\ met = {}
-------------------------------------------------------------------------------
(* The policy *)

Rank(s) == CHOOSE i \in 1..Len(Status) : Status[i] = s

MergeStatus(current, incoming) == IF Rank(incoming) > Rank(current) THEN incoming ELSE current

\* decideRetry, and the retry_at that follows.
DecideRetry(scope, attempt, kind) ==
  CASE scope = "recipient" -> "park"
    [] scope = "template" -> IF kind = "approval_notice" THEN "fallback" ELSE "park"
    [] OTHER -> IF attempt >= MaxAttempts THEN "park" ELSE "retry"

\* by: who sends it.  History: the row a retrier resends (of), and whether it sends
\* while the account is broken (probe).
Others == [of |-> 0, probe |-> FALSE]

Accepted(c, kind, attempt, by) ==
  [for |-> c, kind |-> kind, status |-> "accepted", scope |-> "none", attempt |-> attempt,
   retry |-> "no", superseded |-> FALSE, fresh |-> TRUE, of |-> by.of, probe |-> by.probe]

Refused(c, kind, attempt, by, scope, schedule) ==
  [Accepted(c, kind, attempt, by) EXCEPT
    !.status = "failed", !.scope = scope,
    !.retry = IF schedule /\ DecideRetry(scope, attempt, kind) = "retry" THEN "later" ELSE "no"]

\* deliverCode: one row, whatever WhatsApp says.
CodeSent(c, kind, attempt, by) ==
  {<<Accepted(c, kind, attempt, by)>>} \cup
  {<<Refused(c, kind, attempt, by, scope, TRUE)>> : scope \in Failure}

\* deliverApproval: a notice that is refused is followed by a code.
ApprovalSent(c, attempt, by) ==
  {<<Accepted(c, "approval_notice", attempt, by)>>} \cup
  {<<Refused(c, "approval_notice", attempt, by, scope, FALSE)>> \o code :
     scope \in Failure, code \in CodeSent(c, "approval_code", attempt, by)}

Insert(rows) ==
  /\ msgs' = msgs \o rows
  /\ last' = IF rows[Len(rows)].status = "failed" THEN Len(msgs')
             ELSE IF Len(rows) = 2 THEN Len(msgs) + 1 ELSE last

SenderDegraded == last # 0 /\ msgs[last].status = "failed" /\ msgs[last].scope = "account"

Outstanding(m) == m.status \in {"accepted", "sent"} /\ ~m.superseded /\ m.fresh

\* Mutant: a probe under way is not looked for.
ProbeInFlightMutant == FALSE

ProbeInFlight == \E i \in 1..Len(msgs) : Outstanding(msgs[i]) /\ msgs[i].attempt > 1

Claimable(m) == m.retry = "due" /\ ~m.superseded

\* Mutant: the rows that are taken are not marked.
SupersedeMutant(m) == m

Supersede(m) == [m EXCEPT !.superseded = TRUE, !.retry = "no"]
-------------------------------------------------------------------------------
\* The website: each time the form is sent again the code is attempt 1 again.  With
\* the review switched off it approves the business.  A refused code leaves no row.
WebsiteSends(c) ==
  /\ stage[c] # "closed" /\ Len(msgs) < MaxSends
  /\ stage' = [stage EXCEPT ![c] = IF @ = "review" THEN "approved" ELSE @]
  /\ Insert(<<Accepted(c, "signup_code", 1, Others)>>) \/ UNCHANGED <<msgs, last>>
  /\ UNCHANGED <<hand, desk, met>>

\* applyDeliveryStatus.  A report for a row that is not there is dropped.
Report(i, incoming, scope) ==
  LET m == msgs[i]
      merged == MergeStatus(m.status, incoming)
      decision == DecideRetry(scope, m.attempt, m.kind)
  IN /\ merged # m.status
     /\ msgs' = [msgs EXCEPT ![i] = [m EXCEPT
          !.status = merged,
          !.scope = IF merged = "failed" THEN scope ELSE @,
          !.retry = IF merged # "failed" THEN IF m.status = "failed" THEN "no" ELSE @
                    ELSE CASE decision = "retry" -> "later"
                           [] decision = "fallback" -> "due"
                           [] OTHER -> "no"]]
     /\ last' = IF merged \in Outcome THEN i ELSE last
     /\ UNCHANGED <<stage, hand, desk, met>>

\* Time: the backoff is over, the window of a probe is over.
BecomesDue(i) ==
  /\ msgs[i].retry = "later"
  /\ msgs' = [msgs EXCEPT ![i].retry = "due"]
  /\ UNCHANGED <<last, stage, hand, desk, met>>

WindowOver(i) ==
  /\ Outstanding(msgs[i]) /\ msgs[i].attempt > 1
  /\ msgs' = [msgs EXCEPT ![i].fresh = FALSE]
  /\ UNCHANGED <<last, stage, hand, desk, met>>

\* Something is to be delivered: the business is pending, not under review nor declined.
Open(c) == stage[c] \in {"approved", "pending"}

\* The business is paired or suspended; or declined, on a page that still showed the
\* application.
Leaves(c) ==
  /\ Open(c)
  /\ \E s \in {"closed"} \cup {x \in {"review"} : stage[c] = "approved"} :
       stage' = [stage EXCEPT ![c] = s]
  /\ UNCHANGED <<msgs, last, hand, desk, met>>
-------------------------------------------------------------------------------
(* runDeliveryRetries *)

Busy == {r \in Retrier : hand[r].at # "idle"}

LookUp(r) ==
  /\ hand[r].at = "idle"
  /\ ~(SenderDegraded /\ ProbeInFlight)
  /\ hand' = [hand EXCEPT ![r] = [at |-> "claim", probing |-> SenderDegraded, rows |-> {}]]
  /\ met' = IF Busy = {} THEN met ELSE met \cup {"retriers"}
  /\ UNCHANGED <<msgs, last, stage, desk>>

DueRows == {i \in 1..Len(msgs) : Claimable(msgs[i])}

\* One transaction: the rows are superseded before anything is sent.
Claim(r) ==
  /\ hand[r].at = "claim"
  /\ \E rows \in IF hand[r].probing /\ DueRows # {} THEN {{i} : i \in DueRows} ELSE {DueRows} :
       /\ hand' = [hand EXCEPT ![r] = IF rows = {} THEN IdleHand
                     ELSE [@ EXCEPT !.at = "check", !.rows = rows]]
       /\ msgs' = [i \in 1..Len(msgs) |-> IF i \in rows THEN Supersede(msgs[i]) ELSE msgs[i]]
  /\ UNCHANGED <<last, stage, desk, met>>

\* The rows it took are worked off in the order of their ids.
Current(r) == Min(hand[r].rows)

NextRow(r) ==
  LET others == hand[r].rows \ {Current(r)}
  IN hand' = [hand EXCEPT ![r] = IF others = {} THEN IdleHand
                                 ELSE [@ EXCEPT !.at = "check", !.rows = others]]

Newer(i) == \E j \in (i + 1)..Len(msgs) : msgs[j].for = msgs[i].for /\ ~msgs[j].superseded

\* Nothing is left to deliver, or somebody has sent again meanwhile.
Skip(r) ==
  LET i == Current(r)
  IN /\ hand[r].at = "check"
     /\ ~Open(msgs[i].for) \/ Newer(i)
     /\ NextRow(r)
     /\ UNCHANGED <<msgs, last, stage, desk, met>>

Check(r) ==
  LET i == Current(r)
  IN /\ hand[r].at = "check"
     /\ Open(msgs[i].for) /\ ~Newer(i)
     /\ hand' = [hand EXCEPT ![r].at = "send"]
     /\ UNCHANGED <<msgs, last, stage, desk, met>>

\* The breaker was looked at before the rows were claimed, and is not looked at again.
SendAgain(r) ==
  LET m == msgs[Current(r)]
      attempt == m.attempt + 1
      notice == m.kind = "approval_notice"
      by == [of |-> Current(r), probe |-> SenderDegraded]
  IN /\ hand[r].at = "send" /\ Len(msgs) < MaxSends
     /\ \E rows \in IF notice /\ m.scope # "template"
                      THEN ApprovalSent(m.for, attempt, by)
                      ELSE CodeSent(m.for, IF notice THEN "approval_code" ELSE m.kind, attempt, by) :
          Insert(rows)
     /\ met' = IF SenderDegraded /\ ~hand[r].probing THEN met \cup {"batch"} ELSE met
     /\ NextRow(r)
     /\ UNCHANGED <<stage, desk>>

Killed(r) ==
  /\ hand[r].at # "idle"
  /\ hand' = [hand EXCEPT ![r] = IdleHand]
  /\ UNCHANGED <<msgs, last, stage, desk, met>>
-------------------------------------------------------------------------------
(* The operator's panel: a request takes no claim, so a second click is a second       *)
(* request.  One that is killed never sends.                                           *)

To(k, c, kind, attempt) ==
  desk' = [desk EXCEPT ![k] = [for |-> c, kind |-> kind, attempt |-> attempt]]

\* The decision is claimed: a double click approves once.
Approve(k, c) ==
  /\ desk[k] = NoRequest /\ stage[c] = "review"
  /\ stage' = [stage EXCEPT ![c] = "approved"]
  /\ To(k, c, "approval_notice", 1)
  /\ UNCHANGED <<msgs, last, hand, met>>

\* The business is made by hand, or gets a new code: attempt 1 again.
Resend(c) ==
  /\ Open(c) /\ Len(msgs) < MaxSends
  /\ \E rows \in CodeSent(c, "admin_code", 1, Others) : Insert(rows)
  /\ UNCHANGED <<stage, hand, desk, met>>

Of(c) == {i \in 1..Len(msgs) : msgs[i].for = c}

LastAttempt(c) == IF Of(c) = {} THEN 0 ELSE msgs[Max(Of(c))].attempt

\* retryNow: the attempt is read and the rows are superseded in two statements that
\* follow each other, one step here; the send comes later, so a second click meanwhile
\* reads the same attempt and sends it too.
PressRetry(k, c) ==
  /\ desk[k] = NoRequest /\ Open(c)
  /\ msgs' = [i \in 1..Len(msgs) |->
       IF msgs[i].for = c /\ ~msgs[i].superseded THEN Supersede(msgs[i]) ELSE msgs[i]]
  /\ To(k, c, IF stage[c] = "approved" THEN "approval_notice" ELSE "admin_code",
        LastAttempt(c) + 1)
  /\ UNCHANGED <<last, stage, hand, met>>

DeskSends(k) ==
  /\ desk[k] # NoRequest /\ Len(msgs) < MaxSends
  /\ \E rows \in IF desk[k].kind = "approval_notice"
                   THEN ApprovalSent(desk[k].for, desk[k].attempt, Others)
                   ELSE CodeSent(desk[k].for, "admin_code", desk[k].attempt, Others) :
       Insert(rows)
  /\ desk' = [desk EXCEPT ![k] = NoRequest]
  /\ UNCHANGED <<stage, hand, met>>

Inputs ==
  \/ \E c \in Customer : WebsiteSends(c) \/ Resend(c) \/ Leaves(c)
  \/ \E k \in Click, c \in Customer : Approve(k, c) \/ PressRetry(k, c)
  \/ \E i \in 1..Len(msgs) :
       \/ \E incoming \in Reported, scope \in Failure :
            Report(i, incoming, scope)
       \/ WindowOver(i)
  \/ \E r \in Retrier : LookUp(r) \/ Killed(r)

Steps ==
  \/ \E r \in Retrier : Claim(r) \/ Skip(r) \/ Check(r) \/ SendAgain(r)
  \/ \E k \in Click : DeskSends(k)
  \/ \E i \in 1..Len(msgs) : BecomesDue(i)

Next == Inputs \/ Steps

Spec == Init /\ [][Next]_vars
-------------------------------------------------------------------------------
(* Properties *)

\* "Two orchestrators never resend the same row": a row is sent again by one of them,
\* and once, however late its reports come, whoever is killed and whatever the website
\* and the operator send in between.  What those two send is outside of it: attempt 1
\* goes out with every resubmission, and two clicks on Retry send the same attempt.
ResentOnce ==
  \A i, j \in 1..Len(msgs) :
    (i # j /\ msgs[i].of # 0 /\ msgs[i].of = msgs[j].of) => msgs[i].kind # msgs[j].kind

\* "While the most recent outcome on our sender is an account failure, the retrier
\* sends one probe at a time, never a burst into a broken account": two messages that
\* retriers sent into a broken account are out together only if two retriers worked at
\* the same time, or one of them had claimed its rows before the account broke.
OneProbe ==
  met = {} =>
    Cardinality({i \in 1..Len(msgs) : Outstanding(msgs[i]) /\ msgs[i].probe}) <= 1
===============================================================================
