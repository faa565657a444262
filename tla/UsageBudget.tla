------------------------------ MODULE UsageBudget ------------------------------
(***************************************************************************)
(* What a message of a member may cost: the gates of the router before an  *)
(* agent turn, and the month's counter behind them (whatsapp/router.ts,    *)
(* resilience/, db/usage.ts, shared/cost).  The messages of one member are *)
(* handled one after the other, those of two members at the same time; all *)
(* of a business share its bucket and its counter.                         *)
(*                                                                         *)
(* Team commands are answered before any of this.  The bucket is in memory *)
(* and full again after a restart.  Every call says for itself which month *)
(* it is.                                                                  *)
(***************************************************************************)
EXTENDS Integers, FiniteSets, FiniteSetsExt, Functions

CONSTANTS
  Member,
  Cap,          \* PLAN_BUDGET_PAISA
  Cost,         \* what a turn may cost
  Burst,        \* capacity of the bucket
  Months,       \* bound: months
  MaxInputs     \* bound: messages, refills, changes of plan or month, restarts

VARIABLES
  month,
  plan,      \* the subscription's plan, or "none"
  counter,   \* usage_counters, by month
  bucket,
  hand,      \* the message of each member that is being handled
  approved,  \* members whose yes is recorded
  inputs,    \* so far
  nudged,    \* notes sent, by the month they are for
  spent,     \* history: paisa the turns cost
  lost       \* history: of these, paisa no counter has

vars == <<month, plan, counter, bucket, hand, approved, inputs, nudged, spent, lost>>
-------------------------------------------------------------------------------
Month == 1..Months
Tier == DOMAIN Cap
Text == {"voice", "secret", "yes", "thanks", "photo with thanks", "sale"}
Counter == [row: BOOLEAN, turns: Nat, cost: Nat, warned: BOOLEAN]
NoCounter == [row |-> FALSE, turns |-> 0, cost |-> 0, warned |-> FALSE]
Stage == {"idle", "block", "approve", "thank", "count", "plan", "usage", "latch", "session",
          "turn", "record", "note"}
Idle == [at |-> "idle", text |-> "sale", plan |-> "none", cost |-> 0, note |-> 0]

TypeOK ==
  /\ month \in Month /\ plan \in Tier \cup {"none"}
  /\ counter \in [Month -> Counter]
  /\ bucket \in 0..Burst
  /\ hand \in [Member -> [at: Stage, text: Text, plan: Tier \cup {"none"},
                          cost: Cost \cup {0}, note: 0..Months]]
  /\ approved \subseteq Member
  /\ inputs \in Nat
  /\ nudged \in [Month -> Nat]
  /\ {spent, lost} \subseteq Nat

\* There may have been messages already, and a turn.
Init ==
  /\ month = 1 /\ plan \in Tier \cup {"none"}
  /\ \E first \in {NoCounter} \cup {[NoCounter EXCEPT !.row = TRUE, !.turns = 1, !.cost = c] : c \in Cost} :
       /\ counter = [k \in Month |-> IF k = 1 THEN first ELSE NoCounter]
       /\ spent = first.cost
  /\ bucket \in {1, Burst}
  /\ hand = [m \in Member |-> Idle]
  /\ approved = {} /\ inputs = 0
  /\ nudged = [k \in Month |-> 0]
  /\ lost = 0
-------------------------------------------------------------------------------
(* Pure rules *)

\* An unknown plan, or none, has the strictest budget.
CapOf(p) == IF p \in Tier THEN Cap[p] ELSE Cap["starter"]

\* Mutant: a budget that is used up is not over it.
VerdictMutant(p, cost) ==
  IF cost > CapOf(p) THEN "THROTTLE" ELSE IF 5 * cost >= 4 * CapOf(p) THEN "WARN" ELSE "OK"

\* projectBudget.
Verdict(p, cost) ==
  IF cost >= CapOf(p) THEN "THROTTLE" ELSE IF 5 * cost >= 4 * CapOf(p) THEN "WARN" ELSE "OK"

\* classifyOwnerApproval, and a text of nothing but thanks and greetings.
Approves(x) == x = "yes"
Pleasant(x) == x \in {"yes", "thanks", "photo with thanks"}
HasMedia(x) == x = "photo with thanks"

\* Mutant: a yes is a pleasantry.
AnsweredLocallyMutant(x) == Pleasant(x) /\ ~HasMedia(x)

\* routeTurn: answers and media always reach the agent.
AnsweredLocally(x) == Pleasant(x) /\ ~Approves(x) /\ ~HasMedia(x)
-------------------------------------------------------------------------------
Input == inputs < MaxInputs /\ inputs' = inputs + 1

Goto(m, stage) == hand' = [hand EXCEPT ![m].at = stage]
Done(m) == hand' = [hand EXCEPT ![m] = Idle]

\* The gate after approval, up to the next call.
Routed(m, x) == IF AnsweredLocally(x) THEN "thank" ELSE "plan"

Receive(m, x) ==
  /\ hand[m].at = "idle"
  /\ Input
  /\ IF bucket = 0 \/ x = "voice"
       THEN UNCHANGED hand
       ELSE hand' = [hand EXCEPT ![m].text = x,
                                 ![m].at = IF x = "secret" THEN "block"
                                           ELSE IF Approves(x) THEN "approve" ELSE Routed(m, x)]
  /\ bucket' = IF bucket = 0 THEN 0 ELSE bucket - 1
  /\ UNCHANGED <<month, plan, counter, approved, nudged, spent, lost>>

\* The refusal is on the audit log; the message goes no further.
Block(m) ==
  /\ hand[m].at = "block" /\ Done(m)
  /\ UNCHANGED <<month, plan, counter, bucket, approved, inputs, nudged, spent, lost>>

\* recordOwnerApproval, of a member whose role may confirm.
Approve(m) ==
  /\ hand[m].at = "approve"
  /\ approved' = approved \cup {m}
  /\ Goto(m, Routed(m, hand[m].text))
  /\ UNCHANGED <<month, plan, counter, bucket, inputs, nudged, spent, lost>>

Thank(m) ==
  /\ hand[m].at = "thank" /\ Goto(m, "count")
  /\ UNCHANGED <<month, plan, counter, bucket, approved, inputs, nudged, spent, lost>>

\* Mutant: the upsert sets the cost of the row instead of adding to it.
AddedMutant(row, m) == [row EXCEPT !.row = TRUE, !.turns = @ + 1, !.cost = hand[m].cost]

\* The upsert adds to whatever the row holds.
Added(row, m) == [row EXCEPT !.row = TRUE, !.turns = @ + 1, !.cost = @ + hand[m].cost]

CountThanks(m) ==
  /\ hand[m].at = "count"
  /\ counter' = [counter EXCEPT ![month] = Added(@, m)]
  /\ Done(m)
  /\ UNCHANGED <<month, plan, bucket, approved, inputs, nudged, spent, lost>>

\* checkBudget reads the plan, then the counter.
ReadPlan(m) ==
  /\ hand[m].at = "plan"
  /\ hand' = [hand EXCEPT ![m].at = "usage", ![m].plan = plan]
  /\ UNCHANGED <<month, plan, counter, bucket, approved, inputs, nudged, spent, lost>>

ReadUsage(m) ==
  LET cost == counter[month].cost IN
  /\ hand[m].at = "usage"
  /\ hand' = [hand EXCEPT ![m] =
       CASE Verdict(@.plan, cost) = "THROTTLE" -> Idle
         [] Verdict(@.plan, cost) = "WARN"     -> [@ EXCEPT !.at = "latch"]
         [] Verdict(@.plan, cost) = "OK"       -> [@ EXCEPT !.at = "session"]]
  /\ UNCHANGED <<month, plan, counter, bucket, approved, inputs, nudged, spent, lost>>

\* Mutant: the update does not ask whether the row is marked already.
UnwarnedMutant(row) == row.row

\* markWarned: only a row that is there and not marked.
Unwarned(row) == row.row /\ ~row.warned

Latch(m) ==
  /\ hand[m].at = "latch"
  /\ IF Unwarned(counter[month])
       THEN /\ counter' = [counter EXCEPT ![month].warned = TRUE]
            /\ hand' = [hand EXCEPT ![m].at = "session", ![m].note = month]
       ELSE Goto(m, "session") /\ UNCHANGED counter
  /\ UNCHANGED <<month, plan, bucket, approved, inputs, nudged, spent, lost>>

\* The session or the media cannot be had: the message ends here, and with it the note.
OpenSession(m) ==
  /\ hand[m].at = "session"
  /\ Goto(m, "turn") \/ Done(m)
  /\ UNCHANGED <<month, plan, counter, bucket, approved, inputs, nudged, spent, lost>>

EndTurn(m, c) ==
  /\ hand[m].at = "turn"
  /\ hand' = [hand EXCEPT ![m].at = "record", ![m].cost = c]
  /\ spent' = spent + c
  /\ UNCHANGED <<month, plan, counter, bucket, approved, inputs, nudged, lost>>

AfterRecord(m) == IF hand[m].note = 0 THEN Done(m) ELSE Goto(m, "note")

Record(m) ==
  /\ hand[m].at = "record" /\ AfterRecord(m)
  /\ counter' = [counter EXCEPT ![month] = Added(@, m)]
  /\ UNCHANGED <<month, plan, bucket, approved, inputs, nudged, spent, lost>>

\* "Accounting failures must never break the chat."
RecordFails(m) ==
  /\ hand[m].at = "record" /\ AfterRecord(m)
  /\ lost' = lost + hand[m].cost
  /\ UNCHANGED <<month, plan, counter, bucket, approved, inputs, nudged, spent>>

SendNote(m) ==
  /\ hand[m].at = "note" /\ Done(m)
  /\ nudged' = [nudged EXCEPT ![hand[m].note] = @ + 1]
  /\ UNCHANGED <<month, plan, counter, bucket, approved, inputs, spent, lost>>
-------------------------------------------------------------------------------
Refill ==
  /\ Input
  /\ bucket < Burst /\ bucket' = bucket + 1
  /\ UNCHANGED <<month, plan, counter, hand, approved, nudged, spent, lost>>

NextMonth ==
  /\ Input
  /\ month < Months /\ month' = month + 1
  /\ UNCHANGED <<plan, counter, bucket, hand, approved, nudged, spent, lost>>

ChangePlan(p) ==
  /\ Input
  /\ p # plan /\ plan' = p
  /\ UNCHANGED <<month, counter, bucket, hand, approved, nudged, spent, lost>>

\* What the turn of each member cost that is over and not recorded.
Owed == [m \in Member |-> IF hand[m].at = "record" THEN hand[m].cost ELSE 0]

\* The process is killed: what a turn cost by then is on no counter.
Restart ==
  /\ Input
  /\ \E m \in Member : hand[m].at # "idle"
  /\ hand' = [m \in Member |-> Idle] /\ bucket' = Burst
  /\ lost' = lost + SumFunction(Owed)
  /\ UNCHANGED <<month, plan, counter, approved, nudged, spent>>

Handle(m) ==
  \/ \E x \in Text : Receive(m, x)
  \/ Block(m) \/ Approve(m) \/ Thank(m) \/ CountThanks(m)
  \/ ReadPlan(m) \/ ReadUsage(m) \/ Latch(m) \/ OpenSession(m)
  \/ \E c \in Cost : EndTurn(m, c)
  \/ Record(m) \/ RecordFails(m) \/ SendNote(m)

Next ==
  \/ \E m \in Member : Handle(m)
  \/ Refill \/ NextMonth \/ Restart
  \/ \E p \in Tier : ChangePlan(p)

Spec == Init /\ [][Next]_vars
-------------------------------------------------------------------------------
(* Properties *)

\* "So the owner is nudged at most once per period": whoever latched the warning sends it.
NudgedOnce == \A k \in Month : nudged[k] <= 1 /\ (nudged[k] = 1 => counter[k].warned)

\* The counters hold what the turns cost, less what could not be recorded: two members'
\* turns that end together are both counted.
CountersAddUp ==
  SumFunction([k \in Month |-> counter[k].cost]) + lost + SumFunction(Owed) = spent

\* The gate looks before the turn and the cost is known after it, so a month can go over
\* its budget, but by no more than the turns that were under way when it was used up.
OverspendBounded ==
  \A k \in Month :
    counter[k].cost < Max({Cap[p] : p \in Tier}) + Cardinality(Member) * Max(Cost)

\* "Answers are never trivial": a recorded yes is on its way to the agent or was stopped
\* by the budget, never thanked for.
AnswersReachAgent ==
  \A m \in Member : hand[m].at \in {"thank", "count"} => ~Approves(hand[m].text)
===============================================================================
