----------------------------- MODULE TallyAnswers -----------------------------
(***************************************************************************)
(* What the Tally bridge promises, without its queue, its polling and its  *)
(* tokens: a question becomes one job for one connector, the job is closed *)
(* once and for good, and what the owner is told is the result of a job    *)
(* for the company he asked about, from the connector it was sent to.      *)
(***************************************************************************)
CONSTANTS Job, Connector, Scope   \* Scope: what a question is about, a company or the company list

VARIABLES
  job,   \* each job's state, connector and scope
  told   \* what owners were told: the scope asked, the job that answered

vars == <<job, told>>

State == {"unused", "open", "done", "failed", "expired"}
AJob == [state: State, connector: Connector, scope: Scope]

TypeOK ==
  /\ job \in [Job -> AJob]
  /\ told \subseteq [asked: Scope, job: Job]

Init ==
  /\ job \in [Job -> {j \in AJob : j.state = "unused"}]
  /\ told = {}

Open(j, k, c) ==
  /\ job[j].state = "unused"
  /\ job' = [job EXCEPT ![j] = [state |-> "open", connector |-> k, scope |-> c]]
  /\ UNCHANGED told

Close(j, s) ==
  /\ job[j].state = "open" /\ s \in {"done", "failed", "expired"}
  /\ job' = [job EXCEPT ![j].state = s]
  /\ UNCHANGED told

Tell(j) ==
  /\ job[j].state = "done"
  /\ told' = told \cup {[asked |-> job[j].scope, job |-> j]}
  /\ UNCHANGED job

Next ==
  \E j \in Job :
    \/ \E k \in Connector, c \in Scope : Open(j, k, c)
    \/ \E s \in State : Close(j, s)
    \/ Tell(j)

Spec == Init /\ [][Next]_vars
===============================================================================
