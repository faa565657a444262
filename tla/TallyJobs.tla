------------------------------- MODULE TallyJobs -------------------------------
(***************************************************************************)
(* The read-only TallyPrime bridge (packages/mcp-tally, tally-connector).  *)
(*                                                                         *)
(* A tool call picks the tenant's newest active connector, queues a job    *)
(* for it and polls the row until its deadline.  The connector, a program  *)
(* on the customer's computer, claims its oldest queued job, asks Tally    *)
(* and posts the result.  The owner links a computer with a setup code,    *)
(* which is exchanged once for a device token.  One tenant: every row is   *)
(* bound to its tenant.                                                    *)
(*                                                                         *)
(* Each SQL statement is a step.  tally_connect is one transaction of two  *)
(* statements, and a concurrent one does not see its uncommitted insert.   *)
(* The clock is left out: a code may expire, a connector go stale and a    *)
(* call reach its deadline at any time.                                    *)
(***************************************************************************)
EXTENDS Naturals, FiniteSets

CONSTANTS
  MaxConnectors,  \* bound: tally_connectors rows, numbered by created_at
  MaxJobs,        \* bound: tally_jobs rows, numbered by created_at
  Company, NoCompany,  \* NoCompany is none of them
  Setup,          \* tally_connect calls that may overlap
  Tool,           \* tool calls that may overlap
  Worker,         \* installations of the connector program
  Simulated,      \* those of them that run the simulator
  Production      \* is this server production?

VARIABLES
  connectors,  \* tally_connectors
  issued,      \* how many of them have been given a created_at
  setup,       \* where each tally_connect stands
  catalog,     \* tally_companies: who reported which company
  bound,       \* the company marked is_bound
  jobs,        \* tally_jobs
  tool,        \* where each tool call stands and what it holds
  worker,      \* each installation's token and the job it has in hand
  told         \* the answers given as verified

linkVars == <<connectors, issued, setup>>
companyVars == <<catalog, bound>>
vars == <<connectors, issued, setup, catalog, bound, jobs, tool, worker, told>>
-------------------------------------------------------------------------------
Connector == 1..MaxConnectors
Job == 1..MaxJobs
Scope == Company \cup {NoCompany}    \* NoCompany: list_companies

\* live: the row has a setup code that has not expired; fresh: seen within the bound
ConnectorRow == [status: {"absent", "pending", "active", "revoked"},
                 live: BOOLEAN, fresh: BOOLEAN]

\* What a connector answered: for which scope, through which row, from a simulator?
Result == [company: Scope, by: Connector \cup {0}, simulator: BOOLEAN]
JobStatus == {"absent", "queued", "running", "done", "failed", "expired"}
JobRow == [status: JobStatus, connector: Connector, company: Scope, result: Result]

ToolState == {"idle", "dispatch", "queue", "wait", "expire"}
Call == [pc: ToolState, company: Scope, connector: Connector, job: Job \cup {0}]

NoConnector == [status |-> "absent", live |-> FALSE, fresh |-> FALSE]
NoResult == [company |-> NoCompany, by |-> 0, simulator |-> FALSE]
NoJob == [status |-> "absent", connector |-> 1, company |-> NoCompany, result |-> NoResult]
NoCall == [pc |-> "idle", company |-> NoCompany, connector |-> 1, job |-> 0]
NoSetup == [row |-> 0, seen |-> {}]

TypeOK ==
  /\ connectors \in [Connector -> ConnectorRow]
  /\ issued \in 0..MaxConnectors
  /\ setup \in [Setup -> [row: 0..MaxConnectors, seen: SUBSET Connector]]
  /\ catalog \subseteq [connector: Connector, company: Company]
  /\ bound \in Scope
  /\ jobs \in [Job -> JobRow]
  /\ tool \in [Tool -> Call]
  /\ worker \in [Worker -> [connector: 0..MaxConnectors, job: 0..MaxJobs]]
  /\ told \subseteq [asked: Scope, job: Job]

Init ==
  /\ connectors = [k \in Connector |-> NoConnector]
  /\ issued = 0
  /\ setup = [o \in Setup |-> NoSetup]
  /\ catalog = {}
  /\ bound = NoCompany
  /\ jobs = [j \in Job |-> NoJob]
  /\ tool = [t \in Tool |-> NoCall]
  /\ worker = [w \in Worker |-> [connector |-> 0, job |-> 0]]
  /\ told = {}
-------------------------------------------------------------------------------
(* Linking a computer *)

\* Operators named ...Mutant are wrong versions of the definition after them,
\* kept to show that a property notices the change; the model does not use them.

Pending == {k \in Connector : connectors[k].status = "pending"}

\* tally_connect, first statement: the pending rows it can see.  created_at is the
\* time the transaction started.
RevokePending(o) ==
  /\ setup[o] = NoSetup /\ issued < MaxConnectors
  /\ issued' = issued + 1
  /\ setup' = [setup EXCEPT ![o] = [row |-> issued + 1, seen |-> Pending]]
  /\ UNCHANGED <<connectors, companyVars, jobs, tool, worker, told>>

\* Mutant: the rows read as pending are revoked, whatever became of them.
SupersededMutant(o) == setup[o].seen

\* Rows seen pending and still pending: the UPDATE re-reads a row it waited for.
Superseded(o) == setup[o].seen \cap Pending

Revoked(row) == [row EXCEPT !.status = "revoked", !.live = FALSE]

\* Second statement and commit: one fresh pending row carries the new code.
IssueCode(o) ==
  /\ setup[o] # NoSetup
  /\ connectors' = [k \in Connector |->
       IF k = setup[o].row THEN [status |-> "pending", live |-> TRUE, fresh |-> FALSE]
       ELSE IF k \in Superseded(o) THEN Revoked(connectors[k])
       ELSE connectors[k]]
  /\ setup' = [setup EXCEPT ![o] = NoSetup]
  /\ UNCHANGED <<issued, companyVars, jobs, tool, worker, told>>

\* The code is consumed, the row becomes active and counts as seen.
Exchanged(row) == [row EXCEPT !.status = "active", !.live = FALSE, !.fresh = TRUE]

\* registerConnector: one UPDATE, then the program saves its token, or dies before.
Register(w, k, saved) ==
  /\ worker[w].connector = 0
  /\ connectors[k].status = "pending" /\ connectors[k].live
  /\ connectors' = [connectors EXCEPT ![k] = Exchanged(@)]
  /\ worker' = [worker EXCEPT ![w].connector = IF saved THEN k ELSE 0]
  /\ UNCHANGED <<issued, setup, companyVars, jobs, tool, told>>

\* The owner deletes connector.config.json to link the computer again.
Forget(w) ==
  /\ worker[w].connector # 0
  /\ worker' = [worker EXCEPT ![w] = [connector |-> 0, job |-> 0]]
  /\ UNCHANGED <<linkVars, companyVars, jobs, tool, told>>

\* He copies the program with its config to a second computer.
Copy(w, v) ==
  /\ worker[w].connector # 0 /\ worker[v].connector = 0
  /\ worker' = [worker EXCEPT ![v].connector = worker[w].connector]
  /\ UNCHANGED <<linkVars, companyVars, jobs, tool, told>>

ExpireCode(k) ==
  /\ connectors[k].live
  /\ connectors' = [connectors EXCEPT ![k].live = FALSE]
  /\ UNCHANGED <<issued, setup, companyVars, jobs, tool, worker, told>>

GoStale(k) ==
  /\ connectors[k].fresh
  /\ connectors' = [connectors EXCEPT ![k].fresh = FALSE]
  /\ UNCHANGED <<issued, setup, companyVars, jobs, tool, worker, told>>
-------------------------------------------------------------------------------
(* Tool calls: dispatchToConnector *)

toolRest == <<linkVars, catalog, bound, worker>>

Goto(t, from, to) == tool[t].pc = from /\ tool' = [tool EXCEPT ![t].pc = to]

Return(t, from) == tool[t].pc = from /\ tool' = [tool EXCEPT ![t] = NoCall]

Unused == {j \in Job : jobs[j].status = "absent"}

\* A question about the bound company, or the list of companies; bounded by the rows
\* left for the calls under way.
Ask(t) ==
  /\ tool[t].pc = "idle"
  /\ Cardinality({u \in Tool : tool[u].pc # "idle"}) < Cardinality(Unused)
  /\ \E c \in {bound, NoCompany} :
       tool' = [tool EXCEPT ![t] = [NoCall EXCEPT !.pc = "dispatch", !.company = c]]
  /\ UNCHANGED <<toolRest, jobs, told>>

Active == {k \in Connector : connectors[k].status = "active"}

\* getActiveConnector: the newest wins
Newest(k) == k \in Active /\ \A other \in Active : other <= k

PickConnector(t) ==
  /\ tool[t].pc = "dispatch"
  /\ \E k \in Connector :
       /\ Newest(k) /\ connectors[k].fresh
       /\ tool' = [tool EXCEPT ![t].pc = "queue", ![t].connector = k]
  /\ UNCHANGED <<toolRest, jobs, told>>

\* Mutant: only a tenant without a connector is told at once.
NoLinkMutant == Active = {}

NoLink == \A k \in Connector : Newest(k) => ~connectors[k].fresh

Unavailable(t) ==
  /\ Return(t, "dispatch")
  /\ NoLink
  /\ UNCHANGED <<toolRest, jobs, told>>

Enqueue(t) ==
  /\ tool[t].pc = "queue"
  /\ \E j \in Job :
       /\ Unused = j..MaxJobs
       /\ jobs' = [jobs EXCEPT ![j] = [NoJob EXCEPT !.status = "queued",
                     !.connector = tool[t].connector, !.company = tool[t].company]]
       /\ tool' = [tool EXCEPT ![t].pc = "wait", ![t].job = j]
  /\ UNCHANGED <<toolRest, told>>

Row(t) == jobs[tool[t].job]

\* Mutant: the simulator's figures are accepted everywhere.
TrustedMutant(r) == r.by # 0

Trusted(r) == ~(r.simulator /\ Production)

\* wrongCompany and the simulator check come between the row and the owner.
Verified(t) == Row(t).result.company = tool[t].company /\ Trusted(Row(t).result)

\* tally_list_companies refreshes the catalog with what the connector reported.
AnswerOk(t) ==
  /\ Return(t, "wait")
  /\ Row(t).status = "done" /\ Verified(t)
  /\ told' = told \cup {[asked |-> tool[t].company, job |-> tool[t].job]}
  /\ \E c \in Company :
       catalog' = IF tool[t].company = NoCompany
                    THEN catalog \cup {[connector |-> tool[t].connector, company |-> c]}
                    ELSE catalog
  /\ UNCHANGED <<linkVars, bound, jobs, worker>>

\* A verified answer may still be refused: its figures do not add up.
AnswerFailed(t) ==
  /\ Return(t, "wait")
  /\ Row(t).status \in {"done", "failed", "expired"}
  /\ UNCHANGED <<toolRest, jobs, told>>

\* The deadline has passed: the row is not read again.
Deadline(t) ==
  /\ Goto(t, "wait", "expire")
  /\ UNCHANGED <<toolRest, jobs, told>>

\* Mutant: whatever the row says, it is expired.
ExpirableMutant(row) == row.status # "absent"

Expirable(row) == row.status \in {"queued", "running"}

\* AnswerTimeout: the UPDATE may also fail, which is ignored.
AnswerTimeout(t, updated) ==
  /\ Return(t, "expire")
  /\ jobs' = IF updated /\ Expirable(Row(t))
               THEN [jobs EXCEPT ![tool[t].job].status = "expired"]
               ELSE jobs
  /\ UNCHANGED <<toolRest, told>>

\* The server process dies with the call in flight.
ToolDies(t) ==
  /\ tool[t].pc # "idle" /\ Return(t, tool[t].pc)
  /\ UNCHANGED <<toolRest, jobs, told>>

\* tally_bind_company: only a company of the catalog
Bind(c) ==
  /\ \E e \in catalog : e.company = c
  /\ bound' = c
  /\ UNCHANGED <<linkVars, catalog, jobs, tool, worker, told>>
-------------------------------------------------------------------------------
(* The connector: claim, ask Tally, post *)

workerRest == <<issued, setup, catalog, bound, tool, told>>

\* authConnector: only an active row's token is accepted, and the call is a heartbeat
Heartbeat(w) ==
  /\ worker[w].connector \in Active
  /\ connectors' = [connectors EXCEPT ![worker[w].connector].fresh = TRUE]

\* Mutant: a job that another claim is running is claimed again.
QueuedForMutant(k) == {j \in Job : jobs[j].status \in {"queued", "running"} /\ jobs[j].connector = k}

QueuedFor(k) == {j \in Job : jobs[j].status = "queued" /\ jobs[j].connector = k}

Oldest(j, S) == j \in S /\ \A i \in S : j <= i

\* One UPDATE with SKIP LOCKED.  A long poll whose client has gone also claims: that
\* is this step followed by LoseJob.
Claim(w) ==
  /\ worker[w].job = 0 /\ Heartbeat(w)
  /\ \E j \in Job :
       /\ Oldest(j, QueuedFor(worker[w].connector))
       /\ jobs' = [jobs EXCEPT ![j].status = "running"]
       /\ worker' = [worker EXCEPT ![w].job = j]
  /\ UNCHANGED workerRest

NothingToDo(w) ==
  /\ worker[w].job = 0 /\ Heartbeat(w)
  /\ QueuedFor(worker[w].connector) = {}
  /\ UNCHANGED <<workerRest, jobs, worker>>

\* postResult: a job it owns and that is still running
Accepts(k, j) == jobs[j].connector = k /\ jobs[j].status = "running"

\* Mutant: what does not parse is stored all the same.
ParsesMutant(outcome) == outcome \in {"done", "failed", "refused"}

Parses(outcome) == outcome \in {"done", "failed"}

\* executeOperation and postResult.  Tally answers for the company of the job or the
\* operation fails; an envelope that does not parse is refused and changes nothing.
Post(w, outcome) ==
  LET j == worker[w].job
      k == worker[w].connector
      answer == [company |-> jobs[j].company, by |-> k, simulator |-> w \in Simulated] IN
  /\ j # 0 /\ Heartbeat(w)
  /\ outcome \in {"done", "failed", "refused"}
  /\ jobs' = IF Parses(outcome) /\ Accepts(k, j)
               THEN [jobs EXCEPT ![j].status = outcome, ![j].result = answer]
               ELSE jobs
  /\ worker' = [worker EXCEPT ![w].job = 0]
  /\ UNCHANGED workerRest

\* The program or its computer dies, or the post never arrives: the job is dropped.
LoseJob(w) ==
  /\ worker[w].job # 0
  /\ worker' = [worker EXCEPT ![w].job = 0]
  /\ UNCHANGED <<linkVars, catalog, bound, jobs, tool, told>>
-------------------------------------------------------------------------------
Link ==
  \/ \E o \in Setup : RevokePending(o) \/ IssueCode(o)
  \/ \E k \in Connector : ExpireCode(k) \/ GoStale(k)
  \/ \E w \in Worker :
       \/ Forget(w) \/ \E v \in Worker : Copy(w, v)
       \/ \E k \in Connector, b \in BOOLEAN : Register(w, k, b)

Answer(t) ==
  \/ AnswerOk(t) \/ AnswerFailed(t) \/ Deadline(t) \/ \E b \in BOOLEAN : AnswerTimeout(t, b)

Dispatch(t) == PickConnector(t) \/ Unavailable(t) \/ Enqueue(t) \/ Answer(t)

Work(w) ==
  \/ Claim(w) \/ NothingToDo(w) \/ LoseJob(w)
  \/ \E outcome \in JobStatus \cup {"refused"} : Post(w, outcome)

Next ==
  \/ Link
  \/ \E t \in Tool : Ask(t) \/ Dispatch(t) \/ ToolDies(t)
  \/ \E c \in Company : Bind(c)
  \/ \E w \in Worker : Work(w)

Spec == Init /\ [][Next]_vars

\* The server runs a call it has accepted, and its deadline passes.
FairSpec == Spec /\ \A t \in Tool : WF_vars(Dispatch(t))
-------------------------------------------------------------------------------
(* Properties *)

\* A figure is told only from the job's own connector, for the company asked, and
\* never from the simulator in production.
ToldFromOwnConnector ==
  \A a \in told :
    /\ jobs[a.job].status = "done"
    /\ jobs[a.job].result.company = a.asked
    /\ jobs[a.job].result.by = jobs[a.job].connector
    /\ ~(Production /\ jobs[a.job].result.simulator)

\* No job is in two hands: no restart, copy or second installation of the program
\* runs a job that another one is running.
OneHandPerJob ==
  \A w1, w2 \in Worker :
    w1 # w2 /\ worker[w1].job # 0 => worker[w1].job # worker[w2].job

\* A setup code is good for one token, and setting up again does not kill a working
\* link: the row of a token in use is active and its code cannot be exchanged again,
\* also when it registers while a tally_connect is under way.
TokenKillsCode ==
  \A w \in Worker :
    LET k == worker[w].connector IN
    k # 0 => connectors[k].status = "active" /\ ~connectors[k].live

\* A call ends, whatever becomes of the connector.
EveryCallEnds == \A t \in Tool : tool[t].pc # "idle" ~> tool[t].pc = "idle"

\* The bridge does what the abstract one promises: queue, claims and polls are detail,
\* a closed job is closed for good ("a late connector result is inert").
AbstractState(s) == CASE s = "absent"              -> "unused"
                      [] s \in {"queued", "running"} -> "open"
                      [] OTHER                       -> s

Abstract == INSTANCE TallyAnswers WITH
  job <- [j \in Job |-> [state |-> AbstractState(jobs[j].status),
                         connector |-> jobs[j].connector, scope |-> jobs[j].company]]

ImplementsAnswers == Abstract!Spec
===============================================================================
