------------------------------- MODULE LabWorker -------------------------------
(***************************************************************************)
(* The durable worker of the Rehearsal Lab (agents-learning/src/runner).   *)
(*                                                                         *)
(* A worker claims an episode, which bumps the episode's lease token, and  *)
(* plays it: ask the agent, write the decision ahead, execute it, commit   *)
(* its events with a checkpoint.  Every write asks for the token of its    *)
(* claim.  A lease that is not renewed runs out and the episode may be     *)
(* claimed again, by a worker that resumes from the checkpoint, while the  *)
(* first one may still be running.                                         *)
(*                                                                         *)
(* Each statement is a step, and so is a commit: the fence locks the row.  *)
(* The clock is left out: a lease may run out at any time.  One run.       *)
(***************************************************************************)
EXTENDS Naturals, Sequences

CONSTANTS
  Worker,
  Episode,       \* the episodes of the run
  Choice,        \* decisions the agent may take
  NoChoice,
  Batches,       \* batches of events of an episode: the reset, then its steps
  MaxAttempts,   \* MAX_ATTEMPTS
  MaxToken,      \* bound: nothing fails and no lease runs out from this token on,
  Fragile        \* nor ever for an episode outside this set

ASSUME CountAssumption == Batches \in Nat \ {0} /\ {MaxAttempts, MaxToken} \subseteq Nat
ASSUME ChoiceAssumption == NoChoice \notin Choice
ASSUME FragileAssumption == Fragile \subseteq Episode
\* A run of no episodes leaves a worker nothing to claim.
ASSUME RunAssumption == Episode # {}

VARIABLES
  episodes,   \* rehearsal.episodes
  events,     \* rehearsal.events of each episode, by batch
  runStatus,  \* rehearsal.runs.status
  pc,         \* where each worker stands
  held        \* what it holds: its claim and its copy of the episode's progress

vars == <<episodes, events, runStatus, pc, held>>
-------------------------------------------------------------------------------
Decision == Choice \cup {NoChoice}

\* done: batches in the checkpoint, 0 without one; pending: decided, not executed
Checkpoint == [done: 0..Batches, pending: Decision, intact: BOOLEAN]
EpisodeRow ==
  [status: {"queued", "running", "completed", "quarantined"}, attempt: Nat, token: Nat,
   leased: BOOLEAN, checkpoint: Checkpoint]

Event == [choice: Decision, attempt: Nat]

WorkerState ==
  {"idle", "giveup", "load", "reset", "act", "log", "execute", "complete", "finalize", "error"}

\* A claim, and the copy of the checkpoint that came with it and is played on.
Held == [episode: Episode, token: Nat, attempt: Nat, checkpoint: Checkpoint]

TypeOK ==
  /\ episodes \in [Episode -> EpisodeRow]
  /\ events \in [Episode -> Seq(Event)]
  /\ runStatus \in {"queued", "completed"}
  /\ pc \in [Worker -> WorkerState]
  /\ held \in [Worker -> Held]

NoCheckpoint == [done |-> 0, pending |-> NoChoice, intact |-> TRUE]
Queued == [status |-> "queued", attempt |-> 0, token |-> 0, leased |-> FALSE,
           checkpoint |-> NoCheckpoint]

Nothing == [episode |-> CHOOSE e \in Episode : TRUE, token |-> 0, attempt |-> 0,
            checkpoint |-> NoCheckpoint]

\* enqueueRun is one transaction
Init ==
  /\ episodes = [e \in Episode |-> Queued]
  /\ events = [e \in Episode |-> <<>>]
  /\ runStatus = "queued"
  /\ pc = [w \in Worker |-> "idle"]
  /\ held = [w \in Worker |-> Nothing]
-------------------------------------------------------------------------------
\* Operators named ...Mutant are wrong versions of the definition after them,
\* kept to show that a property notices the change; the model does not use them.

Mine(w) == held[w].episode

Goto(w, from, to) == pc[w] = from /\ pc' = [pc EXCEPT ![w] = to]

End(w, from) == Goto(w, from, "idle") /\ held' = [held EXCEPT ![w] = Nothing]

\* Mutant: that the episode runs is enough.
OwnsMutant(w) == episodes[Mine(w)].status = "running"

\* lease_token = mine
Owns(w) == episodes[Mine(w)].token = held[w].token

\* Mutant: an episode that was begun is never claimed again.
ClaimableMutant(row) == row.status = "queued"

Claimable(row) ==
  row.status = "queued" \/ (row.status = "running" /\ ~row.leased)

\* Mutant: the token stays.
ClaimedMutant(row) ==
  [row EXCEPT !.status = "running", !.leased = TRUE, !.attempt = @ + 1]

Claimed(row) ==
  [row EXCEPT !.status = "running", !.leased = TRUE, !.token = @ + 1, !.attempt = @ + 1]

Claim(w, e) ==
  LET row == Claimed(episodes[e]) IN
  /\ Claimable(episodes[e])
  /\ Goto(w, "idle", IF row.attempt > MaxAttempts THEN "giveup" ELSE "load")
  /\ episodes' = [episodes EXCEPT ![e] = row]
  /\ held' = [held EXCEPT ![w] =
       [episode |-> e, token |-> row.token, attempt |-> row.attempt,
        checkpoint |-> row.checkpoint]]
  /\ UNCHANGED <<events, runStatus>>

Quarantine(w) ==
  episodes' = IF Owns(w) THEN [episodes EXCEPT ![Mine(w)].status = "quarantined"] ELSE episodes

\* Attempts are used up: a person has to look.
GiveUp(w) ==
  /\ End(w, "giveup")
  /\ Quarantine(w)
  /\ UNCHANGED <<events, runStatus>>
-------------------------------------------------------------------------------
(* runClaimed: every write is fenced, and a worker that is not the owner stops *)

\* Mutant: a decision on record is not looked at.
FollowingMutant(checkpoint) ==
  IF checkpoint.done = 0 THEN "reset"
  ELSE IF checkpoint.done = Batches THEN "complete"
  ELSE "act"

\* What comes next for a worker whose copy of the checkpoint is this.
Following(checkpoint) ==
  IF checkpoint.done = 0 THEN "reset"
  ELSE IF checkpoint.pending # NoChoice THEN "execute"
  ELSE IF checkpoint.done = Batches THEN "complete"
  ELSE "act"

\* Mutant: a checkpoint is taken as it comes.
TrustworthyMutant(checkpoint) == TRUE

\* digest(checkpoint) = checkpoint_digest
Trustworthy(checkpoint) == checkpoint.intact

Restore(w) ==
  /\ Trustworthy(held[w].checkpoint)
  /\ Goto(w, "load", Following(held[w].checkpoint))
  /\ UNCHANGED <<episodes, events, runStatus, held>>

\* A damaged checkpoint is not resumed from.
Refuse(w) ==
  /\ ~Trustworthy(held[w].checkpoint)
  /\ Goto(w, "load", "error")
  /\ Quarantine(w)
  /\ UNCHANGED <<events, runStatus, held>>

\* One transaction: the batch of events, the checkpoint and a renewed lease.
Commit(w, from, batch, checkpoint) ==
  /\ Owns(w)
  /\ Goto(w, from, Following(checkpoint))
  /\ events' = [events EXCEPT ![Mine(w)] = @ \o batch]
  /\ episodes' = [episodes EXCEPT ![Mine(w)].checkpoint = [checkpoint EXCEPT !.intact = TRUE],
                               ![Mine(w)].leased = TRUE]
  /\ held' = [held EXCEPT ![w].checkpoint = checkpoint]
  /\ UNCHANGED runStatus

\* The batch that carries out a decision.
Batch(w, choice) == <<[choice |-> choice, attempt |-> held[w].attempt]>>

Reset(w) == Commit(w, "reset", Batch(w, NoChoice), [NoCheckpoint EXCEPT !.done = 1])

\* The agent answers; so far the decision is in the worker's memory.
Act(w, choice) ==
  /\ Goto(w, "act", "log")
  /\ held' = [held EXCEPT ![w].checkpoint.pending = choice]
  /\ UNCHANGED <<episodes, events, runStatus>>

\* Written ahead of its execution.
Log(w) == Commit(w, "log", <<>>, held[w].checkpoint)

\* Mutant: the executed decision stays on record.
ExecutedMutant(checkpoint) == [checkpoint EXCEPT !.done = @ + 1]

Executed(checkpoint) == [checkpoint EXCEPT !.done = @ + 1, !.pending = NoChoice]

Execute(w) ==
  Commit(w, "execute", Batch(w, held[w].checkpoint.pending), Executed(held[w].checkpoint))

Complete(w) ==
  /\ Owns(w)
  /\ Goto(w, "complete", "finalize")
  /\ episodes' = [episodes EXCEPT ![Mine(w)].status = "completed", ![Mine(w)].leased = FALSE]
  /\ UNCHANGED <<events, runStatus, held>>

LoseLease(w) ==
  /\ ~Owns(w)
  /\ \E from \in {"reset", "log", "execute", "complete"} : End(w, from)
  /\ UNCHANGED <<episodes, events, runStatus>>

\* Mutant: only what waits to be claimed counts.
OpenMutant(row) == row.status = "queued"

Open(row) == row.status \in {"queued", "running"}

\* The summary is written when no episode of the run is open.
Finalize(w) ==
  /\ End(w, "finalize")
  /\ runStatus' = IF \E e \in Episode : Open(episodes[e]) THEN runStatus ELSE "completed"
  /\ UNCHANGED <<episodes, events>>

\* workLoop's catch: an owner gives its lease back.
Release(w) ==
  /\ End(w, "error")
  /\ episodes' = IF Owns(w) /\ episodes[Mine(w)].status = "running"
                   THEN [episodes EXCEPT ![Mine(w)].leased = FALSE]
                   ELSE episodes
  /\ UNCHANGED <<events, runStatus>>
-------------------------------------------------------------------------------
(* Failures, within the bound *)

InBound(e, token) == e \in Fragile /\ token < MaxToken

\* The agent or the database fails.
Fail(w) ==
  /\ InBound(Mine(w), held[w].token)
  /\ \E from \in {"load", "reset", "act", "log", "execute", "complete", "finalize"} :
       Goto(w, from, "error")
  /\ UNCHANGED <<episodes, events, runStatus, held>>

\* kill -9: the lease stays as it is.
Crash(w) ==
  /\ InBound(Mine(w), held[w].token) /\ pc[w] # "idle"
  /\ End(w, pc[w])
  /\ UNCHANGED <<episodes, events, runStatus>>

\* Also under a worker that is only slow.
ExpireLease(e) ==
  /\ episodes[e].leased /\ episodes[e].status = "running" /\ InBound(e, episodes[e].token)
  /\ episodes' = [episodes EXCEPT ![e].leased = FALSE]
  /\ UNCHANGED <<events, runStatus, pc, held>>

\* A stored checkpoint comes to count its batches wrongly.
Corrupt(e, done) ==
  /\ e \in Fragile /\ episodes[e].checkpoint.intact
  /\ episodes[e].checkpoint.done \notin {0, done}
  /\ episodes' = [episodes EXCEPT ![e].checkpoint.done = done, ![e].checkpoint.intact = FALSE]
  /\ UNCHANGED <<events, runStatus, pc, held>>
-------------------------------------------------------------------------------
Work(w) ==
  \/ GiveUp(w) \/ Restore(w) \/ Refuse(w) \/ Reset(w) \/ \E c \in Choice : Act(w, c)
  \/ Log(w) \/ Execute(w) \/ Complete(w) \/ LoseLease(w) \/ Finalize(w) \/ Release(w)

Next ==
  \/ \E w \in Worker : Work(w) \/ Fail(w) \/ Crash(w) \/ \E e \in Episode : Claim(w, e)
  \/ \E e \in Episode : ExpireLease(e) \/ \E done \in 1..Batches : Corrupt(e, done)

Spec == Init /\ [][Next]_vars

\* Workers look for work in a loop and do not stop in the middle of it; a lease
\* that is not renewed runs out.  Nothing fails because it must.
Fairness ==
  /\ \A w \in Worker : WF_vars(Work(w)) /\ WF_vars(\E e \in Episode : Claim(w, e))
  /\ \A e \in Episode : WF_vars(ExpireLease(e))

FairSpec == Spec /\ Fairness
-------------------------------------------------------------------------------
\* Whoever resumes from an undamaged checkpoint carries on exactly where the
\* events end, with the decision that was taken for that place, whichever
\* workers wrote the two and wherever each was killed.
CheckpointTellsEvents ==
  \A e \in Episode : episodes[e].checkpoint.intact =>
    episodes[e].checkpoint.done = Len(events[e])

\* The summary of a run is never written while an episode may still change.
SummaryIsFinal ==
  runStatus = "completed" =>
    \A e \in Episode : episodes[e].status \in {"completed", "quarantined"}

\* The model is not asked, and paid, again for a decision that is on record:
\* an owner only asks when there is none.
NeverReasks ==
  [][\A w \in Worker : (pc[w] = "act" /\ pc'[w] = "log" /\ Owns(w)) =>
       episodes[Mine(w)].checkpoint.pending = NoChoice]_vars

\* An episode is one list of batches with one decision each, however many
\* workers played it, and its end is final.
Promise == INSTANCE LabEpisodes WITH
  status <- [e \in Episode |-> IF Open(episodes[e]) THEN "open" ELSE episodes[e].status],
  log <- [e \in Episode |-> [i \in 1..Len(events[e]) |-> events[e][i].choice]],
  decision <- [e \in Episode |-> episodes[e].checkpoint.pending]

ImplementsEpisodes == Promise!Spec

\* Every episode is completed, or given up for a person to look at.
EveryEpisodeEnds == \A e \in Episode : <>[](~Open(episodes[e]))

\* "When the last episode of a run finishes, write the run summary": it is not
\* when that episode is given up, or its worker dies before the summary.
LastEpisodeFinalises ==
  (\A e \in Episode : ~Open(episodes[e])) ~> (runStatus = "completed")
===============================================================================
