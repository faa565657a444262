-------------------------------- MODULE LabProofs --------------------------------
(***************************************************************************)
(* What holds of the Rehearsal Lab for any number of workers, episodes,    *)
(* batches, attempts, kills and lapsed leases.                             *)
(*                                                                         *)
(* The workers: a checkpoint that is not damaged tells where the events    *)
(* end, because only one worker holds the token an episode asks for, and   *)
(* its copy of the progress is the true one even when the stored one is    *)
(* damaged under it.  That is what the refinement of LabEpisodes needs.    *)
(*                                                                         *)
(* The review: what the form has read of a completed run stays so.         *)
(***************************************************************************)
EXTENDS LabMC, SequenceTheorems, FiniteSetTheorems, TLAPS

USE CountAssumption, ChoiceAssumption
-------------------------------------------------------------------------------
(* The invariant of the workers *)

Busy(w) == pc[w] # "idle"

Owner(w) == Busy(w) /\ Owns(w)

\* A token is given out once: who is busy with an episode holds one of its own.
TokensSound ==
  /\ \A w \in Worker : Busy(w) => held[w].token \in 1..episodes[Mine(w)].token
  /\ \A w, v \in Worker :
       Busy(w) /\ Busy(v) /\ Mine(w) = Mine(v) /\ held[w].token = held[v].token => w = v

\* A decision waits only for a batch between the reset and the last.
Sane(checkpoint) ==
  checkpoint.intact /\ checkpoint.pending # NoChoice => checkpoint.done \in 1..(Batches - 1)

\* Where a worker stands follows from its copy.
StageSound ==
  \A w \in Worker :
    /\ Sane(held[w].checkpoint)
    /\ pc[w] \in {"reset", "act", "execute", "complete"} =>
         held[w].checkpoint.intact /\ pc[w] = Following(held[w].checkpoint)
    /\ pc[w] = "log" =>
         /\ held[w].checkpoint.intact /\ held[w].checkpoint.pending # NoChoice
         /\ held[w].checkpoint.done \in 1..(Batches - 1)

\* The copy of the owner is the progress of the episode, also when the stored
\* checkpoint has been damaged meanwhile.
CopyTrue(w) ==
  LET c == held[w].checkpoint
      row == episodes[Mine(w)]
  IN /\ pc[w] \in {"giveup", "load", "reset", "act", "log", "execute", "complete"} => row.status = "running"
     /\ pc[w] = "load" /\ c.intact => c.done = Len(events[Mine(w)]) /\ c.pending = row.checkpoint.pending
     /\ pc[w] \in {"reset", "act", "log", "execute", "complete"} => c.done = Len(events[Mine(w)])
     /\ pc[w] \in {"reset", "act", "execute", "complete"} => c.pending = row.checkpoint.pending
     /\ pc[w] = "log" => row.checkpoint.pending = NoChoice

OwnersSound == \A w \in Worker : Owner(w) => CopyTrue(w)

RowsSound == \A e \in Episode : Sane(episodes[e].checkpoint)

WorkerInv ==
  /\ TypeOK /\ TokensSound /\ StageSound /\ OwnersSound /\ RowsSound
  /\ CheckpointTellsEvents /\ SummaryIsFinal

LEMMA Fields ==
  ASSUME TypeOK
  PROVE  /\ \A e \in Episode : /\ episodes[e] \in EpisodeRow
                               /\ episodes[e].token \in Nat /\ episodes[e].attempt \in Nat
                               /\ episodes[e].checkpoint \in Checkpoint
                               /\ events[e] \in Seq(Event) /\ Len(events[e]) \in Nat
         /\ \A w \in Worker : /\ pc[w] \in WorkerState /\ held[w] \in Held
                              /\ Mine(w) \in Episode /\ held[w].token \in Nat
                              /\ held[w].checkpoint \in Checkpoint
BY LenProperties DEF TypeOK, EpisodeRow, Held, Mine

LEMMA CheckpointFields ==
  ASSUME NEW c \in Checkpoint
  PROVE  c.done \in 0..Batches /\ c.pending \in Decision /\ c.intact \in BOOLEAN
BY DEF Checkpoint

LEMMA NewCheckpoints ==
  ASSUME NEW c \in Checkpoint, NEW d \in 0..Batches, NEW p \in Decision
  PROVE  /\ [c EXCEPT !.intact = TRUE] \in Checkpoint /\ [c EXCEPT !.done = d] \in Checkpoint
         /\ [c EXCEPT !.pending = p] \in Checkpoint
         /\ NoCheckpoint \in Checkpoint
<1>1. [c EXCEPT !.intact = TRUE] \in Checkpoint
  BY DEF Checkpoint
<1>2. [c EXCEPT !.done = d] \in Checkpoint
  BY DEF Checkpoint
<1>3. [c EXCEPT !.pending = p] \in Checkpoint
  BY DEF Checkpoint
<1>4. NoCheckpoint \in Checkpoint
  BY DEF Checkpoint, NoCheckpoint, Decision
<1> QED BY <1>1, <1>2, <1>3, <1>4

\* The rows of an episode after each of the writes to it.
LEMMA NewRows ==
  ASSUME NEW r \in EpisodeRow, NEW c \in Checkpoint, NEW b \in BOOLEAN,
         NEW s \in {"queued", "running", "completed", "quarantined"}
  PROVE  /\ [r EXCEPT !.status = s] \in EpisodeRow /\ [r EXCEPT !.leased = b] \in EpisodeRow
         /\ [r EXCEPT !.status = s, !.leased = b] \in EpisodeRow
         /\ [r EXCEPT !.checkpoint = c, !.leased = b] \in EpisodeRow
         /\ [r EXCEPT !.checkpoint = c] \in EpisodeRow
         /\ Claimed(r) \in EpisodeRow /\ Claimed(r).token = r.token + 1
<1>1. [r EXCEPT !.status = s] \in EpisodeRow /\ [r EXCEPT !.leased = b] \in EpisodeRow
  BY DEF EpisodeRow
<1>2. [r EXCEPT !.status = s, !.leased = b] \in EpisodeRow
  BY DEF EpisodeRow
<1>3. [r EXCEPT !.checkpoint = c, !.leased = b] \in EpisodeRow
  BY DEF EpisodeRow
<1>4. [r EXCEPT !.checkpoint = c] \in EpisodeRow
  BY DEF EpisodeRow
<1>5. Claimed(r) \in EpisodeRow /\ Claimed(r).token = r.token + 1
  <2> DEFINE p == [r EXCEPT !.status = "running", !.leased = TRUE]
             q == [p EXCEPT !.token = @ + 1]
  <2>1. p \in EpisodeRow
    BY DEF EpisodeRow
  <2>0. p.token = r.token
    BY DEF EpisodeRow
  <2>2. q \in EpisodeRow /\ q.token = r.token + 1
    <3> HIDE DEF p
    <3>1. p.token + 1 \in Nat
      BY <2>1 DEF EpisodeRow
    <3> QED BY <2>0, <2>1, <3>1 DEF EpisodeRow
  <2>3. [q EXCEPT !.attempt = @ + 1] \in EpisodeRow /\ [q EXCEPT !.attempt = @ + 1].token = r.token + 1
    <3> HIDE DEF q
    <3>1. q.attempt + 1 \in Nat
      BY <2>2 DEF EpisodeRow
    <3> QED BY <2>2, <3>1 DEF EpisodeRow
  <2> QED BY <2>3 DEF Claimed
<1> QED BY <1>1, <1>2, <1>3, <1>4, <1>5

\* What a claim, an end and a new copy leave in a worker's hands.
LEMMA NewHeld ==
  ASSUME NEW h \in Held, NEW c \in Checkpoint
  PROVE  /\ [h EXCEPT !.checkpoint = c] \in Held
         /\ \A e \in Episode : Nothing \in Held
BY DEF Held, Nothing, NoCheckpoint, Checkpoint, Decision

\* A worker's move is its own.
LEMMA Moved ==
  ASSUME TypeOK, NEW w \in Worker, NEW from, NEW to, Goto(w, from, to)
  PROVE  /\ pc[w] = from /\ pc'[w] = to /\ \A v \in Worker \ {w} : pc'[v] = pc[v]
         /\ to \in WorkerState => pc' \in [Worker -> WorkerState]
BY DEF TypeOK, Goto

\* A worker that ends is idle with nothing in its hands.
LEMMA Ended ==
  ASSUME TypeOK, NEW w \in Worker, NEW from, End(w, from)
  PROVE  /\ pc[w] = from /\ pc'[w] = "idle" /\ held'[w] = Nothing
         /\ \A v \in Worker \ {w} : pc'[v] = pc[v] /\ held'[v] = held[v]
         /\ pc' \in [Worker -> WorkerState] /\ held' \in [Worker -> Held]
<1>1. Goto(w, from, "idle") /\ held' = [held EXCEPT ![w] = Nothing] /\ "idle" \in WorkerState
  BY DEF End, WorkerState
<1>2. Nothing \in Held
  BY Fields, NewHeld
<1> QED BY <1>1, <1>2, Moved DEF TypeOK

\* Only the owner of an episode is its owner.
LEMMA OneOwner ==
  ASSUME TypeOK, TokensSound, NEW w \in Worker, NEW v \in Worker,
         Owner(w), Owner(v), Mine(v) = Mine(w)
  PROVE  v = w
BY DEF Owner, Owns, TokensSound
-------------------------------------------------------------------------------
(* A commit: a batch of events with its checkpoint *)

LEMMA CommitStep ==
  ASSUME WorkerInv, NEW w \in Worker, NEW from \in {"reset", "log", "execute"},
         NEW batch \in Seq(Event), NEW cp \in Checkpoint, Commit(w, from, batch, cp),
         cp.intact, Sane(cp), cp.done = held[w].checkpoint.done + Len(batch)
  PROVE  WorkerInv'
<1> DEFINE e == Mine(w)
           new == [cp EXCEPT !.intact = TRUE]
<1>0. TypeOK /\ TokensSound /\ StageSound /\ OwnersSound /\ RowsSound /\ CheckpointTellsEvents /\ SummaryIsFinal
  BY DEF WorkerInv
<1>1. /\ Owns(w) /\ Goto(w, from, Following(cp)) /\ UNCHANGED runStatus
      /\ events' = [events EXCEPT ![e] = events[e] \o batch]
      /\ episodes' = [episodes EXCEPT ![e] = [episodes[e] EXCEPT !.checkpoint = new, !.leased = TRUE]]
      /\ held' = [held EXCEPT ![w] = [held[w] EXCEPT !.checkpoint = cp]]
  <2>1. /\ Owns(w) /\ Goto(w, from, Following(cp)) /\ UNCHANGED runStatus
        /\ events' = [events EXCEPT ![e] = events[e] \o batch]
        /\ episodes' = [episodes EXCEPT ![e].checkpoint = new, ![e].leased = TRUE]
        /\ held' = [held EXCEPT ![w].checkpoint = cp]
    BY DEF Commit
  <2>2. episodes \in [Episode -> EpisodeRow] /\ e \in Episode /\ held \in [Worker -> Held]
    BY <1>0, Fields DEF TypeOK
  <2> QED BY <2>1, <2>2
<1>2. /\ e \in Episode /\ episodes[e] \in EpisodeRow /\ held[w] \in Held /\ events[e] \in Seq(Event)
      /\ Len(events[e]) \in Nat /\ new \in Checkpoint /\ Len(batch) \in Nat
      /\ cp.done \in 0..Batches /\ cp.pending \in Decision
  BY <1>0, Fields, NewCheckpoints, CheckpointFields, LenProperties
<1>3. /\ new.done = cp.done /\ new.pending = cp.pending /\ new.intact
  BY <1>2 DEF Checkpoint
<1>4. Following(cp) \in {"reset", "execute", "complete", "act"}
  BY DEF Following
<1>5. /\ pc[w] = from /\ pc'[w] = Following(cp) /\ \A v \in Worker \ {w} : pc'[v] = pc[v]
      /\ pc' \in [Worker -> WorkerState]
  BY <1>0, <1>1, <1>4, Moved DEF WorkerState
<1>6. /\ held'[w].episode = e /\ held'[w].token = held[w].token /\ held'[w].checkpoint = cp
      /\ \A v \in Worker \ {w} : held'[v] = held[v]
      /\ held' \in [Worker -> Held]
  <2>1. held \in [Worker -> Held] /\ [held[w] EXCEPT !.checkpoint = cp] \in Held
    BY <1>0, <1>2, NewHeld DEF TypeOK
  <2>2. held'[w] = [held[w] EXCEPT !.checkpoint = cp]
    BY <1>1, <2>1
  <2>3. /\ held'[w].episode = held[w].episode /\ held'[w].token = held[w].token
        /\ held'[w].checkpoint = cp
    BY <1>2, <2>2 DEF Held
  <2> QED BY <1>1, <2>1, <2>3 DEF Mine
<1>7. /\ episodes'[e].status = episodes[e].status /\ episodes'[e].token = episodes[e].token
      /\ episodes'[e].checkpoint = new
      /\ \A f \in Episode \ {e} : episodes'[f] = episodes[f]
      /\ episodes' \in [Episode -> EpisodeRow]
  <2>1. episodes \in [Episode -> EpisodeRow] /\ [episodes[e] EXCEPT !.checkpoint = new, !.leased = TRUE] \in EpisodeRow
    BY <1>0, <1>2, NewRows DEF TypeOK
  <2>2. episodes'[e] = [episodes[e] EXCEPT !.checkpoint = new, !.leased = TRUE]
    BY <1>1, <1>2, <2>1
  <2>3. /\ episodes'[e].status = episodes[e].status /\ episodes'[e].token = episodes[e].token
        /\ episodes'[e].checkpoint = new
    BY <1>2, <2>2 DEF EpisodeRow
  <2> QED BY <1>1, <2>1, <2>3
<1>8. /\ events'[e] = events[e] \o batch /\ Len(events'[e]) = Len(events[e]) + Len(batch)
      /\ \A f \in Episode \ {e} : events'[f] = events[f]
      /\ events' \in [Episode -> Seq(Event)]
  <2>1. events \in [Episode -> Seq(Event)] /\ events[e] \o batch \in Seq(Event)
        /\ Len(events[e] \o batch) = Len(events[e]) + Len(batch)
    BY <1>0, <1>2, ConcatProperties DEF TypeOK
  <2> QED BY <1>1, <1>2, <2>1
<1> HIDE DEF e, new
<1>9. Owner(w) /\ CopyTrue(w)
  <2>1. Owner(w)
    BY <1>1, <1>5 DEF Owner, Busy
  <2> QED BY <1>0, <2>1 DEF OwnersSound
<1>10. held[w].checkpoint.done = Len(events[e]) /\ episodes[e].status = "running"
  BY <1>5, <1>9 DEF CopyTrue, e
<1>11. cp.done = Len(events'[e])
  BY <1>8, <1>10
<1>12. TypeOK'
  BY <1>0, <1>1, <1>5, <1>6, <1>7, <1>8 DEF TypeOK
<1>13. \A v \in Worker : Mine(v)' = Mine(v) /\ held'[v].token = held[v].token /\ (Busy(v)' <=> Busy(v))
  BY <1>4, <1>5, <1>6 DEF Mine, Busy, e
<1>14. \A f \in Episode : episodes'[f].token = episodes[f].token /\ episodes'[f].status = episodes[f].status
  BY <1>7
<1>15. TokensSound'
  BY <1>0, <1>13, <1>14, Fields DEF TokensSound
<1>16. StageSound'
  BY <1>0, <1>4, <1>5, <1>6 DEF StageSound
<1>17. RowsSound'
  <2>1. Sane(new)
    BY <1>3 DEF Sane
  <2> QED BY <1>0, <1>7, <2>1 DEF RowsSound
<1>18. OwnersSound'
  <2> SUFFICES ASSUME NEW v \in Worker, Owner(v)' PROVE CopyTrue(v)'
    BY DEF OwnersSound
  <2>1. Owner(v)
    BY <1>0, <1>13, <1>14, Fields DEF Owner, Owns
  <2>2. CASE v = w
    BY <1>3, <1>4, <1>5, <1>6, <1>7, <1>10, <1>11, <1>13, <2>2 DEF CopyTrue, e
  <2>3. CASE v # w
    <3>1. Mine(v) # e
      BY <1>0, <1>9, <2>1, <2>3, OneOwner DEF e
    <3>2. Mine(v)' = Mine(v) /\ Mine(v) \in Episode \ {e}
      BY <1>0, <1>13, <3>1, Fields
    <3>3. pc'[v] = pc[v] /\ held'[v] = held[v] /\ episodes'[Mine(v)] = episodes[Mine(v)] /\ events'[Mine(v)] = events[Mine(v)]
      BY <1>5, <1>6, <1>7, <1>8, <2>3, <3>2
    <3>4. CopyTrue(v)
      BY <1>0, <2>1 DEF OwnersSound
    <3> QED BY <3>2, <3>3, <3>4 DEF CopyTrue
  <2> QED BY <2>2, <2>3
<1>19. CheckpointTellsEvents'
  BY <1>0, <1>3, <1>7, <1>8, <1>11 DEF CheckpointTellsEvents
<1>20. SummaryIsFinal'
  BY <1>0, <1>1, <1>14 DEF SummaryIsFinal
<1> QED BY <1>12, <1>15, <1>16, <1>17, <1>18, <1>19, <1>20 DEF WorkerInv
-------------------------------------------------------------------------------
(* Steps that write no event and give out no token *)

WritesAhead == {"giveup", "load", "reset", "act", "log", "execute", "complete"}

\* A worker stops, leaves its episode, or is not concerned.
Unconcerned(v) ==
  \/ pc'[v] = "idle" /\ held'[v] = Nothing
  \/ Busy(v) /\ held'[v] = held[v] /\ pc'[v] \in {"error", "finalize"}
  \/ /\ held'[v] = held[v] /\ pc'[v] = pc[v]
     /\ Owner(v) /\ pc[v] \in WritesAhead => episodes'[Mine(v)].status = episodes[Mine(v)].status

\* An episode keeps its token and the decision on record; its checkpoint may be lost.
RowKept(e) ==
  /\ episodes'[e].token = episodes[e].token
  /\ episodes'[e].checkpoint.pending = episodes[e].checkpoint.pending
  /\ episodes'[e].checkpoint.intact => episodes'[e].checkpoint = episodes[e].checkpoint

LEMMA KeptStep ==
  ASSUME WorkerInv, TypeOK', SummaryIsFinal', events' = events,
         \A v \in Worker : Unconcerned(v),
         \A e \in Episode : RowKept(e)
  PROVE  WorkerInv'
<1>0. TypeOK /\ TokensSound /\ StageSound /\ OwnersSound /\ RowsSound /\ CheckpointTellsEvents
  BY DEF WorkerInv
<1>1. \A v \in Worker : Busy(v)' => Busy(v) /\ held'[v] = held[v] /\ Mine(v)' = Mine(v)
  BY DEF Unconcerned, Busy, Mine
<1>2. TokensSound'
  BY <1>0, <1>1, Fields DEF TokensSound, RowKept
<1>3. Sane(Nothing.checkpoint)
  BY DEF Nothing, NoCheckpoint, Sane
<1>4. StageSound'
  BY <1>0, <1>3 DEF StageSound, Unconcerned
<1>5. RowsSound' /\ CheckpointTellsEvents'
  <2> SUFFICES ASSUME NEW e \in Episode
               PROVE  /\ Sane(episodes'[e].checkpoint)
                      /\ episodes'[e].checkpoint.intact => episodes'[e].checkpoint.done = Len(events[e])
    BY DEF RowsSound, CheckpointTellsEvents
  <2>1. CASE episodes'[e].checkpoint.intact
    BY <1>0, <2>1 DEF RowKept, RowsSound, CheckpointTellsEvents
  <2>2. CASE ~episodes'[e].checkpoint.intact
    BY <2>2 DEF Sane
  <2> QED BY <2>1, <2>2
<1>6. OwnersSound'
  <2> SUFFICES ASSUME NEW v \in Worker, Owner(v)' PROVE CopyTrue(v)'
    BY DEF OwnersSound
  <2>1. /\ Busy(v) /\ held'[v] = held[v] /\ Mine(v)' = Mine(v) /\ Mine(v) \in Episode
    BY <1>0, <1>1, Fields DEF Owner
  <2>2. Owner(v) /\ CopyTrue(v)
    BY <1>0, <2>1 DEF Owner, Owns, RowKept, OwnersSound
  <2>3. CASE pc'[v] \in {"error", "finalize"}
    BY <2>3 DEF CopyTrue
  <2>4. CASE pc'[v] = pc[v] /\ (pc[v] \in WritesAhead => episodes'[Mine(v)].status = episodes[Mine(v)].status)
    BY <2>1, <2>2, <2>4 DEF CopyTrue, RowKept, WritesAhead
  <2>5. pc'[v] # "idle"
    BY DEF Owner, Busy
  <2> QED BY <2>2, <2>3, <2>4, <2>5 DEF Unconcerned
<1> QED BY <1>2, <1>4, <1>5, <1>6 DEF WorkerInv

\* Where only the status or the lease of one row may change.
LEMMA RowWrite ==
  ASSUME TypeOK, NEW e \in Episode, NEW s \in {"queued", "running", "completed", "quarantined"}, NEW b \in BOOLEAN,
         \/ episodes' = episodes
         \/ episodes' = [episodes EXCEPT ![e].status = s]
         \/ episodes' = [episodes EXCEPT ![e].leased = b]
         \/ episodes' = [episodes EXCEPT ![e].status = s, ![e].leased = b]
  PROVE  /\ episodes' \in [Episode -> EpisodeRow]
         /\ \A f \in Episode : RowKept(f)
         /\ \A f \in Episode \ {e} : episodes'[f] = episodes[f]
         /\ episodes'[e].status \in {s, episodes[e].status}
<1>1. episodes \in [Episode -> EpisodeRow] /\ episodes[e] \in EpisodeRow /\ episodes[e].checkpoint \in Checkpoint
  BY Fields DEF TypeOK
<1> DEFINE rows == {episodes[e], [episodes[e] EXCEPT !.status = s], [episodes[e] EXCEPT !.leased = b],
                    [episodes[e] EXCEPT !.status = s, !.leased = b]}
<1>2. \E r \in rows : episodes' = [episodes EXCEPT ![e] = r]
  <2>1. episodes = [episodes EXCEPT ![e] = episodes[e]]
    BY <1>1
  <2>2. CASE episodes' = episodes
    BY <2>1, <2>2
  <2>3. CASE episodes' = [episodes EXCEPT ![e].status = s]
    BY <2>3
  <2>4. CASE episodes' = [episodes EXCEPT ![e].leased = b]
    BY <2>4
  <2>5. CASE episodes' = [episodes EXCEPT ![e].status = s, ![e].leased = b]
    <3>1. episodes' = [episodes EXCEPT ![e] = [episodes[e] EXCEPT !.status = s, !.leased = b]]
      BY <1>1, <2>5
    <3> QED BY <3>1
  <2> QED BY <2>2, <2>3, <2>4, <2>5
<1>3. \A r \in rows : /\ r \in EpisodeRow /\ r.token = episodes[e].token /\ r.checkpoint = episodes[e].checkpoint
                      /\ r.status \in {s, episodes[e].status}
  BY <1>1 DEF EpisodeRow
<1> HIDE DEF rows
<1>4. PICK r \in rows : episodes' = [episodes EXCEPT ![e] = r]
  BY <1>2
<1>5. episodes'[e] = r /\ \A f \in Episode \ {e} : episodes'[f] = episodes[f]
  BY <1>1, <1>4
<1> QED BY <1>1, <1>3, <1>4, <1>5 DEF RowKept

\* A worker quits its place or goes on to another, and the others stay.
LEMMA Quits ==
  ASSUME WorkerInv, NEW w \in Worker, TypeOK', SummaryIsFinal', events' = events,
         \A e \in Episode : RowKept(e),
         \/ pc'[w] = "idle" /\ held'[w] = Nothing
         \/ Busy(w) /\ held'[w] = held[w] /\ pc'[w] \in {"error", "finalize"},
         \A v \in Worker \ {w} : pc'[v] = pc[v] /\ held'[v] = held[v],
         \A e \in Episode : episodes'[e].status = episodes[e].status \/ (e = Mine(w) /\ Owner(w))
  PROVE  WorkerInv'
<1>0. TypeOK /\ TokensSound
  BY DEF WorkerInv
<1>1. ASSUME NEW v \in Worker \ {w}, Owner(v) PROVE episodes'[Mine(v)].status = episodes[Mine(v)].status
  <2>1. CASE Mine(v) = Mine(w) /\ Owner(w)
    BY <1>0, <1>1, <2>1, OneOwner
  <2>2. CASE ~(Mine(v) = Mine(w) /\ Owner(w))
    BY <1>0, <2>2, Fields
  <2> QED BY <2>1, <2>2
<1>2. \A v \in Worker : Unconcerned(v)
  BY <1>1 DEF Unconcerned
<1> QED BY <1>2, KeptStep

\* A row leaves the open ones only, and then its run may be summed up.
LEMMA FinalStays ==
  ASSUME WorkerInv, NEW e \in Episode, runStatus' = runStatus,
         \A f \in Episode \ {e} : episodes'[f] = episodes[f],
         episodes'[e].status \in {"completed", "quarantined", episodes[e].status}
  PROVE  SummaryIsFinal'
BY DEF WorkerInv, SummaryIsFinal

LEMMA QuarantineRow ==
  ASSUME WorkerInv, NEW w \in Worker, Quarantine(w), Busy(w), runStatus' = runStatus
  PROVE  /\ episodes' \in [Episode -> EpisodeRow]
         /\ \A f \in Episode : RowKept(f)
         /\ SummaryIsFinal'
         /\ \A e \in Episode : episodes'[e].status = episodes[e].status \/ (e = Mine(w) /\ Owner(w))
<1>0. TypeOK /\ Mine(w) \in Episode
  BY Fields DEF WorkerInv
<1>1. episodes' = episodes \/ (Owns(w) /\ episodes' = [episodes EXCEPT ![Mine(w)].status = "quarantined"])
  BY DEF Quarantine
<1>2. /\ episodes' \in [Episode -> EpisodeRow] /\ \A f \in Episode : RowKept(f)
      /\ \A f \in Episode \ {Mine(w)} : episodes'[f] = episodes[f]
      /\ episodes'[Mine(w)].status \in {"quarantined", episodes[Mine(w)].status}
  BY <1>0, <1>1, RowWrite
<1>3. SummaryIsFinal'
  BY <1>0, <1>2, FinalStays
<1> QED BY <1>1, <1>2, <1>3 DEF Owner

LEMMA QuitSteps ==
  ASSUME WorkerInv, NEW w \in Worker,
         \/ GiveUp(w) \/ Refuse(w) \/ Complete(w) \/ LoseLease(w) \/ Finalize(w) \/ Release(w)
         \/ Fail(w) \/ Crash(w)
  PROVE  WorkerInv'
<1>0. TypeOK /\ SummaryIsFinal /\ Mine(w) \in Episode
  BY Fields DEF WorkerInv
<1>t. episodes \in [Episode -> EpisodeRow] /\ events \in [Episode -> Seq(Event)]
      /\ runStatus \in {"queued", "completed"} /\ held \in [Worker -> Held]
  BY <1>0 DEF TypeOK
<1>1. ASSUME GiveUp(w) PROVE WorkerInv'
  <2>1. End(w, "giveup") /\ Quarantine(w) /\ UNCHANGED <<events, runStatus>> /\ Busy(w)
    BY <1>1 DEF GiveUp, End, Goto, Busy
  <2>2. /\ pc'[w] = "idle" /\ held'[w] = Nothing
        /\ \A v \in Worker \ {w} : pc'[v] = pc[v] /\ held'[v] = held[v]
        /\ pc' \in [Worker -> WorkerState] /\ held' \in [Worker -> Held]
    BY <1>0, <2>1, Ended
  <2>3. TypeOK'
    BY <1>t, <2>1, <2>2, QuarantineRow DEF TypeOK
  <2> QED BY <2>1, <2>2, <2>3, QuarantineRow, Quits
<1>2. ASSUME Refuse(w) PROVE WorkerInv'
  <2>1. Goto(w, "load", "error") /\ Quarantine(w) /\ UNCHANGED <<events, runStatus, held>> /\ Busy(w)
    BY <1>2 DEF Refuse, Goto, Busy
  <2>2. /\ pc'[w] = "error" /\ \A v \in Worker \ {w} : pc'[v] = pc[v]
        /\ pc' \in [Worker -> WorkerState]
    BY <1>0, <2>1, Moved DEF WorkerState
  <2>3. TypeOK'
    BY <1>t, <2>1, <2>2, QuarantineRow DEF TypeOK
  <2> QED BY <2>1, <2>2, <2>3, QuarantineRow, Quits
<1>3. ASSUME Complete(w) PROVE WorkerInv'
  <2>1. /\ Owns(w) /\ Goto(w, "complete", "finalize") /\ UNCHANGED <<events, runStatus, held>>
        /\ episodes' = [episodes EXCEPT ![Mine(w)].status = "completed", ![Mine(w)].leased = FALSE]
    BY <1>3 DEF Complete
  <2>2. /\ Busy(w) /\ pc'[w] = "finalize" /\ \A v \in Worker \ {w} : pc'[v] = pc[v]
        /\ pc' \in [Worker -> WorkerState]
    BY <1>0, <2>1, Moved DEF WorkerState, Busy
  <2>3. /\ episodes' \in [Episode -> EpisodeRow] /\ \A f \in Episode : RowKept(f)
        /\ \A f \in Episode \ {Mine(w)} : episodes'[f] = episodes[f]
        /\ episodes'[Mine(w)].status \in {"completed", episodes[Mine(w)].status}
    BY <1>0, <2>1, RowWrite
  <2>4. SummaryIsFinal' /\ TypeOK'
    BY <1>0, <1>t, <2>1, <2>2, <2>3, FinalStays DEF TypeOK
  <2>5. Owner(w)
    BY <2>1, <2>2 DEF Owner
  <2> QED BY <2>1, <2>2, <2>3, <2>4, <2>5, Quits
<1>4. ASSUME LoseLease(w) \/ Finalize(w) \/ Crash(w) PROVE WorkerInv'
  <2>1. PICK from : End(w, from) /\ UNCHANGED <<episodes, events>>
    BY <1>4 DEF LoseLease, Finalize, Crash
  <2>2. /\ pc'[w] = "idle" /\ held'[w] = Nothing
        /\ \A v \in Worker \ {w} : pc'[v] = pc[v] /\ held'[v] = held[v]
        /\ pc' \in [Worker -> WorkerState] /\ held' \in [Worker -> Held]
    BY <1>0, <2>1, Ended
  <2>3. runStatus' \in {"queued", "completed"}
    BY <1>t, <1>4 DEF LoseLease, Finalize, Crash
  <2>4. TypeOK'
    BY <1>t, <2>1, <2>2, <2>3 DEF TypeOK
  <2>5. SummaryIsFinal'
    <3>1. CASE runStatus' = runStatus
      BY <1>0, <2>1, <3>1 DEF SummaryIsFinal
    <3>2. CASE \A e \in Episode : ~Open(episodes[e])
      BY <1>t, <2>1, <3>2 DEF SummaryIsFinal, Open, EpisodeRow
    <3> QED BY <1>4, <3>1, <3>2 DEF LoseLease, Finalize, Crash
  <2>6. \A e \in Episode : RowKept(e)
    BY <2>1 DEF RowKept
  <2> QED BY <2>1, <2>2, <2>4, <2>5, <2>6, Quits
<1>5. ASSUME Release(w) PROVE WorkerInv'
  <2>1. /\ End(w, "error") /\ UNCHANGED <<events, runStatus>>
        /\ episodes' = episodes \/ episodes' = [episodes EXCEPT ![Mine(w)].leased = FALSE]
    BY <1>5 DEF Release
  <2>2. /\ pc'[w] = "idle" /\ held'[w] = Nothing
        /\ \A v \in Worker \ {w} : pc'[v] = pc[v] /\ held'[v] = held[v]
        /\ pc' \in [Worker -> WorkerState] /\ held' \in [Worker -> Held]
    BY <1>0, <2>1, Ended
  <2>3. episodes[Mine(w)].status \in {"queued", "running", "completed", "quarantined"}
    BY <1>0, <1>t DEF EpisodeRow
  <2>4. /\ episodes' \in [Episode -> EpisodeRow] /\ \A f \in Episode : RowKept(f)
        /\ \A f \in Episode \ {Mine(w)} : episodes'[f] = episodes[f]
        /\ episodes'[Mine(w)].status = episodes[Mine(w)].status
    BY <1>0, <2>1, <2>3, RowWrite
  <2>5. SummaryIsFinal' /\ TypeOK'
    BY <1>0, <1>t, <2>1, <2>2, <2>4, FinalStays DEF TypeOK
  <2> QED BY <2>1, <2>2, <2>4, <2>5, Quits
<1>6. ASSUME Fail(w) PROVE WorkerInv'
  <2>1. PICK from \in {"load", "reset", "act", "log", "execute", "complete", "finalize"} :
          Goto(w, from, "error") /\ UNCHANGED <<episodes, events, runStatus, held>>
    BY <1>6 DEF Fail
  <2>2. /\ Busy(w) /\ pc'[w] = "error" /\ \A v \in Worker \ {w} : pc'[v] = pc[v]
        /\ pc' \in [Worker -> WorkerState]
    BY <1>0, <2>1, Moved DEF WorkerState, Busy
  <2>3. TypeOK' /\ SummaryIsFinal' /\ \A e \in Episode : RowKept(e)
    BY <1>0, <1>t, <2>1, <2>2 DEF TypeOK, SummaryIsFinal, RowKept
  <2> QED BY <2>1, <2>2, <2>3, Quits
<1> QED BY <1>1, <1>2, <1>3, <1>4, <1>5, <1>6

\* A lease runs out, or a stored checkpoint is damaged, under whoever is at work.
LEMMA WearSteps ==
  ASSUME WorkerInv, NEW e \in Episode,
         ExpireLease(e) \/ \E done \in 1..Batches : Corrupt(e, done)
  PROVE  WorkerInv'
<1>0. TypeOK /\ SummaryIsFinal
  BY DEF WorkerInv
<1>t. /\ episodes \in [Episode -> EpisodeRow] /\ episodes[e] \in EpisodeRow
      /\ episodes[e].checkpoint \in Checkpoint
  BY <1>0, Fields DEF TypeOK
<1>1. UNCHANGED <<events, runStatus, pc, held>>
  BY DEF ExpireLease, Corrupt
<1>2. ASSUME episodes' \in [Episode -> EpisodeRow], \A f \in Episode : RowKept(f),
             \A f \in Episode : episodes'[f].status = episodes[f].status
      PROVE  WorkerInv'
  <2>1. TypeOK' /\ SummaryIsFinal'
    BY <1>0, <1>1, <1>2 DEF TypeOK, SummaryIsFinal
  <2>2. \A v \in Worker : Unconcerned(v)
    BY <1>0, <1>1, <1>2, Fields DEF Unconcerned
  <2> QED BY <1>1, <1>2, <2>1, <2>2, KeptStep
<1>3. ASSUME ExpireLease(e) PROVE WorkerInv'
  <2>1. episodes' = [episodes EXCEPT ![e].leased = FALSE] /\ episodes[e].status = "running"
    BY <1>3 DEF ExpireLease
  <2> QED BY <1>0, <1>2, <2>1, RowWrite
<1>4. ASSUME NEW done \in 1..Batches, Corrupt(e, done) PROVE WorkerInv'
  <2> DEFINE damaged == [episodes[e].checkpoint EXCEPT !.done = done, !.intact = FALSE]
             r == [episodes[e] EXCEPT !.checkpoint = damaged]
  <2>1. episodes' = [episodes EXCEPT ![e] = r]
    <3>1. episodes' = [episodes EXCEPT ![e].checkpoint.done = done, ![e].checkpoint.intact = FALSE]
      BY <1>4 DEF Corrupt
    <3> QED BY <1>t, <3>1 DEF EpisodeRow
  <2>2. /\ damaged \in Checkpoint /\ ~damaged.intact
        /\ damaged.pending = episodes[e].checkpoint.pending
    <3> DEFINE c == [episodes[e].checkpoint EXCEPT !.done = done]
    <3>1. c \in Checkpoint /\ c.pending = episodes[e].checkpoint.pending
      BY <1>t DEF Checkpoint
    <3>2. damaged = [c EXCEPT !.intact = FALSE]
      OBVIOUS
    <3> HIDE DEF c, damaged
    <3> QED BY <3>1, <3>2 DEF Checkpoint
  <2>3. /\ r \in EpisodeRow /\ r.token = episodes[e].token /\ r.status = episodes[e].status
        /\ r.checkpoint = damaged
    <3> HIDE DEF damaged
    <3> QED BY <1>t, <2>2 DEF EpisodeRow
  <2> HIDE DEF damaged, r
  <2>4. /\ episodes'[e] = r /\ \A f \in Episode \ {e} : episodes'[f] = episodes[f]
        /\ episodes' \in [Episode -> EpisodeRow]
    BY <1>t, <2>1, <2>3
  <2>5. \A f \in Episode : RowKept(f)
    BY <2>2, <2>3, <2>4 DEF RowKept
  <2>6. \A f \in Episode : episodes'[f].status = episodes[f].status
    BY <2>3, <2>4
  <2> QED BY <1>2, <2>4, <2>5, <2>6
<1> QED BY <1>3, <1>4
-------------------------------------------------------------------------------
(* A claim, and the steps that change a worker's own copy *)

\* A new claim is newer than all others, and its copy is the stored checkpoint.
LEMMA ClaimStep ==
  ASSUME WorkerInv, NEW w \in Worker, NEW e \in Episode, Claim(w, e)
  PROVE  WorkerInv'
<1> DEFINE row == Claimed(episodes[e])
           to == IF row.attempt > MaxAttempts THEN "giveup" ELSE "load"
           claim == [episode |-> e, token |-> row.token, attempt |-> row.attempt,
                     checkpoint |-> row.checkpoint]
<1>0. TypeOK /\ TokensSound /\ StageSound /\ OwnersSound /\ RowsSound /\ CheckpointTellsEvents /\ SummaryIsFinal
  BY DEF WorkerInv
<1>1. /\ Claimable(episodes[e]) /\ Goto(w, "idle", to) /\ UNCHANGED <<events, runStatus>>
      /\ episodes' = [episodes EXCEPT ![e] = row] /\ held' = [held EXCEPT ![w] = claim]
  BY DEF Claim
<1>2. /\ episodes \in [Episode -> EpisodeRow] /\ held \in [Worker -> Held]
      /\ episodes[e] \in EpisodeRow /\ episodes[e].token \in Nat
  BY <1>0, Fields DEF TypeOK
<1>3. /\ row \in EpisodeRow /\ row.status = "running" /\ row.token = episodes[e].token + 1
      /\ row.checkpoint = episodes[e].checkpoint
  <2>1. row \in EpisodeRow
    BY <1>2, NewRows, NewCheckpoints, Fields, <1>0
  <2>2. /\ row.status = "running" /\ row.checkpoint = episodes[e].checkpoint
    BY <1>2 DEF Claimed, EpisodeRow
  <2>3. row.token = episodes[e].token + 1
    BY <1>0, <1>2, NewRows, NewCheckpoints, Fields
  <2> QED BY <2>1, <2>2, <2>3
<1>4. to \in {"giveup", "load"}
  OBVIOUS
<1>5. claim \in Held
  <2> HIDE DEF row
  <2> QED BY <1>3 DEF Held, EpisodeRow
<1>6. claim.episode = e /\ claim.token = row.token /\ claim.checkpoint = row.checkpoint
  OBVIOUS
<1> HIDE DEF row, to, claim
<1>7. /\ episodes'[e] = row /\ \A f \in Episode \ {e} : episodes'[f] = episodes[f]
      /\ held'[w] = claim /\ \A v \in Worker \ {w} : held'[v] = held[v]
      /\ episodes' \in [Episode -> EpisodeRow] /\ held' \in [Worker -> Held]
  BY <1>1, <1>2, <1>3, <1>5
<1>8. /\ pc[w] = "idle" /\ pc'[w] = to /\ \A v \in Worker \ {w} : pc'[v] = pc[v]
      /\ pc' \in [Worker -> WorkerState]
  BY <1>0, <1>1, <1>4, Moved DEF WorkerState
<1>9. TypeOK'
  BY <1>0, <1>1, <1>7, <1>8 DEF TypeOK
<1>10. Mine(w)' = e /\ \A v \in Worker \ {w} : Mine(v)' = Mine(v) /\ (Busy(v)' <=> Busy(v))
  BY <1>6, <1>7, <1>8 DEF Mine, Busy
<1>11. \A v \in Worker \ {w} : Busy(v) =>
         /\ held[v].token \in 1..episodes[Mine(v)].token
         /\ held'[v].token \in 1..episodes'[Mine(v)].token
         /\ Mine(v) = e => held[v].token < row.token
  <2> SUFFICES ASSUME NEW v \in Worker \ {w}, Busy(v)
               PROVE  /\ held[v].token \in 1..episodes[Mine(v)].token
                      /\ held'[v].token \in 1..episodes'[Mine(v)].token
                      /\ Mine(v) = e => held[v].token < row.token
    OBVIOUS
  <2>1. /\ held[v].token \in 1..episodes[Mine(v)].token /\ Mine(v) \in Episode
        /\ held'[v] = held[v]
    BY <1>0, <1>7, Fields DEF TokensSound
  <2>2. CASE Mine(v) = e
    BY <1>2, <1>3, <1>7, <2>1, <2>2
  <2>3. CASE Mine(v) # e
    BY <1>7, <2>1, <2>3
  <2> QED BY <2>1, <2>2, <2>3
<1>12. TokensSound'
  <2>1. \A v \in Worker : Busy(v)' => held'[v].token \in 1..episodes'[Mine(v)'].token
    <3>1. held'[w].token \in 1..episodes'[Mine(w)'].token
      BY <1>2, <1>3, <1>6, <1>7, <1>10
    <3> QED BY <1>10, <1>11, <3>1
  <2>2. ASSUME NEW u \in Worker, NEW v \in Worker, Busy(u)', Busy(v)', Mine(u)' = Mine(v)',
               held'[u].token = held'[v].token
        PROVE  u = v
    <3>1. \A x \in Worker \ {w} : Busy(x) /\ Mine(x) = e => held[x].token # row.token
      BY <1>0, <1>2, <1>3, <1>11, Fields
    <3>2. held'[w].token = row.token
      BY <1>6, <1>7
    <3>3. CASE u = w /\ v # w
      BY <1>7, <1>10, <2>2, <3>1, <3>2, <3>3
    <3>4. CASE v = w /\ u # w
      BY <1>7, <1>10, <2>2, <3>1, <3>2, <3>4
    <3>5. CASE u # w /\ v # w
      BY <1>0, <1>7, <1>10, <2>2, <3>5 DEF TokensSound
    <3> QED BY <3>3, <3>4, <3>5
  <2> QED BY <2>1, <2>2 DEF TokensSound
<1>13. StageSound'
  <2>1. Sane(held'[w].checkpoint)
    BY <1>0, <1>3, <1>6, <1>7 DEF RowsSound
  <2> QED BY <1>0, <1>4, <1>7, <1>8, <2>1 DEF StageSound
<1>14. RowsSound' /\ CheckpointTellsEvents'
  BY <1>0, <1>1, <1>3, <1>7 DEF RowsSound, CheckpointTellsEvents
<1>15. SummaryIsFinal'
  BY <1>0, <1>1, <1>7 DEF SummaryIsFinal, Claimable
<1>16. OwnersSound'
  <2> SUFFICES ASSUME NEW v \in Worker, Owner(v)' PROVE CopyTrue(v)'
    BY DEF OwnersSound
  <2>1. CASE v = w
    <3>1. /\ held'[v].checkpoint = episodes[e].checkpoint /\ episodes'[Mine(v)'] = row
          /\ Mine(v)' = e
      BY <1>3, <1>6, <1>7, <1>10, <2>1
    <3> QED BY <1>0, <1>1, <1>3, <1>4, <1>8, <2>1, <3>1 DEF CopyTrue, CheckpointTellsEvents
  <2>2. CASE v # w
    <3>1. Busy(v) /\ Mine(v)' = Mine(v) /\ Mine(v) \in Episode /\ held'[v] = held[v] /\ pc'[v] = pc[v]
      BY <1>0, <1>7, <1>8, <1>10, <2>2, Fields DEF Owner
    <3>2. Mine(v) # e
      <4>1. held'[v].token = episodes'[Mine(v)'].token
        BY DEF Owner, Owns
      <4> QED BY <1>0, <1>2, <1>3, <1>7, <1>11, <2>2, <3>1, <4>1, Fields
    <3>3. episodes'[Mine(v)] = episodes[Mine(v)]
      BY <1>7, <3>1, <3>2
    <3>4. CopyTrue(v)
      BY <1>0, <3>1, <3>3 DEF Owner, Owns, OwnersSound
    <3> QED BY <1>1, <3>1, <3>3, <3>4 DEF CopyTrue
  <2> QED BY <2>1, <2>2
<1> QED BY <1>9, <1>12, <1>13, <1>14, <1>15, <1>16 DEF WorkerInv

\* A worker that resumes stands where its copy says.
LEMMA RestoreStep ==
  ASSUME WorkerInv, NEW w \in Worker, Restore(w)
  PROVE  WorkerInv'
<1> DEFINE c == held[w].checkpoint
<1>0. TypeOK /\ TokensSound /\ StageSound /\ OwnersSound /\ RowsSound /\ CheckpointTellsEvents /\ SummaryIsFinal
  BY DEF WorkerInv
<1>1. /\ c.intact /\ Goto(w, "load", Following(c)) /\ UNCHANGED <<episodes, events, runStatus, held>>
  BY DEF Restore, Trustworthy
<1> HIDE DEF c
<1>2. Following(c) \in {"reset", "execute", "complete", "act"}
  BY DEF Following
<1>3. /\ pc[w] = "load" /\ pc'[w] = Following(c) /\ \A v \in Worker \ {w} : pc'[v] = pc[v]
      /\ pc' \in [Worker -> WorkerState]
  BY <1>0, <1>1, <1>2, Moved DEF WorkerState
<1>4. TypeOK'
  BY <1>0, <1>1, <1>3 DEF TypeOK
<1>5. \A v \in Worker : (Busy(v)' <=> Busy(v)) /\ Mine(v)' = Mine(v) /\ (Owner(v)' <=> Owner(v))
  BY <1>1, <1>2, <1>3 DEF Busy, Mine, Owner, Owns
<1>6. TokensSound'
  BY <1>0, <1>1, <1>5 DEF TokensSound
<1>7. StageSound'
  BY <1>0, <1>1, <1>2, <1>3 DEF StageSound, c
<1>8. RowsSound' /\ CheckpointTellsEvents' /\ SummaryIsFinal'
  BY <1>0, <1>1 DEF RowsSound, CheckpointTellsEvents, SummaryIsFinal
<1>9. OwnersSound'
  <2> SUFFICES ASSUME NEW v \in Worker, Owner(v) PROVE CopyTrue(v)'
    BY <1>5 DEF OwnersSound
  <2>1. CopyTrue(v)
    BY <1>0 DEF OwnersSound
  <2>2. CASE v = w
    BY <1>1, <1>2, <1>3, <1>5, <2>1, <2>2 DEF CopyTrue, c
  <2>3. CASE v # w
    BY <1>1, <1>3, <1>5, <2>1, <2>3 DEF CopyTrue
  <2> QED BY <2>2, <2>3
<1> QED BY <1>4, <1>6, <1>7, <1>8, <1>9 DEF WorkerInv

\* The agent's answer is in the worker's memory; an owner asked because there was none on record.
LEMMA ActStep ==
  ASSUME WorkerInv, NEW w \in Worker, NEW choice \in Choice, Act(w, choice)
  PROVE  WorkerInv'
<1> DEFINE c == held[w].checkpoint
           new == [c EXCEPT !.pending = choice]
<1>0. TypeOK /\ TokensSound /\ StageSound /\ OwnersSound /\ RowsSound /\ CheckpointTellsEvents /\ SummaryIsFinal
  BY DEF WorkerInv
<1>1. /\ Goto(w, "act", "log") /\ UNCHANGED <<episodes, events, runStatus>>
      /\ held' = [held EXCEPT ![w] = [held[w] EXCEPT !.checkpoint = new]]
  BY DEF Act
<1>2. /\ held \in [Worker -> Held] /\ held[w] \in Held /\ c \in Checkpoint /\ choice \in Decision
  BY <1>0, Fields DEF TypeOK, Decision
<1>3. new \in Checkpoint /\ new.pending = choice /\ new.done = c.done /\ new.intact = c.intact
  BY <1>2 DEF Checkpoint
<1>4. /\ pc[w] = "act" /\ pc'[w] = "log" /\ \A v \in Worker \ {w} : pc'[v] = pc[v]
      /\ pc' \in [Worker -> WorkerState]
  BY <1>0, <1>1, Moved DEF WorkerState
<1>5. c.intact /\ c.pending = NoChoice /\ c.done \in 1..(Batches - 1)
  <2>1. c.intact /\ Following(c) = "act" /\ c.done \in 0..Batches
    BY <1>0, <1>2, <1>4, CheckpointFields DEF StageSound
  <2> QED BY <2>1 DEF Following
<1> HIDE DEF new
<1>6. /\ held'[w].episode = held[w].episode /\ held'[w].token = held[w].token
      /\ held'[w].checkpoint = new /\ \A v \in Worker \ {w} : held'[v] = held[v]
      /\ held' \in [Worker -> Held]
  <2>1. [held[w] EXCEPT !.checkpoint = new] \in Held
    BY <1>2, <1>3, NewHeld
  <2>2. held'[w] = [held[w] EXCEPT !.checkpoint = new]
    BY <1>1, <1>2
  <2>3. /\ held'[w].episode = held[w].episode /\ held'[w].token = held[w].token
        /\ held'[w].checkpoint = new
    BY <1>2, <2>2 DEF Held
  <2> QED BY <1>1, <1>2, <2>1, <2>3
<1> HIDE DEF c
<1>7. TypeOK'
  BY <1>0, <1>1, <1>4, <1>6 DEF TypeOK
<1>8. \A v \in Worker : /\ Busy(v)' <=> Busy(v)
                        /\ Mine(v)' = Mine(v) /\ held'[v].token = held[v].token
                        /\ Owner(v)' <=> Owner(v)
  BY <1>1, <1>4, <1>6 DEF Busy, Mine, Owner, Owns
<1>9. TokensSound'
  BY <1>0, <1>1, <1>8 DEF TokensSound
<1>10. StageSound'
  <2>1. Sane(new)
    BY <1>3, <1>5 DEF Sane
  <2>2. new.pending # NoChoice
    BY <1>3
  <2> QED BY <1>0, <1>3, <1>4, <1>5, <1>6, <2>1, <2>2 DEF StageSound
<1>11. RowsSound' /\ CheckpointTellsEvents' /\ SummaryIsFinal'
  BY <1>0, <1>1 DEF RowsSound, CheckpointTellsEvents, SummaryIsFinal
<1>12. OwnersSound'
  <2> SUFFICES ASSUME NEW v \in Worker, Owner(v) PROVE CopyTrue(v)'
    BY <1>8 DEF OwnersSound
  <2>1. CopyTrue(v)
    BY <1>0 DEF OwnersSound
  <2>2. CASE v = w
    BY <1>1, <1>3, <1>4, <1>5, <1>6, <1>8, <2>1, <2>2 DEF CopyTrue, c
  <2>3. CASE v # w
    BY <1>1, <1>4, <1>6, <1>8, <2>1, <2>3 DEF CopyTrue
  <2> QED BY <2>2, <2>3
<1> QED BY <1>7, <1>9, <1>10, <1>11, <1>12 DEF WorkerInv

\* The three commits: what each writes is the next batch, and a sane checkpoint.
LEMMA ResetCommit ==
  ASSUME WorkerInv, NEW w \in Worker, Reset(w)
  PROVE  LET cp == [NoCheckpoint EXCEPT !.done = 1]
             batch == Batch(w, NoChoice)
         IN /\ Commit(w, "reset", batch, cp) /\ held[w].checkpoint.done = 0
            /\ batch \in Seq(Event) /\ Len(batch) = 1 /\ cp \in Checkpoint
            /\ cp.intact /\ Sane(cp) /\ cp.done = 1 /\ cp.pending = NoChoice
<1> DEFINE cp == [NoCheckpoint EXCEPT !.done = 1]
<1>1. NoCheckpoint \in Checkpoint /\ NoCheckpoint.pending = NoChoice /\ NoCheckpoint.intact
  BY DEF NoCheckpoint, Checkpoint, Decision
<1>2. cp \in Checkpoint /\ cp.intact /\ cp.done = 1 /\ cp.pending = NoChoice /\ Sane(cp)
  BY <1>1 DEF Checkpoint, Sane
<1>3. Batch(w, NoChoice) \in Seq(Event) /\ Len(Batch(w, NoChoice)) = 1
  BY Fields DEF WorkerInv, Batch, Event, Held, Decision
<1>4. Commit(w, "reset", Batch(w, NoChoice), cp) /\ pc[w] = "reset"
  BY DEF Reset, Commit, Goto
<1>5. held[w].checkpoint.done = 0
  BY <1>4 DEF WorkerInv, StageSound, Following
<1> QED BY <1>2, <1>3, <1>4, <1>5

LEMMA LogCommit ==
  ASSUME WorkerInv, NEW w \in Worker, Log(w)
  PROVE  LET cp == held[w].checkpoint
         IN /\ Commit(w, "log", <<>>, cp)
            /\ <<>> \in Seq(Event) /\ Len(<<>>) = 0 /\ cp \in Checkpoint
            /\ cp.intact /\ Sane(cp) /\ cp.done \in 1..(Batches - 1) /\ cp.pending \in Choice
<1>1. Commit(w, "log", <<>>, held[w].checkpoint) /\ pc[w] = "log"
  BY DEF Log, Commit, Goto
<1>2. held[w].checkpoint \in Checkpoint /\ held[w].checkpoint.pending \in Decision
  BY Fields, CheckpointFields DEF WorkerInv
<1> QED BY <1>1, <1>2, EmptySeq DEF WorkerInv, StageSound, Decision

LEMMA ExecuteCommit ==
  ASSUME WorkerInv, NEW w \in Worker, Execute(w)
  PROVE  LET c == held[w].checkpoint
             cp == Executed(c)
             batch == Batch(w, c.pending)
         IN /\ Commit(w, "execute", batch, cp)
            /\ batch \in Seq(Event) /\ Len(batch) = 1 /\ cp \in Checkpoint
            /\ cp.intact /\ Sane(cp) /\ cp.done = c.done + 1 /\ cp.pending = NoChoice
            /\ c.pending \in Choice
<1> DEFINE c == held[w].checkpoint
           cp == Executed(c)
<1>1. Commit(w, "execute", Batch(w, c.pending), cp) /\ pc[w] = "execute"
  BY DEF Execute, Commit, Goto
<1>2. c \in Checkpoint /\ c.pending \in Decision /\ c.done \in 0..Batches /\ held[w] \in Held
  BY Fields, CheckpointFields DEF WorkerInv
<1>3. c.intact /\ Following(c) = "execute" /\ Sane(c)
  BY <1>1 DEF WorkerInv, StageSound
<1>4. c.pending \in Choice /\ c.done \in 1..(Batches - 1)
  BY <1>2, <1>3 DEF Following, Sane, Decision
<1>5. Batch(w, c.pending) \in Seq(Event) /\ Len(Batch(w, c.pending)) = 1
  BY <1>2 DEF Batch, Event, Held
<1>6. /\ cp \in Checkpoint /\ cp.done = c.done + 1 /\ cp.pending = NoChoice /\ cp.intact
  <2> HIDE DEF c
  <2>1. c.done + 1 \in 0..Batches /\ NoChoice \in Decision
    BY <1>4 DEF Decision
  <2> QED BY <1>2, <1>3, <2>1 DEF Executed, Checkpoint
<1>7. Sane(cp)
  BY <1>6 DEF Sane
<1> QED BY <1>1, <1>4, <1>5, <1>6, <1>7

LEMMA CommitSteps ==
  ASSUME WorkerInv, NEW w \in Worker, Reset(w) \/ Log(w) \/ Execute(w)
  PROVE  WorkerInv'
<1>0. held[w].checkpoint.done \in 0..Batches
  BY Fields, CheckpointFields DEF WorkerInv
<1>1. ASSUME Reset(w) PROVE WorkerInv'
  <2> DEFINE cp == [NoCheckpoint EXCEPT !.done = 1]
             batch == Batch(w, NoChoice)
  <2>1. /\ Commit(w, "reset", batch, cp) /\ batch \in Seq(Event) /\ cp \in Checkpoint
        /\ cp.intact /\ Sane(cp)
        /\ cp.done = 1 /\ Len(batch) = 1 /\ held[w].checkpoint.done = 0
    BY <1>1, ResetCommit
  <2> HIDE DEF cp, batch
  <2>2. cp.done = held[w].checkpoint.done + Len(batch)
    BY <2>1
  <2> QED BY <2>1, <2>2, CommitStep
<1>2. ASSUME Log(w) PROVE WorkerInv'
  <2> DEFINE cp == held[w].checkpoint
  <2>1. /\ Commit(w, "log", <<>>, cp) /\ <<>> \in Seq(Event) /\ cp \in Checkpoint
        /\ cp.intact /\ Sane(cp) /\ Len(<<>>) = 0
    BY <1>2, LogCommit
  <2>2. cp.done = held[w].checkpoint.done + Len(<<>>)
    BY <1>0, <2>1
  <2> QED BY <2>1, <2>2, CommitStep
<1>3. ASSUME Execute(w) PROVE WorkerInv'
  <2> DEFINE cp == Executed(held[w].checkpoint)
             batch == Batch(w, held[w].checkpoint.pending)
  <2>1. /\ Commit(w, "execute", batch, cp) /\ batch \in Seq(Event) /\ cp \in Checkpoint
        /\ cp.intact /\ Sane(cp)
        /\ cp.done = held[w].checkpoint.done + 1 /\ Len(batch) = 1
    BY <1>3, ExecuteCommit
  <2> HIDE DEF cp, batch
  <2>2. cp.done = held[w].checkpoint.done + Len(batch)
    BY <2>1
  <2> QED BY <2>1, <2>2, CommitStep
<1> QED BY <1>1, <1>2, <1>3
-------------------------------------------------------------------------------
LEMMA WorkerInvStep == WorkerInv /\ [Next]_vars => WorkerInv'
<1> SUFFICES ASSUME WorkerInv, [Next]_vars PROVE WorkerInv'
  OBVIOUS
<1>1. ASSUME NEW w \in Worker, Work(w) PROVE WorkerInv'
  BY <1>1, QuitSteps, RestoreStep, ActStep, CommitSteps DEF Work
<1>2. ASSUME NEW w \in Worker, Fail(w) \/ Crash(w) PROVE WorkerInv'
  BY <1>2, QuitSteps
<1>3. ASSUME NEW w \in Worker, NEW e \in Episode, Claim(w, e) PROVE WorkerInv'
  BY <1>3, ClaimStep
<1>4. ASSUME NEW e \in Episode, ExpireLease(e) \/ \E done \in 1..Batches : Corrupt(e, done)
      PROVE  WorkerInv'
  BY <1>4, WearSteps
<1>5. CASE UNCHANGED vars
  <2>1. UNCHANGED <<episodes, events, runStatus, pc, held>>
    BY <1>5 DEF vars
  <2>2. /\ TypeOK' <=> TypeOK
        /\ TokensSound' <=> TokensSound
        /\ StageSound' <=> StageSound
        /\ RowsSound' <=> RowsSound
        /\ CheckpointTellsEvents' <=> CheckpointTellsEvents
        /\ SummaryIsFinal' <=> SummaryIsFinal
    BY <2>1 DEF TypeOK, TokensSound, StageSound, RowsSound, CheckpointTellsEvents, SummaryIsFinal, Busy, Mine
  <2>3. OwnersSound' <=> OwnersSound
    BY <2>1 DEF OwnersSound, Owner, Owns, CopyTrue, Busy, Mine
  <2> QED BY <2>2, <2>3 DEF WorkerInv
<1> QED BY <1>1, <1>2, <1>3, <1>4, <1>5 DEF Next

LEMMA WorkerInvInit == Init => WorkerInv
<1> SUFFICES ASSUME Init PROVE WorkerInv
  OBVIOUS
<1>1. NoCheckpoint \in Checkpoint /\ Sane(NoCheckpoint) /\ NoCheckpoint.done = 0
  BY DEF NoCheckpoint, Checkpoint, Decision, Sane
<1>2. Queued \in EpisodeRow /\ Queued.checkpoint = NoCheckpoint /\ Queued.status = "queued"
  BY <1>1 DEF Queued, EpisodeRow
<1>3. \A e \in Episode : Nothing \in Held
  BY <1>1 DEF Nothing, Held
<1>4. Nothing.checkpoint = NoCheckpoint
  BY DEF Nothing
<1>5. <<>> \in Seq(Event) /\ Len(<<>>) = 0
  BY EmptySeq
<1>6. TypeOK
  <2>1. Nothing \in Held
    BY <1>3, RunAssumption
  <2>2. held \in [Worker -> Held]
    BY <2>1 DEF Init
  <2>3. pc \in [Worker -> WorkerState]
    BY DEF Init, WorkerState
  <2>4. episodes \in [Episode -> EpisodeRow]
    BY <1>2 DEF Init
  <2>5. events \in [Episode -> Seq(Event)]
    BY <1>5 DEF Init
  <2>6. runStatus \in {"queued", "completed"}
    BY DEF Init
  <2> QED BY <2>2, <2>3, <2>4, <2>5, <2>6 DEF TypeOK
<1>7. \A w \in Worker : pc[w] = "idle" /\ held[w] = Nothing
  BY DEF Init
<1>8. TokensSound /\ StageSound /\ OwnersSound
  BY <1>1, <1>4, <1>7 DEF TokensSound, StageSound, OwnersSound, Owner, Busy
<1>9. RowsSound /\ CheckpointTellsEvents /\ SummaryIsFinal
  BY <1>1, <1>2, <1>5 DEF Init, RowsSound, CheckpointTellsEvents, SummaryIsFinal
<1> QED BY <1>6, <1>8, <1>9 DEF WorkerInv
-------------------------------------------------------------------------------
LEMMA WorkerInvAlways == Spec => []WorkerInv
<1>1. Init => WorkerInv
  BY WorkerInvInit
<1>2. WorkerInv /\ [Next]_vars => WorkerInv'
  BY WorkerInvStep
<1> QED BY <1>1, <1>2, PTL DEF Spec

\* Whoever resumes from an undamaged checkpoint (worker.ts, runClaimed) carries on
\* exactly where the events end, and the summary of a run (finalizeRunIfDone) is
\* not written while an episode may still change.
THEOREM ProgressSurvives == Spec => [](CheckpointTellsEvents /\ SummaryIsFinal)
<1>1. WorkerInv => CheckpointTellsEvents /\ SummaryIsFinal
  BY DEF WorkerInv
<1> QED BY <1>1, WorkerInvAlways, PTL

\* The owner of an episode asks the agent, and pays for the answer, only when no
\* decision is on record (worker.ts, the write-ahead of the loop in runClaimed).
THEOREM AsksOnce == Spec => NeverReasks
<1>1. ASSUME WorkerInv, NEW w \in Worker, pc[w] = "act", Owns(w)
      PROVE  episodes[Mine(w)].checkpoint.pending = NoChoice
  <2>1. CopyTrue(w)
    BY <1>1 DEF WorkerInv, OwnersSound, Owner, Busy
  <2>2. Following(held[w].checkpoint) = "act"
    BY <1>1 DEF WorkerInv, StageSound
  <2>3. held[w].checkpoint.pending = NoChoice
    BY <2>2 DEF Following
  <2> QED BY <1>1, <2>1, <2>3 DEF CopyTrue
<1>2. WorkerInv => [\A w \in Worker : (pc[w] = "act" /\ pc'[w] = "log" /\ Owns(w)) =>
                       episodes[Mine(w)].checkpoint.pending = NoChoice]_vars
  BY <1>1
<1> QED BY <1>2, WorkerInvAlways, PTL DEF NeverReasks
-------------------------------------------------------------------------------
(* The workers implement the abstract episode *)

\* The decisions that a list of events carries out.
Choices(s) == [i \in 1..Len(s) |-> s[i].choice]

Shown(e) == IF Open(episodes[e]) THEN "open" ELSE episodes[e].status

\* The episode as LabEpisodes has it, one view of it for each of its variables.
ShownStatus == [e \in Episode |-> Shown(e)]
ShownLog == [e \in Episode |-> Choices(events[e])]
ShownDecision == [e \in Episode |-> episodes[e].checkpoint.pending]

LEMMA ChoicesOf ==
  ASSUME NEW s \in Seq(Event)
  PROVE  Choices(s) \in Seq(Decision) /\ Len(Choices(s)) = Len(s)
<1>1. Len(s) \in Nat /\ s \in [1..Len(s) -> Event]
  BY LenProperties
<1>2. Choices(s) \in [1..Len(s) -> Decision]
  BY <1>1 DEF Choices, Event
<1>3. Choices(s) \in Seq(Decision)
  BY <1>1, <1>2, SeqDef
<1>4. DOMAIN Choices(s) = 1..Len(s) /\ DOMAIN Choices(s) = 1..Len(Choices(s)) /\ Len(Choices(s)) \in Nat
  BY <1>3, LenProperties DEF Choices
<1> QED BY <1>1, <1>3, <1>4

\* A batch adds the decision it carries out.
LEMMA ChoicesGrow ==
  ASSUME NEW s \in Seq(Event), NEW x \in Event, NEW d \in Decision, x.choice = d
  PROVE  Choices(s \o <<x>>) = Append(Choices(s), d)
<1> DEFINE t == s \o <<x>>
           a == Choices(t)
           b == Append(Choices(s), d)
<1>1. <<x>> \in Seq(Event) /\ Len(<<x>>) = 1 /\ <<x>>[1] = x
  OBVIOUS
<1>2. /\ t \in Seq(Event) /\ Len(t) = Len(s) + 1 /\ Len(s) \in Nat
      /\ \A i \in 1..Len(s) : t[i] = s[i]
      /\ t[Len(s) + 1] = x
  <2>1. /\ t \in Seq(Event) /\ Len(t) = Len(s) + Len(<<x>>) /\ Len(s) \in Nat
        /\ \A i \in 1..Len(s) + Len(<<x>>) : t[i] = IF i <= Len(s) THEN s[i] ELSE <<x>>[i - Len(s)]
    BY <1>1, ConcatProperties, LenProperties
  <2> HIDE DEF t
  <2>2. \A i \in 1..Len(s) : t[i] = s[i]
    BY <1>1, <2>1
  <2>3. t[Len(s) + 1] = <<x>>[(Len(s) + 1) - Len(s)]
    BY <1>1, <2>1
  <2>4. (Len(s) + 1) - Len(s) = 1
    BY <2>1
  <2> QED BY <1>1, <2>1, <2>2, <2>3, <2>4
<1> HIDE DEF t
<1>3. Choices(s) \in Seq(Decision) /\ Len(Choices(s)) = Len(s)
  BY ChoicesOf
<1>4. a \in Seq(Decision) /\ Len(a) = Len(s) + 1
  BY <1>2, ChoicesOf
<1>5. /\ b \in Seq(Decision) /\ Len(b) = Len(s) + 1 /\ b[Len(s) + 1] = d
      /\ \A i \in 1..Len(s) : b[i] = Choices(s)[i]
  BY <1>3, AppendProperties
<1>6. \A i \in 1..Len(s) : a[i] = b[i]
  <2> SUFFICES ASSUME NEW i \in 1..Len(s) PROVE a[i] = b[i]
    OBVIOUS
  <2>1. b[i] = s[i].choice
    BY <1>5 DEF Choices
  <2>2. a[i] = t[i].choice
    BY <1>2 DEF Choices
  <2> QED BY <1>2, <2>1, <2>2
<1>7. a[Len(s) + 1] = d
  BY <1>2 DEF Choices
<1> HIDE DEF a, b
<1>8. \A i \in 1..Len(a) : a[i] = b[i]
  BY <1>2, <1>4, <1>5, <1>6, <1>7
<1>9. a = b
  BY <1>4, <1>5, <1>8, SeqEqual
<1> QED BY <1>9 DEF a, b, t

\* The abstract episode's variables are these three views.
LEMMA Views ==
  /\ Promise!vars = <<ShownStatus, ShownLog, ShownDecision>>
  /\ Promise!vars' = <<ShownStatus', ShownLog', ShownDecision'>>
BY DEF Promise!vars, ShownStatus, ShownLog, ShownDecision, Shown, Choices

\* Each step of the abstract episode, read on the views.
LEMMA Actions ==
  ASSUME NEW e \in Episode, ShownStatus[e] = "open"
  PROVE  /\ /\ ShownLog[e] = <<>> /\ ShownLog' = [ShownLog EXCEPT ![e] = <<NoChoice>>]
            /\ ShownStatus' = ShownStatus /\ ShownDecision' = ShownDecision
            => Promise!Reset(e)
         /\ \A c \in Choice :
              /\ ShownLog[e] # <<>> /\ Len(ShownLog[e]) < Batches /\ ShownDecision[e] = NoChoice
              /\ ShownDecision' = [ShownDecision EXCEPT ![e] = c]
              /\ ShownStatus' = ShownStatus /\ ShownLog' = ShownLog
              => Promise!Decide(e, c)
         /\ /\ ShownDecision[e] # NoChoice
            /\ ShownLog' = [ShownLog EXCEPT ![e] = Append(ShownLog[e], ShownDecision[e])]
            /\ ShownDecision' = [ShownDecision EXCEPT ![e] = NoChoice]
            /\ ShownStatus' = ShownStatus
            => Promise!CarryOut(e)
         /\ /\ Len(ShownLog[e]) = Batches
            /\ ShownStatus' = [ShownStatus EXCEPT ![e] = "completed"]
            /\ ShownLog' = ShownLog /\ ShownDecision' = ShownDecision
            => Promise!Complete(e)
         /\ /\ ShownStatus' = [ShownStatus EXCEPT ![e] = "quarantined"]
            /\ ShownLog' = ShownLog /\ ShownDecision' = ShownDecision
            => Promise!GiveUp(e)
<1>1. /\ ShownLog[e] = <<>> /\ ShownLog' = [ShownLog EXCEPT ![e] = <<NoChoice>>]
      /\ ShownStatus' = ShownStatus /\ ShownDecision' = ShownDecision
      => Promise!Reset(e)
  BY DEF Promise!Reset, ShownStatus, ShownLog, ShownDecision, Shown, Choices
<1>2. ASSUME NEW c \in Choice,
             ShownLog[e] # <<>>, Len(ShownLog[e]) < Batches, ShownDecision[e] = NoChoice,
             ShownDecision' = [ShownDecision EXCEPT ![e] = c],
             ShownStatus' = ShownStatus, ShownLog' = ShownLog
      PROVE  Promise!Decide(e, c)
  BY <1>2 DEF Promise!Decide, ShownStatus, ShownLog, ShownDecision, Shown, Choices
<1>3. /\ ShownDecision[e] # NoChoice
      /\ ShownLog' = [ShownLog EXCEPT ![e] = Append(ShownLog[e], ShownDecision[e])]
      /\ ShownDecision' = [ShownDecision EXCEPT ![e] = NoChoice]
      /\ ShownStatus' = ShownStatus
      => Promise!CarryOut(e)
  BY DEF Promise!CarryOut, ShownStatus, ShownLog, ShownDecision, Shown, Choices
<1>4. /\ Len(ShownLog[e]) = Batches
      /\ ShownStatus' = [ShownStatus EXCEPT ![e] = "completed"]
      /\ ShownLog' = ShownLog /\ ShownDecision' = ShownDecision
      => Promise!Complete(e)
  BY DEF Promise!Complete, ShownStatus, ShownLog, ShownDecision, Shown, Choices
<1>5. /\ ShownStatus' = [ShownStatus EXCEPT ![e] = "quarantined"]
      /\ ShownLog' = ShownLog /\ ShownDecision' = ShownDecision
      => Promise!GiveUp(e)
  BY DEF Promise!GiveUp, ShownStatus, ShownLog, ShownDecision, Shown, Choices
<1> QED BY <1>1, <1>2, <1>3, <1>4, <1>5

\* A step that nobody sees in the episodes.
LEMMA Unseen ==
  ASSUME events' = events, NEW f \in Episode,
         \A e \in Episode : /\ Shown(e)' = Shown(e)
                            /\ episodes'[e].checkpoint.pending = episodes[e].checkpoint.pending
  PROVE  UNCHANGED Promise!vars
<1>1. ShownStatus' = ShownStatus /\ ShownLog' = ShownLog /\ ShownDecision' = ShownDecision
  BY DEF ShownStatus, ShownLog, ShownDecision
<1> QED BY <1>1, Views

\* An episode whose row is open or ends, and nothing else of it changes.
LEMMA EndShown ==
  ASSUME events' = events, NEW e \in Episode, Open(episodes[e]),
         NEW s \in {"completed", "quarantined"}, episodes'[e].status = s,
         \A f \in Episode \ {e} : Shown(f)' = Shown(f),
         \A f \in Episode : episodes'[f].checkpoint.pending = episodes[f].checkpoint.pending
  PROVE  /\ ShownStatus[e] = "open" /\ ShownStatus' = [ShownStatus EXCEPT ![e] = s]
         /\ ShownLog' = ShownLog /\ ShownDecision' = ShownDecision
<1>1. Shown(e) = "open" /\ Shown(e)' = s
  BY DEF Shown, Open
<1> QED BY <1>1 DEF ShownStatus, ShownLog, ShownDecision

\* What the owner's commit shows of its episode.
LEMMA CommitShown ==
  ASSUME WorkerInv, NEW w \in Worker, NEW from \in {"reset", "log", "execute"},
         NEW batch \in Seq(Event), NEW cp \in Checkpoint, Commit(w, from, batch, cp)
  PROVE  LET e == Mine(w)
             c == held[w].checkpoint
         IN /\ e \in Episode /\ ShownStatus[e] = "open" /\ ShownStatus' = ShownStatus
            /\ ShownLog[e] = Choices(events[e]) /\ Len(ShownLog[e]) = c.done
            /\ ShownLog' = [ShownLog EXCEPT ![e] = Choices(events[e] \o batch)]
            /\ ShownDecision[e] = IF from = "log" THEN NoChoice ELSE c.pending
            /\ ShownDecision' = [ShownDecision EXCEPT ![e] = cp.pending]
<1> DEFINE e == Mine(w)
           c == held[w].checkpoint
           new == [cp EXCEPT !.intact = TRUE]
<1>1. /\ Owns(w) /\ pc[w] = from
      /\ events' = [events EXCEPT ![e] = events[e] \o batch]
      /\ episodes' = [episodes EXCEPT ![e] = [episodes[e] EXCEPT !.checkpoint = new, !.leased = TRUE]]
  <2>1. /\ Owns(w) /\ pc[w] = from
        /\ events' = [events EXCEPT ![e] = events[e] \o batch]
        /\ episodes' = [episodes EXCEPT ![e].checkpoint = new, ![e].leased = TRUE]
    BY DEF Commit, Goto
  <2>2. episodes \in [Episode -> EpisodeRow] /\ e \in Episode
    BY Fields DEF WorkerInv, TypeOK
  <2> HIDE DEF new
  <2> QED BY <2>1, <2>2
<1>2. /\ e \in Episode /\ episodes[e] \in EpisodeRow /\ events[e] \in Seq(Event) /\ new \in Checkpoint
      /\ episodes \in [Episode -> EpisodeRow] /\ events \in [Episode -> Seq(Event)]
  <2>1. TypeOK
    BY DEF WorkerInv
  <2>2. new \in Checkpoint
    BY DEF Checkpoint
  <2> QED BY <2>1, <2>2, Fields DEF TypeOK
<1>3. new.pending = cp.pending
  BY <1>2 DEF Checkpoint
<1>4. /\ c.done = Len(events[e]) /\ episodes[e].status = "running"
      /\ episodes[e].checkpoint.pending = IF from = "log" THEN NoChoice ELSE c.pending
  <2>1. CopyTrue(w)
    BY <1>1 DEF WorkerInv, OwnersSound, Owner, Busy
  <2> QED BY <1>1, <2>1 DEF CopyTrue
<1> HIDE DEF e, c, new
<1>5. /\ episodes'[e].status = episodes[e].status /\ episodes'[e].checkpoint = new
      /\ \A f \in Episode \ {e} : episodes'[f] = episodes[f]
  <2>1. episodes'[e] = [episodes[e] EXCEPT !.checkpoint = new, !.leased = TRUE]
    BY <1>1, <1>2
  <2>2. episodes'[e].status = episodes[e].status /\ episodes'[e].checkpoint = new
    BY <1>2, <2>1 DEF EpisodeRow
  <2> QED BY <1>1, <1>2, <2>2
<1>6. ShownStatus[e] = "open" /\ ShownStatus' = ShownStatus
  BY <1>2, <1>4, <1>5 DEF ShownStatus, Shown, Open
<1>7. ShownLog[e] = Choices(events[e]) /\ Len(ShownLog[e]) = c.done
  BY <1>2, <1>4, ChoicesOf DEF ShownLog
<1>8. ShownLog' = [ShownLog EXCEPT ![e] = Choices(events[e] \o batch)]
  BY <1>1, <1>2 DEF ShownLog
<1>9. ShownDecision[e] = IF from = "log" THEN NoChoice ELSE c.pending
  BY <1>2, <1>4 DEF ShownDecision
<1>10. ShownDecision' = [ShownDecision EXCEPT ![e] = cp.pending]
  BY <1>2, <1>3, <1>5 DEF ShownDecision
<1> QED BY <1>2, <1>6, <1>7, <1>8, <1>9, <1>10 DEF e, c

\* The owner's commits are the steps of the abstract episode's list.
LEMMA CommitsRefine ==
  ASSUME WorkerInv, NEW w \in Worker, Reset(w) \/ Log(w) \/ Execute(w)
  PROVE  Promise!Next
<1> DEFINE e == Mine(w)
           c == held[w].checkpoint
<1>0. /\ c \in Checkpoint /\ c.pending \in Decision /\ c.done \in 0..Batches
      /\ held[w] \in Held /\ events[e] \in Seq(Event) /\ NoChoice \in Decision
  BY Fields, CheckpointFields DEF WorkerInv, Decision
<1>e. \A d \in Decision : [choice |-> d, attempt |-> held[w].attempt] \in Event
  BY <1>0 DEF Event, Held
<1>1. ASSUME Reset(w) PROVE Promise!Next
  <2> DEFINE cp == [NoCheckpoint EXCEPT !.done = 1]
             x == [choice |-> NoChoice, attempt |-> held[w].attempt]
             batch == <<x>>
  <2>1. /\ Commit(w, "reset", batch, cp) /\ batch \in Seq(Event) /\ cp \in Checkpoint
        /\ cp.pending = NoChoice /\ c.done = 0
    BY <1>1, ResetCommit DEF Batch
  <2>2. x \in Event /\ x.choice = NoChoice
    BY <1>0, <1>e
  <2> HIDE DEF cp, x, batch
  <2>3. /\ e \in Episode /\ ShownStatus[e] = "open" /\ ShownStatus' = ShownStatus
        /\ ShownLog[e] = Choices(events[e]) /\ Len(ShownLog[e]) = c.done
        /\ ShownLog' = [ShownLog EXCEPT ![e] = Choices(events[e] \o batch)]
        /\ ShownDecision[e] = c.pending
        /\ ShownDecision' = [ShownDecision EXCEPT ![e] = cp.pending]
    <3>1. "reset" \in {"reset", "log", "execute"}
      OBVIOUS
    <3> QED BY <2>1, <3>1, CommitShown
  <2> HIDE DEF e, c
  <2>4. ShownLog[e] \in Seq(Decision)
    BY <1>0, <2>3, ChoicesOf
  <2>5. ShownLog[e] = <<>>
    BY <2>1, <2>3, <2>4, EmptySeq
  <2>6. ShownLog' = [ShownLog EXCEPT ![e] = <<NoChoice>>]
    <3>1. Choices(events[e] \o batch) = Append(Choices(events[e]), NoChoice)
      BY <1>0, <2>2, ChoicesGrow DEF batch
    <3>2. Append(<<>>, NoChoice) = <<NoChoice>>
      OBVIOUS
    <3> QED BY <2>3, <2>5, <3>1, <3>2
  <2>7. c.pending = NoChoice
    <3>1. pc[w] = "reset"
      BY <2>1 DEF Commit, Goto
    <3> QED BY <2>1, <3>1 DEF WorkerInv, StageSound, Sane, c
  <2>8. ShownDecision' = ShownDecision
    BY <2>1, <2>3, <2>7 DEF ShownDecision
  <2> QED BY <2>3, <2>5, <2>6, <2>8, Actions DEF Promise!Next
<1>2. ASSUME Log(w) PROVE Promise!Next
  <2>1. /\ Commit(w, "log", <<>>, c) /\ <<>> \in Seq(Event) /\ c \in Checkpoint
        /\ c.done \in 1..(Batches - 1) /\ c.pending \in Choice
    BY <1>2, LogCommit
  <2>2. /\ e \in Episode /\ ShownStatus[e] = "open" /\ ShownStatus' = ShownStatus
        /\ ShownLog[e] = Choices(events[e]) /\ Len(ShownLog[e]) = c.done
        /\ ShownLog' = [ShownLog EXCEPT ![e] = Choices(events[e] \o <<>>)]
        /\ ShownDecision[e] = NoChoice
        /\ ShownDecision' = [ShownDecision EXCEPT ![e] = c.pending]
    BY <2>1, CommitShown
  <2> HIDE DEF e, c
  <2>3. ShownLog' = ShownLog
    <3>1. events[e] \o <<>> = events[e]
      BY <1>0, ConcatEmptySeq
    <3> QED BY <2>2, <3>1 DEF ShownLog
  <2>4. ShownLog[e] # <<>> /\ Len(ShownLog[e]) < Batches
    <3>1. Len(<<>>) = 0
      OBVIOUS
    <3> QED BY <2>1, <2>2, <3>1
  <2> QED BY <2>1, <2>2, <2>3, <2>4, Actions DEF Promise!Next
<1>3. ASSUME Execute(w) PROVE Promise!Next
  <2> DEFINE cp == Executed(c)
             x == [choice |-> c.pending, attempt |-> held[w].attempt]
             batch == <<x>>
  <2>1. /\ Commit(w, "execute", batch, cp) /\ batch \in Seq(Event) /\ cp \in Checkpoint
        /\ cp.pending = NoChoice /\ c.pending \in Choice
    BY <1>3, ExecuteCommit DEF Batch
  <2>2. x \in Event /\ x.choice = c.pending
    BY <1>0, <1>e
  <2> HIDE DEF cp, x, batch
  <2>3. /\ e \in Episode /\ ShownStatus[e] = "open" /\ ShownStatus' = ShownStatus
        /\ ShownLog[e] = Choices(events[e])
        /\ ShownLog' = [ShownLog EXCEPT ![e] = Choices(events[e] \o batch)]
        /\ ShownDecision[e] = c.pending
        /\ ShownDecision' = [ShownDecision EXCEPT ![e] = cp.pending]
    <3>1. "execute" \in {"reset", "log", "execute"}
      OBVIOUS
    <3> QED BY <2>1, <3>1, CommitShown
  <2> HIDE DEF e, c
  <2>4. Choices(events[e] \o batch) = Append(Choices(events[e]), c.pending)
    BY <1>0, <2>2, ChoicesGrow DEF batch
  <2>5. ShownLog' = [ShownLog EXCEPT ![e] = Append(ShownLog[e], ShownDecision[e])]
    BY <2>3, <2>4
  <2>6. ShownDecision[e] # NoChoice /\ ShownDecision' = [ShownDecision EXCEPT ![e] = NoChoice]
    BY <2>1, <2>3, ChoiceAssumption
  <2> QED BY <2>3, <2>5, <2>6, Actions DEF Promise!Next
<1> QED BY <1>1, <1>2, <1>3

LEMMA SeenBy ==
  ASSUME NEW e \in Episode, episodes'[e].status = episodes[e].status
  PROVE  Shown(e)' = Shown(e)
BY DEF Shown, Open

\* Only the owner of an episode ends it, and only once.
LEMMA EndsRefine ==
  ASSUME WorkerInv, NEW w \in Worker, GiveUp(w) \/ Refuse(w) \/ Complete(w)
  PROVE  [Promise!Next]_Promise!vars
<1> DEFINE e == Mine(w)
<1>0. TypeOK /\ e \in Episode /\ episodes[e] \in EpisodeRow /\ episodes \in [Episode -> EpisodeRow]
      /\ events[e] \in Seq(Event)
  BY Fields DEF WorkerInv, TypeOK
<1>1. ASSUME Owns(w), pc[w] \in {"giveup", "load", "complete"} PROVE Open(episodes[e])
  <2>1. CopyTrue(w)
    BY <1>1 DEF WorkerInv, OwnersSound, Owner, Busy
  <2> QED BY <1>1, <2>1 DEF CopyTrue, Open
<1>2. ASSUME GiveUp(w) \/ Refuse(w) PROVE [Promise!Next]_Promise!vars
  <2>1. Quarantine(w) /\ events' = events /\ pc[w] \in {"giveup", "load"}
    BY <1>2 DEF GiveUp, Refuse, End, Goto
  <2>2. CASE ~Owns(w)
    <3>1. episodes' = episodes
      BY <2>1, <2>2 DEF Quarantine
    <3> QED BY <1>0, <2>1, <3>1, SeenBy, Unseen
  <2>3. CASE Owns(w)
    <3>1. episodes' = [episodes EXCEPT ![e] = [episodes[e] EXCEPT !.status = "quarantined"]]
      BY <1>0, <2>1, <2>3 DEF Quarantine
    <3> DEFINE row == [episodes[e] EXCEPT !.status = "quarantined"]
    <3>2. row.status = "quarantined" /\ row.checkpoint = episodes[e].checkpoint
      BY <1>0 DEF EpisodeRow
    <3> HIDE DEF row
    <3>3. episodes'[e] = row /\ \A f \in Episode \ {e} : episodes'[f] = episodes[f]
      BY <1>0, <3>1 DEF row
    <3>4. \A f \in Episode \ {e} : Shown(f)' = Shown(f)
      BY <3>3, SeenBy
    <3>5. \A f \in Episode : episodes'[f].checkpoint.pending = episodes[f].checkpoint.pending
      BY <3>2, <3>3
    <3>6. episodes'[e].status = "quarantined" /\ Open(episodes[e])
      BY <1>1, <2>1, <2>3, <3>2, <3>3
    <3> HIDE DEF e
    <3>7. /\ ShownStatus[e] = "open" /\ ShownStatus' = [ShownStatus EXCEPT ![e] = "quarantined"]
          /\ ShownLog' = ShownLog /\ ShownDecision' = ShownDecision
      BY <1>0, <2>1, <3>4, <3>5, <3>6, EndShown
    <3> QED BY <1>0, <3>7, Actions DEF Promise!Next
  <2> QED BY <2>2, <2>3
<1>3. ASSUME Complete(w) PROVE [Promise!Next]_Promise!vars
  <2>1. /\ Owns(w) /\ pc[w] = "complete" /\ events' = events
        /\ episodes' = [episodes EXCEPT ![e].status = "completed", ![e].leased = FALSE]
    BY <1>3 DEF Complete, Goto
  <2> DEFINE row == [episodes[e] EXCEPT !.status = "completed", !.leased = FALSE]
  <2>2. episodes' = [episodes EXCEPT ![e] = row]
    BY <1>0, <2>1
  <2>3. row.status = "completed" /\ row.checkpoint = episodes[e].checkpoint
    BY <1>0 DEF EpisodeRow
  <2> HIDE DEF row
  <2>4. episodes'[e] = row /\ \A f \in Episode \ {e} : episodes'[f] = episodes[f]
    BY <1>0, <2>2
  <2>5. \A f \in Episode \ {e} : Shown(f)' = Shown(f)
    BY <2>4, SeenBy
  <2>6. \A f \in Episode : episodes'[f].checkpoint.pending = episodes[f].checkpoint.pending
    BY <2>3, <2>4
  <2>7. episodes'[e].status = "completed" /\ Open(episodes[e])
    BY <1>1, <2>1, <2>3, <2>4
  <2>8. Len(events[e]) = Batches
    <3>1. CopyTrue(w)
      BY <2>1 DEF WorkerInv, OwnersSound, Owner, Busy
    <3>2. Following(held[w].checkpoint) = "complete"
      BY <2>1 DEF WorkerInv, StageSound
    <3> QED BY <2>1, <3>1, <3>2 DEF CopyTrue, Following
  <2>9. Len(ShownLog[e]) = Batches
    BY <1>0, <2>8, ChoicesOf DEF ShownLog
  <2> HIDE DEF e
  <2>10. /\ ShownStatus[e] = "open" /\ ShownStatus' = [ShownStatus EXCEPT ![e] = "completed"]
         /\ ShownLog' = ShownLog /\ ShownDecision' = ShownDecision
    BY <1>0, <2>1, <2>5, <2>6, <2>7, EndShown
  <2> QED BY <1>0, <2>9, <2>10, Actions DEF Promise!Next
<1> QED BY <1>2, <1>3

\* Claims, leases, failures and what happens in a worker's memory do not show.
LEMMA HiddenRefine ==
  ASSUME WorkerInv, NEW f \in Episode,
         \/ \E w \in Worker :
              \/ Restore(w) \/ LoseLease(w) \/ Finalize(w) \/ Release(w) \/ Fail(w) \/ Crash(w)
              \/ \E c \in Choice : Act(w, c)
              \/ \E e \in Episode : Claim(w, e)
         \/ \E e \in Episode : ExpireLease(e) \/ \E done \in 1..Batches : Corrupt(e, done)
  PROVE  UNCHANGED Promise!vars
<1>0. TypeOK /\ episodes \in [Episode -> EpisodeRow] /\ \A e \in Episode : episodes[e] \in EpisodeRow
  BY Fields DEF WorkerInv, TypeOK
<1>1. ASSUME events' = events, episodes' = episodes PROVE UNCHANGED Promise!vars
  BY <1>1, SeenBy, Unseen
<1>2. ASSUME events' = events, NEW e \in Episode, NEW b \in BOOLEAN,
             episodes' = [episodes EXCEPT ![e].leased = b]
      PROVE  UNCHANGED Promise!vars
  <2> DEFINE row == [episodes[e] EXCEPT !.leased = b]
  <2>1. row.status = episodes[e].status /\ row.checkpoint = episodes[e].checkpoint
    BY <1>0 DEF EpisodeRow
  <2>2. episodes' = [episodes EXCEPT ![e] = row]
    BY <1>2
  <2> HIDE DEF row
  <2>3. \A g \in Episode : /\ episodes'[g].status = episodes[g].status
                           /\ episodes'[g].checkpoint = episodes[g].checkpoint
    BY <1>0, <2>1, <2>2
  <2> QED BY <1>2, <2>3, SeenBy, Unseen
<1>3. ASSUME NEW w \in Worker, NEW e \in Episode, Claim(w, e) PROVE UNCHANGED Promise!vars
  <2> DEFINE row == Claimed(episodes[e])
  <2>1. /\ events' = events /\ Claimable(episodes[e]) /\ episodes' = [episodes EXCEPT ![e] = row]
    BY <1>3 DEF Claim
  <2>2. row.status = "running" /\ row.checkpoint = episodes[e].checkpoint
    BY <1>0 DEF Claimed, EpisodeRow
  <2> HIDE DEF row
  <2>3. episodes'[e] = row /\ \A g \in Episode \ {e} : episodes'[g] = episodes[g]
    BY <1>0, <2>1
  <2>4. Shown(e)' = Shown(e)
    BY <2>1, <2>2, <2>3 DEF Shown, Open, Claimable
  <2>5. \A g \in Episode : Shown(g)' = Shown(g)
    BY <2>3, <2>4, SeenBy
  <2>6. \A g \in Episode : episodes'[g].checkpoint.pending = episodes[g].checkpoint.pending
    BY <2>2, <2>3
  <2> QED BY <2>1, <2>5, <2>6, Unseen
<1>4. ASSUME NEW e \in Episode, NEW done \in 1..Batches, Corrupt(e, done) PROVE UNCHANGED Promise!vars
  <2> DEFINE c == episodes[e].checkpoint
             new == [c EXCEPT !.done = done, !.intact = FALSE]
             row == [episodes[e] EXCEPT !.checkpoint = new]
  <2>1. /\ events' = events
        /\ episodes' = [episodes EXCEPT ![e].checkpoint.done = done, ![e].checkpoint.intact = FALSE]
    BY <1>4 DEF Corrupt
  <2>2. episodes' = [episodes EXCEPT ![e] = row]
    BY <1>0, <2>1 DEF EpisodeRow
  <2>3. c \in Checkpoint
    BY <1>0, Fields
  <2>4. new.pending = c.pending
    <3> HIDE DEF c
    <3> QED BY <2>3 DEF Checkpoint
  <2> HIDE DEF new
  <2>5. row.status = episodes[e].status /\ row.checkpoint = new
    BY <1>0 DEF EpisodeRow
  <2> HIDE DEF row
  <2>6. episodes'[e] = row /\ \A g \in Episode \ {e} : episodes'[g] = episodes[g]
    BY <1>0, <2>2
  <2>7. \A g \in Episode : /\ episodes'[g].status = episodes[g].status
                           /\ episodes'[g].checkpoint.pending = episodes[g].checkpoint.pending
    BY <2>4, <2>5, <2>6
  <2> QED BY <2>1, <2>7, SeenBy, Unseen
<1>5. ASSUME NEW w \in Worker, Release(w) PROVE UNCHANGED Promise!vars
  <2>1. /\ events' = events /\ Mine(w) \in Episode
        /\ episodes' = episodes \/ episodes' = [episodes EXCEPT ![Mine(w)].leased = FALSE]
    BY <1>0, <1>5, Fields DEF Release
  <2> QED BY <1>1, <1>2, <2>1
<1>6. ASSUME NEW e \in Episode, ExpireLease(e) PROVE UNCHANGED Promise!vars
  BY <1>2, <1>6 DEF ExpireLease
<1>7. ASSUME NEW w \in Worker,
             \/ Restore(w) \/ LoseLease(w) \/ Finalize(w) \/ Fail(w) \/ Crash(w)
             \/ \E c \in Choice : Act(w, c)
      PROVE  UNCHANGED Promise!vars
  BY <1>1, <1>7 DEF Restore, LoseLease, Finalize, Fail, Crash, Act
<1> QED BY <1>3, <1>4, <1>5, <1>6, <1>7

LEMMA RefinementStep == WorkerInv /\ [Next]_vars => [Promise!Next]_Promise!vars
<1> SUFFICES ASSUME WorkerInv, [Next]_vars PROVE [Promise!Next]_Promise!vars
  OBVIOUS
<1>1. CASE UNCHANGED vars
  <2>1. episodes' = episodes /\ events' = events
    BY <1>1 DEF vars
  <2> QED BY <2>1, RunAssumption, SeenBy, Unseen
<1>2. CASE Next
  BY <1>2, RunAssumption, CommitsRefine, EndsRefine, HiddenRefine DEF Next, Work
<1> QED BY <1>1, <1>2

LEMMA RefinementInit == Init => Promise!Init
<1> SUFFICES ASSUME Init PROVE Promise!Init
  OBVIOUS
<1>1. \A e \in Episode : /\ episodes[e] = Queued /\ events[e] = <<>>
  BY DEF Init
<1>2. Queued.status = "queued" /\ Queued.checkpoint.pending = NoChoice
  BY DEF Queued, NoCheckpoint
<1>3. Choices(<<>>) = <<>>
  <2>1. Choices(<<>>) \in Seq(Decision) /\ Len(Choices(<<>>)) = 0
    BY ChoicesOf, EmptySeq
  <2> QED BY <2>1, EmptySeq
<1>4. /\ ShownStatus = [e \in Episode |-> "open"]
      /\ ShownLog = [e \in Episode |-> <<>>]
      /\ ShownDecision = [e \in Episode |-> NoChoice]
  BY <1>1, <1>2, <1>3 DEF ShownStatus, ShownLog, ShownDecision, Shown, Open
<1> QED BY <1>4 DEF Promise!Init, ShownStatus, ShownLog, ShownDecision, Shown, Choices

\* However many workers play an episode, whichever of them lose their lease or die,
\* it is one list of batches with one decision each, and its end is final.
THEOREM WorkersKeepThePromise == Spec => ImplementsEpisodes
<1> QED BY RefinementInit, RefinementStep, WorkerInvAlways, PTL DEF Spec, ImplementsEpisodes, Promise!Spec
-------------------------------------------------------------------------------
(* The whole Lab: what holds of the workers holds beside the other two parts *)

LEMMA LabHasWorkers == LabSpec => Spec
<1>1. LabInit => Init
  BY DEF LabInit
<1>2. [LabNext]_labVars => [Next]_vars
  BY DEF LabNext, labVars, vars
<1> QED BY <1>1, <1>2, PTL DEF LabSpec, Spec

\* However many workers play an episode, whichever of them lose their lease or die,
\* it is one list of batches with one decision each whose end is final, and no
\* decision is asked, and paid, for twice.
THEOREM EpisodesArePlayedOnce == LabSpec => PlayedOnce
<1> QED BY LabHasWorkers, WorkersKeepThePromise, AsksOnce, PTL DEF PlayedOnce
-------------------------------------------------------------------------------
(* The review of a run's verdicts *)

RRow == Review!RunRow
RNoRun == Review!NoRun

\* Every case of the run is judged, or not of the run.
SettledRun(run) == run.status = "completed" /\ Review!AllCompleted(run.cases)

\* What the form has read of a run, its row only or its episodes as well, is so still.
RowRead(run, loaded) ==
  loaded.dataset = run.dataset /\ (loaded.complete => run.status = "completed")
CasesRead(run, loaded) ==
  loaded.dataset = run.dataset /\ (loaded.complete => SettledRun(run) /\ loaded.cases = run.cases)

\* What an approval asks of the two runs.
Approvable(base, cand) ==
  LET both == Review!Shared(base, cand) IN
  /\ SettledRun(base) /\ SettledRun(cand)
  /\ base.dataset = cand.dataset /\ both # {}
  /\ ~Review!HardViolation(cand) /\ Review!Passed(cand, both) >= Review!Passed(base, both)

\* What the form rv has read of the two runs is so of them still.
ReadSound(base, cand, rv) ==
  /\ base # RNoRun /\ cand # RNoRun
  /\ rv.at = "baseline episodes" => RowRead(base, rv.baseline)
  /\ rv.at \in {"candidate run", "candidate episodes", "gate"} => CasesRead(base, rv.baseline)
  /\ rv.at = "candidate episodes" => RowRead(cand, rv.candidate)
  /\ rv.at = "gate" => CasesRead(cand, rv.candidate)

FormSound(rv) == rv.at # "idle" => ReadSound(compared[rv.pair[1]], compared[rv.pair[2]], rv)

ReviewInv ==
  /\ Review!TypeOK
  /\ \A r \in Run : compared[r].status = "none" => compared[r] = RNoRun
  /\ FormSound(review)
  /\ \A d \in verdicts : d.decision = "approved" => Approvable(compared[d.pair[1]], compared[d.pair[2]])

\* How a run's row may change: begun once, its cases are judged once.
GoesOn(old, new) ==
  \/ new = old
  \/ old = RNoRun /\ new.status # "none"
  \/ /\ old.status # "none" /\ new.status # "none" /\ new.dataset = old.dataset
     /\ old.status = "completed" => new.status = "completed"
     /\ \A s \in Scenario : old.cases[s] # "open" => new.cases[s] = old.cases[s]

USE DEF RRow, RNoRun

LEMMA SettledStays ==
  ASSUME NEW a \in RRow, NEW b \in RRow, GoesOn(a, b), SettledRun(a)
  PROVE  SettledRun(b) /\ b.cases = a.cases /\ b.dataset = a.dataset
<1>1. CASE b = a
  BY <1>1
<1>2. CASE b # a
  <2>1. /\ b.status # "none" /\ b.dataset = a.dataset /\ b.status = "completed"
        /\ \A s \in Scenario : a.cases[s] # "open" => b.cases[s] = a.cases[s]
    BY <1>2 DEF GoesOn, SettledRun, Review!NoRun
  <2>2. \A s \in Scenario : b.cases[s] = a.cases[s]
    BY <2>1 DEF SettledRun, Review!AllCompleted
  <2>3. a.cases \in [Scenario -> Review!Case] /\ b.cases \in [Scenario -> Review!Case]
    BY DEF Review!RunRow
  <2>4. a.cases = b.cases
    BY <2>2, <2>3
  <2> QED BY <2>1, <2>4 DEF SettledRun
<1> QED BY <1>1, <1>2

LEMMA ApprovableStays ==
  ASSUME NEW a \in RRow, NEW b \in RRow, NEW c \in RRow, NEW d \in RRow,
         GoesOn(a, b), GoesOn(c, d), Approvable(a, c)
  PROVE  Approvable(b, d)
<1>1. SettledRun(a) /\ SettledRun(c)
  BY DEF Approvable
<1>2. SettledRun(b) /\ b.cases = a.cases /\ b.dataset = a.dataset
  BY <1>1, SettledStays
<1>3. SettledRun(d) /\ d.cases = c.cases /\ d.dataset = c.dataset
  BY <1>1, SettledStays
<1>4. Review!Shared(b, d) = Review!Shared(a, c)
  BY <1>2, <1>3 DEF Review!Shared
<1>5. \A S : Review!Passed(b, S) = Review!Passed(a, S) /\ Review!Passed(d, S) = Review!Passed(c, S)
  BY <1>2, <1>3 DEF Review!Passed
<1>6. Review!HardViolation(d) = Review!HardViolation(c)
  BY <1>3 DEF Review!HardViolation
<1> QED BY <1>2, <1>3, <1>4, <1>5, <1>6 DEF Approvable

\* A run that is begun stays begun, and what was read of it stays so.
LEMMA ReadStays ==
  ASSUME NEW a \in RRow, NEW b \in RRow, GoesOn(a, b), a # RNoRun, a.status = "none" => a = RNoRun, NEW l
  PROVE  /\ b # RNoRun
         /\ RowRead(a, l) => RowRead(b, l)
         /\ CasesRead(a, l) => CasesRead(b, l)
<1>1. CASE b = a
  BY <1>1
<1>2. CASE b # a
  <2>1. /\ b.status # "none" /\ b.dataset = a.dataset
        /\ a.status = "completed" => b.status = "completed"
    BY <1>2 DEF GoesOn
  <2>2. b # RNoRun
    BY <2>1 DEF Review!NoRun
  <2>3. RowRead(a, l) => RowRead(b, l)
    BY <2>1 DEF RowRead
  <2>4. CasesRead(a, l) => CasesRead(b, l)
    BY <2>1, SettledStays DEF CasesRead
  <2> QED BY <2>2, <2>3, <2>4
<1> QED BY <1>1, <1>2

LEMMA PassedIsNumber ==
  ASSUME NEW a, NEW b, NEW l
  PROVE  Review!Passed(l, Review!Shared(a, b)) \in Nat
<1> DEFINE both == Review!Shared(a, b)
           passed == {s \in both : l.cases[s] = "pass"}
<1>1. passed \subseteq Scenario
  BY DEF Review!Shared
<1>2. IsFiniteSet(passed)
  BY <1>1, EpisodeAssumption, FS_Subset
<1>3. Review!Passed(l, both) = Cardinality(passed)
  BY DEF Review!Passed, Review!Cardinality, Cardinality
<1> QED BY <1>2, <1>3, FS_CardinalityType

\* The rule has one of three answers.
LEMMA GateTold ==
  ASSUME NEW lb \in Review!Loaded, NEW lc \in Review!Loaded
  PROVE  Review!ReleaseGate(lb, lc) \in {"PASS", "FAIL", "BLOCKED"}
<1> DEFINE both == Review!Shared(lb, lc)
<1>1. Review!Passed(lb, both) \in Nat /\ Review!Passed(lc, both) \in Nat
  BY PassedIsNumber
<1> HIDE DEF both
<1>2. Review!Passed(lc, both) < Review!Passed(lb, both) \/ Review!Passed(lc, both) >= Review!Passed(lb, both)
  BY <1>1
<1>3. Review!HardViolation(lc) \in BOOLEAN
  BY DEF Review!HardViolation
<1> QED BY <1>2, <1>3 DEF Review!ReleaseGate, both

LEMMA ReadSoundStays ==
  ASSUME NEW a \in RRow, NEW b \in RRow, GoesOn(a, b), a.status = "none" => a = RNoRun,
         NEW c \in RRow, NEW d \in RRow, GoesOn(c, d), c.status = "none" => c = RNoRun,
         NEW rv, ReadSound(a, c, rv)
  PROVE  ReadSound(b, d, rv)
<1>1. a # RNoRun /\ c # RNoRun
  BY DEF ReadSound
<1>2. /\ b # RNoRun
      /\ RowRead(a, rv.baseline) => RowRead(b, rv.baseline)
      /\ CasesRead(a, rv.baseline) => CasesRead(b, rv.baseline)
  BY <1>1, ReadStays
<1>3. /\ d # RNoRun
      /\ RowRead(c, rv.candidate) => RowRead(d, rv.candidate)
      /\ CasesRead(c, rv.candidate) => CasesRead(d, rv.candidate)
  BY <1>1, ReadStays
<1> QED BY <1>2, <1>3 DEF ReadSound

\* The gate passes only what may be approved.
LEMMA PassMeansApprovable ==
  ASSUME NEW base \in RRow, NEW cand \in RRow, NEW lb \in Review!Loaded, NEW lc \in Review!Loaded,
         CasesRead(base, lb), CasesRead(cand, lc), Review!ReleaseGate(lb, lc) = "PASS"
  PROVE  Approvable(base, cand)
<1> DEFINE both == Review!Shared(lb, lc)
<1>2. Review!Passed(lb, both) \in Nat /\ Review!Passed(lc, both) \in Nat
  BY PassedIsNumber
<1>3. /\ ~Review!HardViolation(lc) /\ Review!Passed(lc, both) >= Review!Passed(lb, both)
      /\ ~Review!NotComparable(lb, lc)
  BY <1>2 DEF Review!ReleaseGate
<1>4. lb.complete /\ lc.complete /\ both # {} /\ lb.dataset = lc.dataset
  BY <1>3 DEF Review!NotComparable
<1>5. /\ SettledRun(base) /\ lb.cases = base.cases /\ lb.dataset = base.dataset
      /\ SettledRun(cand) /\ lc.cases = cand.cases /\ lc.dataset = cand.dataset
  BY <1>4 DEF CasesRead, Review!Loaded
<1>6. both = Review!Shared(base, cand)
  BY <1>5 DEF Review!Shared
<1>7. \A S : Review!Passed(base, S) = Review!Passed(lb, S) /\ Review!Passed(cand, S) = Review!Passed(lc, S)
  BY <1>5 DEF Review!Passed
<1>8. Review!HardViolation(cand) = Review!HardViolation(lc)
  BY <1>5 DEF Review!HardViolation
<1> QED BY <1>3, <1>4, <1>5, <1>6, <1>7, <1>8 DEF Approvable

LEMMA ApprovableStands ==
  ASSUME NEW base \in RRow, NEW cand \in RRow, Approvable(base, cand)
  PROVE  LET both == {s \in Scenario : base.cases[s] \in Review!Judged /\ cand.cases[s] \in Review!Judged}
         IN /\ base.dataset = cand.dataset /\ both # {}
            /\ \A s \in Scenario : {base.cases[s], cand.cases[s]} \subseteq Review!Judged \cup {"none"}
            /\ \A s \in Scenario : cand.cases[s] # "hard"
            /\ Review!Cardinality({s \in both : cand.cases[s] = "pass"})
                 >= Review!Cardinality({s \in both : base.cases[s] = "pass"})
<1> DEFINE both == {s \in Scenario : base.cases[s] \in Review!Judged /\ cand.cases[s] \in Review!Judged}
<1>1. \A s \in Scenario : /\ base.cases[s] \in Review!Judged \cup {"none"}
                          /\ cand.cases[s] \in Review!Judged \cup {"none"}
  BY DEF Approvable, SettledRun, Review!AllCompleted, Review!RunRow, Review!Case, Review!Outcome
<1>2. Review!Shared(base, cand) = both
  BY <1>1 DEF Review!Shared, Review!Judged
<1>3. \A s \in Scenario : cand.cases[s] # "hard"
  BY DEF Approvable, Review!HardViolation
<1>4. Review!Cardinality({s \in both : cand.cases[s] = "pass"})
        >= Review!Cardinality({s \in both : base.cases[s] = "pass"})
  BY <1>2 DEF Approvable, Review!Passed
<1> QED BY <1>1, <1>2, <1>3, <1>4 DEF Approvable
-------------------------------------------------------------------------------
\* What a form under way holds, by how far it is.
LEMMA FormShape ==
  ASSUME NEW rv \in Review!ReviewState, rv.at # "idle"
  PROVE  /\ rv.pair \in Review!Pair
         /\ rv.at \in {"baseline run", "baseline episodes", "candidate run", "candidate episodes", "gate"}
         /\ rv.at # "baseline run" => rv.baseline \in Review!Loaded
         /\ rv.at \in {"candidate episodes", "gate"} => rv.candidate \in Review!Loaded
         /\ rv.at = "candidate episodes" =>
              rv = [at |-> "candidate episodes", pair |-> rv.pair,
                    baseline |-> rv.baseline, candidate |-> rv.candidate]
<1> DEFINE One == [at : {"baseline run"}, pair : Review!Pair]
           Two == [at : {"baseline episodes", "candidate run"}, pair : Review!Pair, baseline : Review!Loaded]
           Three == [at : {"candidate episodes", "gate"}, pair : Review!Pair, baseline : Review!Loaded,
                     candidate : Review!Loaded]
<1>0. rv # Review!NoReview
  BY DEF Review!NoReview
<1>1. rv \in One \/ rv \in Two \/ rv \in Three
  <2>1. rv \in {Review!NoReview} \cup One \cup Two \cup Three
    BY DEF Review!ReviewState
  <2> HIDE DEF One, Two, Three
  <2> QED BY <1>0, <2>1
<1> HIDE DEF Review!Pair, Review!Loaded
<1>2. CASE rv \in One
  BY <1>2
<1>3. CASE rv \in Two
  BY <1>3
<1>4. CASE rv \in Three
  BY <1>4
<1> QED BY <1>1, <1>2, <1>3, <1>4

\* The steps of the runs: the form and the decisions stay, what they say goes on to hold.
LEMMA RunsGoOn ==
  ASSUME ReviewInv, compared' \in [Run -> RRow], \A r \in Run : GoesOn(compared[r], compared'[r]),
         \A r \in Run : compared'[r].status = "none" => compared'[r] = RNoRun,
         catalog' \in Review!Dataset, UNCHANGED <<review, verdicts, reviews>>
  PROVE  ReviewInv'
<1>0. Review!TypeOK /\ compared \in [Run -> RRow]
  BY DEF ReviewInv, Review!TypeOK
<1>1. Review!TypeOK'
  BY <1>0 DEF Review!TypeOK
<1>2. FormSound(review)'
  <2>1. CASE review.at = "idle"
    BY <2>1 DEF FormSound
  <2>2. CASE review.at # "idle"
    <3>1. review.pair \in Review!Pair
      BY <1>0, <2>2, FormShape DEF Review!TypeOK
    <3> DEFINE p == review.pair[1]
               q == review.pair[2]
    <3>2. p \in Run /\ q \in Run
      BY <3>1 DEF Review!Pair
    <3>3. /\ compared[p].status = "none" => compared[p] = RNoRun
          /\ compared[q].status = "none" => compared[q] = RNoRun
      BY <3>2 DEF ReviewInv
    <3>4. /\ compared[p] \in RRow /\ compared[q] \in RRow
          /\ compared'[p] \in RRow /\ compared'[q] \in RRow
          /\ GoesOn(compared[p], compared'[p]) /\ GoesOn(compared[q], compared'[q])
      BY <1>0, <3>2
    <3>5. ReadSound(compared[p], compared[q], review)
      BY <2>2 DEF ReviewInv, FormSound
    <3>6. ReadSound(compared'[p], compared'[q], review)
      BY <3>3, <3>4, <3>5, ReadSoundStays
    <3> QED BY <3>6 DEF FormSound
  <2> QED BY <2>1, <2>2
<1>3. ASSUME NEW d \in verdicts, d.decision = "approved"
      PROVE  Approvable(compared'[d.pair[1]], compared'[d.pair[2]])
  <2>1. d.pair[1] \in Run /\ d.pair[2] \in Run
    BY <1>0 DEF Review!TypeOK, Review!Pair
  <2>2. Approvable(compared[d.pair[1]], compared[d.pair[2]])
    BY <1>3 DEF ReviewInv
  <2> QED BY <1>0, <2>1, <2>2, ApprovableStays
<1> QED BY <1>1, <1>2, <1>3 DEF ReviewInv

\* A run that is not there is begun.
LEMMA BeginKeeps ==
  ASSUME ReviewInv, NEW r \in Run, compared[r] = RNoRun, NEW row \in RRow, row.status # "none",
         compared' = [compared EXCEPT ![r] = row], UNCHANGED <<catalog, review, verdicts, reviews>>
  PROVE  ReviewInv'
<1>1. compared \in [Run -> RRow] /\ catalog \in Review!Dataset
  BY DEF ReviewInv, Review!TypeOK
<1>2. \A o \in Run : IF o = r THEN compared'[o] = row ELSE compared'[o] = compared[o]
  BY <1>1
<1>3. \A o \in Run : GoesOn(compared[o], compared'[o])
  BY <1>2 DEF GoesOn
<1>4. \A o \in Run : compared'[o].status = "none" => compared'[o] = RNoRun
  BY <1>2 DEF ReviewInv
<1>5. compared' \in [Run -> RRow]
  BY <1>1
<1> QED BY <1>1, <1>3, <1>4, <1>5, RunsGoOn

LEMMA SaveReportKeeps ==
  ASSUME ReviewInv, NEW r \in Run, NEW selected \in Selection, NEW results \in [Scenario -> Review!Judged],
         Review!SaveReport(r, selected, results)
  PROVE  ReviewInv'
<1>1. PICK played \in SUBSET selected :
        compared' = [compared EXCEPT ![r] =
          [status |-> "completed", dataset |-> catalog, partial |-> played # selected,
           cases |-> [s \in Scenario |-> IF s \in played THEN results[s] ELSE "none"]]]
  BY DEF Review!SaveReport
<1> DEFINE cs == [s \in Scenario |-> IF s \in played THEN results[s] ELSE "none"]
           row == [status |-> "completed", dataset |-> catalog, partial |-> played # selected, cases |-> cs]
<1>2. cs \in [Scenario -> Review!Case]
  BY DEF Review!Case, Review!Outcome
<1>3. (played # selected) \in BOOLEAN
  OBVIOUS
<1>4. catalog \in Review!Dataset
  BY DEF ReviewInv, Review!TypeOK
<1> HIDE DEF cs
<1>5. row \in RRow
  BY <1>2, <1>3, <1>4 DEF Review!RunRow
<1>6. row.status # "none"
  OBVIOUS
<1>7. compared[r] = RNoRun /\ UNCHANGED <<catalog, review, verdicts, reviews>>
  BY DEF Review!SaveReport
<1>8. compared' = [compared EXCEPT ![r] = row]
  BY <1>1 DEF cs
<1> HIDE DEF row
<1> QED BY <1>5, <1>6, <1>7, <1>8, BeginKeeps

LEMMA EnqueueKeeps ==
  ASSUME ReviewInv, NEW r \in Run, NEW selected \in Selection, Review!Enqueue(r, selected)
  PROVE  ReviewInv'
<1> DEFINE cs == [s \in Scenario |-> IF s \in selected THEN "open" ELSE "none"]
           row == [status |-> "queued", dataset |-> catalog, partial |-> FALSE, cases |-> cs]
<1>1. cs \in [Scenario -> Review!Case]
  BY DEF Review!Case, Review!Outcome
<1>2. catalog \in Review!Dataset
  BY DEF ReviewInv, Review!TypeOK
<1>3. row \in RRow /\ row.status # "none"
  BY <1>1, <1>2 DEF Review!RunRow
<1>4. /\ compared[r] = RNoRun /\ UNCHANGED <<catalog, review, verdicts, reviews>>
      /\ compared' = [compared EXCEPT ![r] = row]
  BY DEF Review!Enqueue
<1> HIDE DEF row
<1> QED BY <1>3, <1>4, BeginKeeps

LEMMA EndEpisodeKeeps ==
  ASSUME ReviewInv, NEW r \in Run, NEW s \in Scenario, NEW outcome \in Review!Outcome,
         Review!EndEpisode(r, s, outcome)
  PROVE  ReviewInv'
<1> DEFINE row == [compared[r] EXCEPT !.cases[s] = outcome]
<1>1. /\ compared \in [Run -> RRow] /\ catalog \in Review!Dataset /\ compared[r] \in RRow
      /\ compared[r].cases[s] = "open"
      /\ compared' = [compared EXCEPT ![r] = row]
      /\ UNCHANGED <<catalog, review, verdicts, reviews>>
  BY DEF ReviewInv, Review!TypeOK, Review!EndEpisode
<1>2. /\ row \in RRow /\ row.status = compared[r].status /\ row.dataset = compared[r].dataset
      /\ row.cases = [compared[r].cases EXCEPT ![s] = outcome]
  BY <1>1 DEF Review!RunRow, Review!Case
<1>3. \A o \in Scenario : compared[r].cases[o] # "open" => row.cases[o] = compared[r].cases[o]
  BY <1>1, <1>2 DEF Review!RunRow
<1>4. compared[r].status # "none"
  <2>1. RNoRun.cases[s] = "none"
    BY DEF Review!NoRun
  <2> QED BY <1>1, <2>1 DEF ReviewInv
<1> HIDE DEF row
<1>5. GoesOn(compared[r], row)
  BY <1>2, <1>3, <1>4 DEF GoesOn
<1>6. \A o \in Run : IF o = r THEN compared'[o] = row ELSE compared'[o] = compared[o]
  BY <1>1
<1>7. \A o \in Run : GoesOn(compared[o], compared'[o])
  BY <1>5, <1>6 DEF GoesOn
<1>8. \A o \in Run : compared'[o].status = "none" => compared'[o] = RNoRun
  BY <1>2, <1>4, <1>6 DEF ReviewInv
<1>9. compared' \in [Run -> RRow]
  BY <1>1, <1>2
<1> QED BY <1>1, <1>7, <1>8, <1>9, RunsGoOn

LEMMA FinalizeKeeps ==
  ASSUME ReviewInv, NEW r \in Run, Review!FinalizeRun(r)
  PROVE  ReviewInv'
<1> DEFINE row == [compared[r] EXCEPT !.status = "completed"]
<1>1. /\ compared \in [Run -> RRow] /\ catalog \in Review!Dataset /\ compared[r] \in RRow
      /\ compared[r].status = "queued"
      /\ compared' = [compared EXCEPT ![r] = row]
      /\ UNCHANGED <<catalog, review, verdicts, reviews>>
  BY DEF ReviewInv, Review!TypeOK, Review!FinalizeRun
<1>2. /\ row \in RRow /\ row.status = "completed" /\ row.dataset = compared[r].dataset
      /\ row.cases = compared[r].cases
  BY <1>1 DEF Review!RunRow
<1> HIDE DEF row
<1>3. GoesOn(compared[r], row)
  BY <1>1, <1>2 DEF GoesOn
<1>4. \A o \in Run : IF o = r THEN compared'[o] = row ELSE compared'[o] = compared[o]
  BY <1>1
<1>5. \A o \in Run : GoesOn(compared[o], compared'[o])
  BY <1>3, <1>4 DEF GoesOn
<1>6. \A o \in Run : compared'[o].status = "none" => compared'[o] = RNoRun
  BY <1>2, <1>4 DEF ReviewInv
<1>7. compared' \in [Run -> RRow]
  BY <1>1, <1>2
<1> QED BY <1>1, <1>5, <1>6, <1>7, RunsGoOn

LEMMA ChangeCatalogKeeps ==
  ASSUME ReviewInv, Review!ChangeCatalog
  PROVE  ReviewInv'
<1>1. \A r \in Run : GoesOn(compared[r], compared'[r])
  BY DEF Review!ChangeCatalog, GoesOn
<1> QED BY <1>1, RunsGoOn DEF Review!ChangeCatalog, ReviewInv, Review!TypeOK, Review!Dataset
-------------------------------------------------------------------------------
USE DEF FormSound, ReadSound

\* A step of the form: the runs stay.
LEMMA FormKeeps ==
  ASSUME ReviewInv, UNCHANGED <<catalog, compared, verdicts>>, reviews' \in 0..MaxReviews,
         review' \in Review!ReviewState, FormSound(review')
  PROVE  ReviewInv'
<1>1. Review!TypeOK'
  BY DEF ReviewInv, Review!TypeOK
<1>2. FormSound(review)'
  OBVIOUS
<1> QED BY <1>1, <1>2 DEF ReviewInv

LEMMA SubmitKeeps ==
  ASSUME ReviewInv, NEW pair \in Review!Pair, Review!Submit(pair)
  PROVE  ReviewInv'
<1>1. review' = [at |-> "baseline run", pair |-> pair]
  BY DEF Review!Submit
<1>2. review' \in Review!ReviewState
  BY <1>1 DEF Review!ReviewState
<1>3. compared[pair[1]] # RNoRun /\ compared[pair[2]] # RNoRun /\ UNCHANGED compared
      /\ reviews < MaxReviews /\ reviews' = reviews + 1 /\ UNCHANGED <<catalog, verdicts>>
  BY DEF Review!Submit
<1>4. review'.at = "baseline run" /\ review'.pair = pair
  BY <1>1
<1>5. FormSound(review')
  BY <1>3, <1>4
<1>6. reviews' \in 0..MaxReviews
  <2>1. reviews \in 0..MaxReviews /\ MaxReviews \in Nat
    BY EpisodeAssumption DEF ReviewInv, Review!TypeOK
  <2> QED BY <1>3, <2>1
<1> QED BY <1>2, <1>3, <1>5, <1>6, FormKeeps

LEMMA RunningIsRead ==
  ASSUME ReviewInv, NEW r \in Run
  PROVE  Review!Running(r) \in Review!Loaded /\ RowRead(compared[r], Review!Running(r))
<1>1. compared[r] \in RRow
  BY DEF ReviewInv, Review!TypeOK
<1>2. Review!NoRun.cases \in [Scenario -> Review!Case]
  BY DEF Review!NoRun, Review!Case
<1>3. /\ Review!Running(r).dataset = compared[r].dataset
      /\ Review!Running(r).complete = (compared[r].status = "completed")
  BY DEF Review!Running
<1>4. Review!Running(r) \in Review!Loaded
  BY <1>1, <1>2 DEF Review!Running, Review!Loaded, Review!RunRow
<1> QED BY <1>3, <1>4 DEF RowRead

LEMMA CasesAreRead ==
  ASSUME ReviewInv, NEW r \in Run, NEW l \in Review!Loaded, RowRead(compared[r], l)
  PROVE  Review!WithCases(l, r) \in Review!Loaded /\ CasesRead(compared[r], Review!WithCases(l, r))
<1>1. compared[r] \in RRow
  BY DEF ReviewInv, Review!TypeOK
<1>2. Review!AllCompleted(compared[r].cases) \in BOOLEAN
  BY DEF Review!AllCompleted
<1> DEFINE done == l.complete /\ Review!AllCompleted(compared[r].cases)
<1>3. done \in BOOLEAN
  BY <1>2 DEF Review!Loaded
<1> DEFINE w == Review!WithCases(l, r)
<1>4. w = [l EXCEPT !.cases = compared[r].cases, !.complete = done]
  BY DEF Review!WithCases
<1> HIDE DEF w, done
<1>5. /\ w.dataset = l.dataset /\ w.cases = compared[r].cases /\ w.complete = done
  BY <1>4 DEF Review!Loaded
<1>6. w \in Review!Loaded
  BY <1>1, <1>3, <1>4 DEF Review!Loaded, Review!RunRow
<1>7. CasesRead(compared[r], w)
  BY <1>5 DEF CasesRead, RowRead, SettledRun, done
<1> QED BY <1>6, <1>7 DEF w

LEMMA LoadKeeps ==
  ASSUME ReviewInv, Review!LoadStep
  PROVE  ReviewInv'
<1>0. review.at \notin {"idle", "gate"} /\ Review!TypeOK /\ FormSound(review)
      /\ UNCHANGED <<catalog, compared, verdicts, reviews>>
  BY DEF ReviewInv, Review!LoadStep, Review!Load
<1>1. /\ review.pair \in Review!Pair
      /\ review.at \in {"baseline run", "baseline episodes", "candidate run", "candidate episodes"}
      /\ review.at # "baseline run" => review.baseline \in Review!Loaded
      /\ review.at = "candidate episodes" => review.candidate \in Review!Loaded
      /\ review.at = "candidate episodes" =>
           review = [at |-> "candidate episodes", pair |-> review.pair,
                     baseline |-> review.baseline, candidate |-> review.candidate]
  BY <1>0, FormShape DEF Review!TypeOK
<1> DEFINE p == review.pair[1]
           q == review.pair[2]
<1>2. p \in Run /\ q \in Run
  BY <1>1 DEF Review!Pair
<1>3. reviews' \in 0..MaxReviews
  BY <1>0 DEF Review!TypeOK
<1>4. compared[p] # RNoRun /\ compared[q] # RNoRun
  BY <1>0
<1>5. CASE review.at = "baseline run"
  <2> DEFINE b == Review!Running(p)
  <2>1. review' = [at |-> "baseline episodes", pair |-> review.pair, baseline |-> b]
    BY <1>5 DEF Review!LoadStep, Review!Load
  <2>2. b \in Review!Loaded /\ RowRead(compared[p], b)
    BY <1>2, RunningIsRead
  <2> HIDE DEF b
  <2>3. review' \in Review!ReviewState
    BY <1>1, <2>1, <2>2 DEF Review!ReviewState
  <2>4. FormSound(review')
    BY <1>4, <1>0, <2>1, <2>2
  <2> QED BY <1>0, <1>3, <2>3, <2>4, FormKeeps
<1>6. CASE review.at = "baseline episodes"
  <2> DEFINE b == Review!WithCases(review.baseline, p)
  <2>1. review' = [at |-> "candidate run", pair |-> review.pair, baseline |-> b]
    BY <1>6 DEF Review!LoadStep, Review!Load
  <2>2. b \in Review!Loaded /\ CasesRead(compared[p], b)
    BY <1>0, <1>1, <1>2, <1>6, CasesAreRead
  <2> HIDE DEF b
  <2>3. review' \in Review!ReviewState
    BY <1>1, <2>1, <2>2 DEF Review!ReviewState
  <2>4. FormSound(review')
    BY <1>4, <1>0, <2>1, <2>2
  <2> QED BY <1>0, <1>3, <2>3, <2>4, FormKeeps
<1>7. CASE review.at = "candidate run"
  <2> DEFINE c == Review!Running(q)
  <2>1. review' = [at |-> "candidate episodes", pair |-> review.pair, baseline |-> review.baseline, candidate |-> c]
    BY <1>7 DEF Review!LoadStep, Review!Load
  <2>2. c \in Review!Loaded /\ RowRead(compared[q], c)
    BY <1>2, RunningIsRead
  <2>3. CasesRead(compared[p], review.baseline) /\ review.baseline \in Review!Loaded
    BY <1>0, <1>1, <1>7
  <2> HIDE DEF c
  <2>4. review' \in Review!ReviewState
    BY <1>1, <2>1, <2>2, <2>3 DEF Review!ReviewState
  <2>5. FormSound(review')
    BY <1>4, <1>0, <2>1, <2>2, <2>3
  <2> QED BY <1>0, <1>3, <2>4, <2>5, FormKeeps
<1>8. CASE review.at = "candidate episodes"
  <2> DEFINE c == Review!WithCases(review.candidate, q)
  <2>1. review' = [review EXCEPT !.at = "gate", !.candidate = c]
    BY <1>8 DEF Review!LoadStep, Review!Load
  <2>2. c \in Review!Loaded /\ CasesRead(compared[q], c)
    BY <1>0, <1>1, <1>2, <1>8, CasesAreRead
  <2>3. CasesRead(compared[p], review.baseline) /\ review.baseline \in Review!Loaded
    BY <1>0, <1>1, <1>8
  <2> HIDE DEF c
  <2>4. review' = [at |-> "gate", pair |-> review.pair, baseline |-> review.baseline, candidate |-> c]
    BY <1>1, <1>8, <2>1
  <2>5. review' \in Review!ReviewState
    BY <1>1, <2>4, <2>2, <2>3 DEF Review!ReviewState
  <2>6. FormSound(review')
    BY <1>4, <1>0, <2>4, <2>2, <2>3
  <2> QED BY <1>0, <1>3, <2>5, <2>6, FormKeeps
<1> QED BY <1>1, <1>5, <1>6, <1>7, <1>8

LEMMA DecideKeeps ==
  ASSUME ReviewInv, NEW decision \in {"approved", "rejected"}, Review!Decide(decision)
  PROVE  ReviewInv'
<1> DEFINE gate == Review!ReleaseGate(review.baseline, review.candidate)
           d == [pair |-> review.pair, gate |-> gate, decision |-> decision]
           p == review.pair[1]
           q == review.pair[2]
<1>0. review.at = "gate" /\ Review!TypeOK /\ FormSound(review)
      /\ UNCHANGED <<catalog, compared, reviews>> /\ review' = Review!NoReview
  BY DEF ReviewInv, Review!Decide
<1>1. /\ review.pair \in Review!Pair /\ review.baseline \in Review!Loaded /\ review.candidate \in Review!Loaded
  BY <1>0, FormShape DEF Review!TypeOK
<1>2. p \in Run /\ q \in Run
  BY <1>1 DEF Review!Pair
<1>3. compared \in [Run -> RRow]
  BY <1>0 DEF Review!TypeOK
<1>4. CasesRead(compared[p], review.baseline) /\ CasesRead(compared[q], review.candidate)
  BY <1>0
<1>5. gate = "PASS" => Approvable(compared[p], compared[q])
  BY <1>1, <1>2, <1>3, <1>4, PassMeansApprovable
<1>6. gate \in {"PASS", "FAIL", "BLOCKED"}
  BY <1>1, GateTold
<1>7. verdicts' = IF Review!MayDecide(gate, decision) THEN verdicts \cup {d} ELSE verdicts
  BY DEF Review!Decide
<1> HIDE DEF gate
<1>8. Review!MayDecide(gate, decision) /\ decision = "approved" => Approvable(compared[p], compared[q])
  BY <1>5 DEF Review!MayDecide
<1>9. verdicts' \subseteq [pair : Review!Pair, gate : {"PASS", "FAIL", "BLOCKED"}, decision : {"approved", "rejected"}]
  BY <1>0, <1>1, <1>6, <1>7 DEF Review!TypeOK
<1>10. review' \in Review!ReviewState
  BY <1>0 DEF Review!ReviewState
<1>11. Review!TypeOK'
  BY <1>0, <1>9, <1>10 DEF Review!TypeOK
<1>12. FormSound(review)'
  BY <1>0 DEF Review!NoReview
<1>13. ASSUME NEW o \in verdicts', o.decision = "approved"
       PROVE  Approvable(compared'[o.pair[1]], compared'[o.pair[2]])
  <2>1. CASE o \in verdicts
    BY <1>0, <1>13, <2>1 DEF ReviewInv
  <2>2. CASE o \notin verdicts
    <3>1. o = d /\ Review!MayDecide(gate, decision)
      BY <1>7, <2>2
    <3>2. o.pair = review.pair /\ decision = "approved"
      BY <3>1, <1>13
    <3> QED BY <1>0, <1>8, <3>1, <3>2
  <2> QED BY <2>1, <2>2
<1> QED BY <1>0, <1>11, <1>12, <1>13 DEF ReviewInv

LEMMA ReviewKeeps ==
  ASSUME ReviewInv, Review!Next
  PROVE  ReviewInv'
BY SaveReportKeeps, EnqueueKeeps, EndEpisodeKeeps, FinalizeKeeps, ChangeCatalogKeeps,
   SubmitKeeps, LoadKeeps, DecideKeeps DEF Review!Next

LEMMA ReviewInvInit == Review!Init => ReviewInv
<1> SUFFICES ASSUME Review!Init PROVE ReviewInv
  OBVIOUS
<1>1. RNoRun \in RRow /\ RNoRun.status = "none"
  BY DEF Review!NoRun, Review!RunRow, Review!Dataset, Review!Case
<1>2. compared = [r \in Run |-> RNoRun] /\ review = Review!NoReview /\ verdicts = {} /\ reviews = 0 /\ catalog = "old"
  BY DEF Review!Init
<1>3. compared \in [Run -> RRow]
  BY <1>1, <1>2
<1>4. review \in Review!ReviewState /\ review.at = "idle"
  BY <1>2 DEF Review!ReviewState, Review!NoReview
<1>5. Review!TypeOK
  BY <1>2, <1>3, <1>4, EpisodeAssumption DEF Review!TypeOK, Review!Dataset
<1> QED BY <1>2, <1>4, <1>5 DEF ReviewInv

LEMMA ReviewInvSays == ReviewInv => Review!TypeOK /\ Review!ApprovalStands
<1> SUFFICES ASSUME ReviewInv PROVE Review!TypeOK /\ Review!ApprovalStands
  OBVIOUS
<1>1. ASSUME NEW d \in verdicts, d.decision = "approved"
      PROVE  /\ compared[d.pair[1]] \in RRow /\ compared[d.pair[2]] \in RRow
             /\ Approvable(compared[d.pair[1]], compared[d.pair[2]])
  BY <1>1 DEF ReviewInv, Review!TypeOK, Review!Pair
<1>2. Review!TypeOK
  BY DEF ReviewInv
<1> QED BY <1>1, <1>2, ApprovableStands DEF Review!ApprovalStands

LEMMA ReviewAlways == LabSpec => []ReviewInv
<1>1. LabInit => ReviewInv
  BY ReviewInvInit DEF LabInit
<1>2. ReviewInv /\ [LabNext]_labVars => ReviewInv'
  <2>1. CASE Review!Next
    BY <2>1, ReviewKeeps
  <2>2. CASE UNCHANGED reviewVars
    <3>1. compared' = compared /\ review' = review /\ verdicts' = verdicts
          /\ catalog' = catalog /\ reviews' = reviews
      BY <2>2 DEF reviewVars
    <3> QED BY <3>1 DEF ReviewInv, Review!TypeOK
  <2>3. [LabNext]_labVars => Review!Next \/ UNCHANGED reviewVars
    BY DEF LabNext, labVars
  <2> QED BY <2>1, <2>2, <2>3
<1> QED BY <1>1, <1>2, PTL DEF LabSpec

\* The workers' records (ProgressSurvives), and those of the review: an approval
\* (lab.ts, POST /admin/lab/release) was given to two settled runs of one dataset of
\* which the candidate was as good, and nothing that happens to the runs, the catalog
\* or the form afterwards makes that untrue.
THEOREM RecordsAlwaysStand == LabSpec => []RecordsStand
<1>1. WorkerInv /\ ReviewInv => RecordsStand
  BY ReviewInvSays DEF WorkerInv, RecordsStand
<1> QED BY <1>1, LabHasWorkers, WorkerInvAlways, ReviewAlways, PTL
===============================================================================
