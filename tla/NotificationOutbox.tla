-------------------------- MODULE NotificationOutbox --------------------------
(***************************************************************************)
(* The transactional outbox of WhatsApp notices.  A notice is inserted by  *)
(* the transaction that commits its business event, once for its dedupe    *)
(* key.  A drain locks a batch of pending rows, skipping those another     *)
(* process holds, and sends them one by one inside that transaction: what  *)
(* it writes is seen, and kept, only when it commits.                      *)
(***************************************************************************)
EXTENDS Integers, FiniteSets

CONSTANTS
  Event,         \* business events that owe a notice, by dedupe key
  Drainer,       \* orchestrator processes
  Batch,         \* rows one drain takes
  MaxAttempts,
  MaxLost,       \* bound: answers lost, for each notice
  MaxDeaths      \* bound: drains rolled back

VARIABLES
  rows,        \* outbound_notifications, by event
  delivered,   \* how often each notice reached WhatsApp
  drain,       \* each process's transaction: the rows it locked, with its writes
  lost,        \* how many of these deliveries left no trace: the answer was lost, or
               \* the drain rolled back
  deaths       \* drains rolled back

vars == <<rows, delivered, drain, lost, deaths>>

Status == {"absent", "pending", "sent", "failed"}
Row == [status: Status, attempts: 0..MaxAttempts]
Copy == [status: Status, attempts: 0..MaxAttempts, done: BOOLEAN, out: BOOLEAN]

TypeOK ==
  /\ rows \in [Event -> Row]
  /\ delivered \in [Event -> Nat] /\ lost \in [Event -> 0..MaxLost + MaxDeaths]
  /\ deaths \in 0..MaxDeaths
  /\ \A d \in Drainer : \E locked \in SUBSET Event : drain[d] \in [locked -> Copy]

NoRow == [status |-> "absent", attempts |-> 0]
NoRows == [e \in {} |-> NoRow]

Init ==
  /\ rows = [e \in Event |-> NoRow]
  /\ delivered = [e \in Event |-> 0]
  /\ drain = [d \in Drainer |-> NoRows]
  /\ lost = [e \in Event |-> 0]
  /\ deaths = 0
-------------------------------------------------------------------------------
Locked == UNION {DOMAIN drain[d] : d \in Drainer}

\* enqueueNotification: onConflictDoNothing on the dedupe key.  The event may be
\* replayed: a second callback, a verify after the callback.
Queue(e) ==
  IF rows[e].status = "absent" THEN [rows EXCEPT ![e].status = "pending"] ELSE rows

Commit(e) ==
  /\ rows' = Queue(e)
  /\ UNCHANGED <<delivered, drain, lost, deaths>>

Pending == {e \in Event : rows[e].status = "pending"}

\* Mutant: FOR UPDATE without a lock that lasts.
FreeMutant(e) == TRUE

Free(e) == e \notin Locked

\* SELECT ... FOR UPDATE SKIP LOCKED LIMIT batch; drains of one process do not overlap
Claim(d) ==
  LET free == {e \in Pending : Free(e)} IN
  \E batch \in SUBSET free :
    /\ drain[d] = NoRows /\ batch # {}
    /\ Cardinality(batch) = (IF Cardinality(free) < Batch THEN Cardinality(free) ELSE Batch)
    /\ drain' = [drain EXCEPT ![d] =
         [e \in batch |-> [status |-> rows[e].status, attempts |-> rows[e].attempts,
                           done |-> FALSE, out |-> FALSE]]]
    /\ UNCHANGED <<rows, delivered, lost, deaths>>

\* Mutant: a failed send does not count as an attempt.
CountedMutant(n) == n

\* Mutant: counted by the sender and by the drain.
CountedTwiceMutant(n) == n + 2

Counted(n) == n + 1

Written(d, e, status, out) ==
  drain' = [drain EXCEPT ![d][e] =
              [status |-> status, attempts |-> Counted(@.attempts), done |-> TRUE, out |-> out]]

Send(d, e) ==
  /\ e \in DOMAIN drain[d] /\ ~drain[d][e].done
  /\ delivered' = [delivered EXCEPT ![e] = @ + 1]
  /\ Written(d, e, "sent", TRUE)
  /\ UNCHANGED <<rows, lost, deaths>>

\* withRetry: the answer to a delivery is lost, and the call is made again.
Retry(d, e) ==
  /\ e \in DOMAIN drain[d] /\ ~drain[d][e].done
  /\ lost[e] < MaxLost
  /\ lost' = [lost EXCEPT ![e] = @ + 1]
  /\ delivered' = [delivered EXCEPT ![e] = @ + 1]
  /\ UNCHANGED <<rows, drain, deaths>>

\* The send throws, the notice may have gone out all the same.
SendFails(d, e) ==
  /\ e \in DOMAIN drain[d] /\ ~drain[d][e].done
  /\ \/ UNCHANGED <<delivered, lost>>
     \/ /\ lost[e] < MaxLost
        /\ lost' = [lost EXCEPT ![e] = @ + 1]
        /\ delivered' = [delivered EXCEPT ![e] = @ + 1]
  /\ Written(d, e, IF Counted(drain[d][e].attempts) >= MaxAttempts THEN "failed" ELSE "pending", FALSE)
  /\ UNCHANGED <<rows, deaths>>

EndDrain(d) ==
  /\ drain[d] # NoRows
  /\ \A e \in DOMAIN drain[d] : drain[d][e].done
  /\ rows' = [e \in Event |->
       IF e \in DOMAIN drain[d]
         THEN [status |-> drain[d][e].status, attempts |-> drain[d][e].attempts] ELSE rows[e]]
  /\ drain' = [drain EXCEPT ![d] = NoRows]
  /\ UNCHANGED <<delivered, lost, deaths>>

\* The process is killed, or the commit fails: nothing the drain wrote is kept.
Cut(d) ==
  /\ drain[d] # NoRows /\ deaths < MaxDeaths
  /\ deaths' = deaths + 1
  /\ lost' = [e \in Event |->
       IF e \in DOMAIN drain[d] /\ drain[d][e].out THEN lost[e] + 1 ELSE lost[e]]
  /\ drain' = [drain EXCEPT ![d] = NoRows]
  /\ UNCHANGED <<rows, delivered>>

Work(d) ==
  \/ Claim(d) \/ EndDrain(d)
  \/ \E e \in Event : Send(d, e) \/ SendFails(d, e)

Next ==
  \/ \E e \in Event : Commit(e)
  \/ \E d \in Drainer : Work(d) \/ Cut(d) \/ (\E e \in Event : Retry(d, e))

\* The timer of each process keeps draining.  No fairness is needed of the sends: a
\* notice that fails often enough is parked.
Fairness == \A d \in Drainer : WF_vars(Work(d))

Spec == Init /\ [][Next]_vars /\ Fairness
-------------------------------------------------------------------------------
(* Properties *)

\* "Two processes never send the same row": a notice arrives twice only when a drain
\* that had sent it was rolled back, or an answer was lost; one marked sent did go out.
NoticeOnce ==
  \A e \in Event :
    /\ delivered[e] <= 1 + lost[e]
    /\ rows[e].status = "sent" => delivered[e] > 0

\* "Visible, never silent": no notice is pending for ever, each is sent or parked as
\* failed.  (No row is ever pending again, so this is said of all at once.)
NoticesSettle == <>[](\A e \in Event : rows[e].status # "pending")
===============================================================================
