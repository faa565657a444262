----------------------------- MODULE LabEpisodes -----------------------------
(***************************************************************************)
(* What the Rehearsal Lab promises of an episode, without workers, leases  *)
(* and checkpoints: it is a list of batches of events that only grows, one *)
(* batch at a time, every batch after the first carrying out the decision  *)
(* that was on record for it; it is completed when the list is, or given   *)
(* up for a person to look at, and that is final.                          *)
(***************************************************************************)
EXTENDS Naturals, Sequences

CONSTANTS
  Episode,
  Choice,     \* decisions of the agent
  NoChoice,
  Batches     \* batches of an episode, the reset included

VARIABLES
  status,     \* of each episode
  log,        \* the decisions its events carry out; the reset carries out none
  decision    \* the decision on record for the next batch

vars == <<status, log, decision>>

Init ==
  /\ status = [e \in Episode |-> "open"]
  /\ log = [e \in Episode |-> <<>>]
  /\ decision = [e \in Episode |-> NoChoice]

Reset(e) ==
  /\ status[e] = "open" /\ log[e] = <<>>
  /\ log' = [log EXCEPT ![e] = <<NoChoice>>]
  /\ UNCHANGED <<status, decision>>

Decide(e, c) ==
  /\ status[e] = "open" /\ log[e] # <<>> /\ Len(log[e]) < Batches
  /\ decision[e] = NoChoice
  /\ decision' = [decision EXCEPT ![e] = c]
  /\ UNCHANGED <<status, log>>

CarryOut(e) ==
  /\ status[e] = "open" /\ decision[e] # NoChoice
  /\ log' = [log EXCEPT ![e] = Append(@, decision[e])]
  /\ decision' = [decision EXCEPT ![e] = NoChoice]
  /\ UNCHANGED status

Complete(e) ==
  /\ status[e] = "open" /\ Len(log[e]) = Batches
  /\ status' = [status EXCEPT ![e] = "completed"]
  /\ UNCHANGED <<log, decision>>

GiveUp(e) ==
  /\ status[e] = "open"
  /\ status' = [status EXCEPT ![e] = "quarantined"]
  /\ UNCHANGED <<log, decision>>

Next ==
  \E e \in Episode :
    \/ Reset(e) \/ CarryOut(e) \/ Complete(e) \/ GiveUp(e)
    \/ \E c \in Choice : Decide(e, c)

Spec == Init /\ [][Next]_vars
===============================================================================
