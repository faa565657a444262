----------------------------- MODULE InboundTurns -----------------------------
(***************************************************************************)
(* Inbound messages of one business, from the webhook to the reply         *)
(* (orchestrator/src/whatsapp/router.ts, session/client.ts).               *)
(*                                                                         *)
(* Meta delivers a message at least once; the row in wa_events is claimed  *)
(* first.  Each sender has a line, and the head of the line is being       *)
(* processed: answered at once, or put to the agent in the one session the *)
(* business has.  A turn listens to the whole session, audits what the     *)
(* agent says, sends what fails the audit back, and ends at an idle.       *)
(*                                                                         *)
(* The lines, turns and streams live in the process and die with it; the   *)
(* claims and the session do not.  What the agent's tools do to the books  *)
(* is in DraftLedger.                                                      *)
(***************************************************************************)
EXTENDS Naturals, Sequences, FiniteSets

CONSTANTS
  Message,
  Sender,          \* numbers of the members of the business
  NoMessage,
  MaxHolds,        \* MAX_HOLDS_PER_TURN
  MaxSays,         \* bound: what the agent says to one input
  MaxDeliveries    \* bound: times Meta delivers a message

ASSUME BoundAssumption == {MaxHolds, MaxSays, MaxDeliveries} \subseteq Nat
ASSUME MessageAssumption == NoMessage \notin Message

VARIABLES
  from,        \* who sent each message
  deliveries,  \* how often Meta has delivered a message
  claims,      \* wa_events
  line,        \* SerialQueues.tails: the messages of each sender in hand
  turn,        \* what is being done with the first of them
  stream,      \* events of the session that turn has not read yet
  session,     \* the business's session: inputs waiting, the one in hand
  spoken,      \* history: messages whose processing reached the sender
  lost,        \* history: those of them that did so only by a send that threw
  stray,       \* history: an answer to one message was heard in the turn of another
  cut          \* history: some turn was cut off, overlapped, or held twice in a row

vars == <<from, deliveries, claims, line, turn, stream, session, spoken, lost, stray, cut>>
-------------------------------------------------------------------------------
Event == [kind: {"say"}, about: Message] \cup [kind: {"idle", "over"}, about: {NoMessage}]
Turn == [at: {"none", "route", "ask", "listen", "after"}, holds: 0..MaxHolds, retry: BOOLEAN, spoke: BOOLEAN]

TypeOK ==
  /\ from \in [Message -> Sender]
  /\ deliveries \in 0..MaxDeliveries
  /\ claims \subseteq Message
  /\ line \in [Sender -> Seq(Message)]
  /\ turn \in [Sender -> Turn]
  /\ stream \in [Sender -> Seq(Event)]
  /\ session \in [input: Seq(Message), now: Message \cup {NoMessage}, said: 0..MaxSays]
  /\ spoken \subseteq Message /\ lost \subseteq spoken
  /\ {stray, cut} \subseteq BOOLEAN

NoTurn == [at |-> "none", holds |-> 0, retry |-> FALSE, spoke |-> FALSE]
FreshSession == [input |-> <<>>, now |-> NoMessage, said |-> 0]

Init ==
  /\ from \in [Message -> Sender]
  /\ deliveries = 0
  /\ claims = {}
  /\ line = [s \in Sender |-> <<>>]
  /\ turn = [s \in Sender |-> NoTurn]
  /\ stream = [s \in Sender |-> <<>>]
  /\ session = FreshSession
  /\ spoken = {} /\ lost = {} /\ stray = FALSE /\ cut = FALSE
-------------------------------------------------------------------------------
\* Operators named ...Mutant are wrong versions of the definition after them,
\* kept to show that a property notices the change; the model does not use them.

\* Meta delivers a message, again if it likes; INSERT ... ON CONFLICT DO NOTHING.
Receive(m) ==
  /\ deliveries < MaxDeliveries
  /\ deliveries' = deliveries + 1
  /\ IF m \in claims
       THEN UNCHANGED <<claims, line>>
       ELSE /\ claims' = claims \cup {m}
            /\ line' = [line EXCEPT ![from[m]] = Append(@, m)]
  /\ UNCHANGED <<from, turn, stream, session, spoken, lost, stray, cut>>

Current(s) == Head(line[s])

\* The sender hears something, and Meta's answer says so.
Tell(s) ==
  /\ spoken' = spoken \cup {Current(s)}
  /\ lost' = lost \ {Current(s)}

Goto(s, a, b) == turn[s].at = a /\ turn' = [turn EXCEPT ![s].at = b]

Begin(s) ==
  /\ line[s] # <<>>
  /\ Goto(s, "none", "route")
  /\ UNCHANGED <<from, deliveries, claims, line, stream, session, spoken, lost, stray, cut>>

\* Mutant: a failed message stays at the head of the line.
NextInLineMutant(s, failed) ==
  line' = IF failed THEN line ELSE [line EXCEPT ![s] = Tail(@)]

\* tail.then(task, task): the next in line, however the first one ended.
NextInLine(s, failed) == line' = [line EXCEPT ![s] = Tail(@)]

Finish(s, failed) ==
  /\ turn' = [turn EXCEPT ![s] = NoTurn]
  /\ NextInLine(s, failed)
-------------------------------------------------------------------------------
(* handleClaimed *)

\* Answered without the agent: an unknown or former member, a team command, a
\* sender over the rate or the budget, what cannot be read, a secret, a bare thanks.
AnswerAtOnce(s) ==
  /\ turn[s].at = "route"
  /\ Finish(s, FALSE)
  /\ Tell(s)
  /\ UNCHANGED <<from, deliveries, claims, stream, session, stray, cut>>

Listening(s) == turn[s].at \in {"ask", "listen"}

\* The session is there, or is created, and the stream is opened before asking.
OpenStream(s) ==
  /\ Goto(s, "route", "ask")
  /\ cut' = (cut \/ \E r \in Sender : Listening(r))
  /\ UNCHANGED <<from, deliveries, claims, line, stream, session, spoken, lost, stray>>

\* The session it listens to has not come to an end; asking one that has fails.
Live(s) == \A i \in 1..Len(stream[s]) : stream[s][i].kind # "over"

Ask(s) ==
  /\ Live(s)
  /\ Goto(s, "ask", "listen")
  /\ session' = [session EXCEPT !.input = Append(@, Current(s))]
  /\ UNCHANGED <<from, deliveries, claims, line, stream, spoken, lost, stray, cut>>
-------------------------------------------------------------------------------
(* The session: it takes its inputs one by one, and everyone who listens hears it *)

Heard(s, e) == IF Listening(s) /\ Live(s) THEN Append(stream[s], e) ELSE stream[s]

Broadcast(kind, about) ==
  stream' = [s \in Sender |-> Heard(s, [kind |-> kind, about |-> about])]

sessionRest == <<from, deliveries, claims, line, turn, spoken, lost, stray, cut>>

TakeUp ==
  /\ session.now = NoMessage /\ session.input # <<>>
  /\ session' = [input |-> Tail(session.input), now |-> Head(session.input), said |-> 0]
  /\ UNCHANGED <<sessionRest, stream>>

Say ==
  /\ session.now # NoMessage /\ session.said < MaxSays
  /\ session' = [session EXCEPT !.said = @ + 1]
  /\ Broadcast("say", session.now)
  /\ UNCHANGED sessionRest

Rest ==
  /\ session.now # NoMessage
  /\ session' = [session EXCEPT !.now = NoMessage, !.said = 0]
  /\ Broadcast("idle", NoMessage)
  /\ UNCHANGED sessionRest

\* The session comes to an end; whoever opens a stream next is given a new one.
Terminate ==
  /\ session # FreshSession
  /\ session' = FreshSession
  /\ Broadcast("over", NoMessage)
  /\ UNCHANGED sessionRest
-------------------------------------------------------------------------------
(* runTurn: the events of the stream, one at a time *)

Next1(s) == Head(stream[s])

Read(s, kind) ==
  /\ turn[s].at = "listen" /\ stream[s] # <<>> /\ Next1(s).kind = kind

\* It passes the audit.
Deliver(s) ==
  /\ Read(s, "say")
  /\ stream' = [stream EXCEPT ![s] = Tail(@)]
  /\ turn' = [turn EXCEPT ![s].spoke = TRUE]
  /\ Tell(s)
  /\ stray' = (stray \/ Next1(s).about # Current(s))
  /\ UNCHANGED <<from, deliveries, claims, line, session, cut>>

\* Mutant: one hold more than MAX_HOLDS_PER_TURN.
MayHoldMutant(s) == turn[s].holds <= MaxHolds

MayHold(s) == turn[s].holds < MaxHolds

\* It has been held too often: a text without figures goes out instead.
Fallback(s) ==
  /\ Read(s, "say") /\ ~MayHold(s)
  /\ stream' = [stream EXCEPT ![s] = Tail(@)]
  /\ turn' = [turn EXCEPT ![s].spoke = TRUE]
  /\ Tell(s)
  /\ UNCHANGED <<from, deliveries, claims, line, session, stray, cut>>

\* It is held, and the agent is told to verify it or to ask.
Hold(s) ==
  /\ Read(s, "say") /\ MayHold(s) /\ Live(s)
  /\ stream' = [stream EXCEPT ![s] = Tail(@)]
  /\ turn' = [turn EXCEPT ![s].holds = @ + 1, ![s].retry = TRUE]
  /\ session' = [session EXCEPT !.input = Append(@, Next1(s).about)]
  /\ cut' = (cut \/ turn[s].retry)
  /\ UNCHANGED <<from, deliveries, claims, line, spoken, lost, stray>>

\* Mutant: every idle ends the turn.
TerminalMutant(s) == TRUE

\* The idle of a held answer is not the end: the corrective input comes next.
Terminal(s) == ~turn[s].retry

IdleAfterHold(s) ==
  /\ Read(s, "idle") /\ ~Terminal(s)
  /\ stream' = [stream EXCEPT ![s] = Tail(@)]
  /\ turn' = [turn EXCEPT ![s].retry = FALSE]
  /\ UNCHANGED <<from, deliveries, claims, line, session, spoken, lost, stray, cut>>

Return(s) ==
  /\ \/ Read(s, "idle") /\ Terminal(s)
     \/ Read(s, "over")
  /\ Goto(s, "listen", "after")
  /\ stream' = [stream EXCEPT ![s] = <<>>]
  /\ UNCHANGED <<from, deliveries, claims, line, session, spoken, lost, stray, cut>>

\* The deadline: the session is interrupted, or not if that fails too.
Timeout(s) ==
  /\ Goto(s, "listen", "after")
  /\ \/ /\ session.now # NoMessage /\ Live(s)
        /\ session' = [session EXCEPT !.now = NoMessage, !.said = 0]
        /\ stream' = [r \in Sender |->
             IF r = s THEN <<>> ELSE Heard(r, [kind |-> "idle", about |-> NoMessage])]
     \/ /\ stream' = [stream EXCEPT ![s] = <<>>]
        /\ UNCHANGED session
  /\ cut' = TRUE
  /\ UNCHANGED <<from, deliveries, claims, line, spoken, lost, stray>>

\* What is left after runTurn: the usage is recorded, the budget warning sent if it is due.
WrapUp(s) ==
  /\ turn[s].at = "after"
  /\ Finish(s, FALSE)
  /\ Tell(s) \/ UNCHANGED <<spoken, lost>>
  /\ UNCHANGED <<from, deliveries, claims, stream, session, stray, cut>>
-------------------------------------------------------------------------------
(* Failures *)

\* Mutant: a failed message can always be delivered again.
ReleasableMutant(s) == TRUE

\* deliveredAny is set once a send has returned: what Meta has acknowledged is not
\* processed again.
Releasable(s) == ~turn[s].spoke

\* The answers the code knows of.
Acknowledged == spoken \ lost

\* The call that throws is a send which had gone out: the sender hears it, the code
\* does not know.  The note that asks the sender to write again is not an answer.
GoneOut(s) ==
  /\ turn[s].at \in {"route", "after"} \/ Read(s, "say")
  /\ spoken' = spoken \cup {Current(s)}
  /\ lost' = IF Current(s) \in Acknowledged THEN lost ELSE lost \cup {Current(s)}
  /\ stray' \in {stray, stray \/ (Read(s, "say") /\ Next1(s).about # Current(s))}

\* A call throws: the claim is released, if that does not fail as well.
Fail(s) ==
  /\ turn[s].at # "none"
  /\ Finish(s, TRUE)
  /\ \/ Releasable(s) /\ claims' = claims \ {Current(s)}
     \/ UNCHANGED claims
  /\ GoneOut(s) \/ UNCHANGED <<spoken, lost, stray>>
  /\ stream' = [stream EXCEPT ![s] = <<>>]
  /\ cut' = (cut \/ Listening(s))
  /\ UNCHANGED <<from, deliveries, session>>

\* The process dies.
Crash ==
  /\ \E s \in Sender : line[s] # <<>>
  /\ line' = [s \in Sender |-> <<>>]
  /\ turn' = [s \in Sender |-> NoTurn]
  /\ stream' = [s \in Sender |-> <<>>]
  /\ cut' = (cut \/ \E s \in Sender : Listening(s))
  /\ UNCHANGED <<from, deliveries, claims, session, spoken, lost, stray>>
-------------------------------------------------------------------------------
Process(s) ==
  \/ AnswerAtOnce(s) \/ OpenStream(s) \/ Ask(s)
  \/ Deliver(s) \/ Fallback(s) \/ Hold(s) \/ IdleAfterHold(s) \/ Return(s) \/ Timeout(s)
  \/ WrapUp(s)

Next ==
  \/ \E m \in Message : Receive(m)
  \/ \E s \in Sender : Begin(s) \/ Process(s) \/ Fail(s)
  \/ TakeUp \/ Say \/ Rest \/ Terminate
  \/ Crash

Spec == Init /\ [][Next]_vars

\* The process runs on as long as it lives; nothing is assumed of Meta or the agent.
Fairness == \A s \in Sender : WF_vars(Begin(s)) /\ WF_vars(Process(s) \/ Fail(s))

FairSpec == Spec /\ Fairness
-------------------------------------------------------------------------------
(* Properties *)

\* "Re-running a turn that already spoke to the owner risks double side effects":
\* however often Meta delivers a message and whatever fails afterwards, it is not
\* taken up again once the sender has heard something because of it, as far as the
\* code can know.  It does not know of a send that went out and threw: after that
\* the claim is released, and the message may be answered a second time.
SpokenOnce ==
  [][\A s \in Sender : Begin(s) /\ Current(s) \in spoken => Current(s) \in lost]_vars

\* What SpokenOnce rests on.  Whatever is in hand is claimed, and once:
LinesSound ==
  \A s \in Sender :
    /\ turn[s].at # "none" => line[s] # <<>>
    /\ \A i \in 1..Len(line[s]) : line[s][i] \in claims /\ from[line[s][i]] = s
    /\ \A i, j \in 1..Len(line[s]) : line[s][i] = line[s][j] => i = j

Waits(s, i) == i > 1 \/ turn[s].at = "none"

\* what was acknowledged keeps its claim and is not waiting, and if it is being
\* processed its turn knows.
SpokenIsClaimed ==
  /\ Acknowledged \subseteq claims
  /\ \A s \in Sender :
       /\ \A i \in 1..Len(line[s]) : Waits(s, i) => line[s][i] \notin Acknowledged
       /\ turn[s].at # "none" /\ Current(s) \in Acknowledged => turn[s].spoke

IInv == TypeOK /\ LinesSound /\ SpokenIsClaimed

\* An answer is heard in another message's turn only if a turn was cut off, two
\* members' turns overlapped, or two answers were held before the first idle.
StrayOnlyAfterCut == stray => cut

\* A hung agent, a failed send or a lost stream does not block the sender: every
\* message in hand is done with in the end.
InHand(m) == \E i \in 1..Len(line[from[m]]) : line[from[m]][i] = m

EveryTurnEnds == \A m \in Message : InHand(m) ~> ~InHand(m)

\* "A tenant's messages are SERIALIZED (one turn at a time)": the line is the
\* sender's, so two members of one business are in the session together.
OneTurnPerTenant ==
  Cardinality({s \in Sender : turn[s].at # "none"}) <= 1
===============================================================================
