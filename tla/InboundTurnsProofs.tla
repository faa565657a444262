-------------------------- MODULE InboundTurnsProofs --------------------------
(***************************************************************************)
(* IInv is an invariant of InboundTurns, and a message whose answer was    *)
(* acknowledged is not taken up again: any messages, members and bounds.   *)
(***************************************************************************)
EXTENDS InboundTurns, SequenceTheorems, FunctionTheorems, FiniteSetTheorems, TLAPS

USE BoundAssumption, MessageAssumption

\* Sequences by their indices.
LEMMA Shorter ==
  ASSUME NEW T, NEW q \in Seq(T), q # <<>>
  PROVE  /\ Len(q) \in Nat /\ Len(q) >= 1
         /\ Head(q) \in T /\ Head(q) = q[1]
         /\ Tail(q) \in Seq(T) /\ Len(Tail(q)) = Len(q) - 1
         /\ \A i \in 1..Len(Tail(q)) : i + 1 \in 2..Len(q) /\ Tail(q)[i] = q[i + 1]
BY EmptySeq, HeadTailProperties, LenProperties

LEMMA Longer ==
  ASSUME NEW T, NEW q \in Seq(T), NEW e \in T
  PROVE  /\ Len(q) \in Nat
         /\ Append(q, e) \in Seq(T) /\ Len(Append(q, e)) = Len(q) + 1
         /\ \A i \in 1..Len(q) : Append(q, e)[i] = q[i]
         /\ Append(q, e)[Len(q) + 1] = e
         /\ Append(q, e) # <<>>
BY AppendProperties, LenProperties
-------------------------------------------------------------------------------
(* Types *)

LEMMA Fields ==
  ASSUME TypeOK
  PROVE  /\ \A s \in Sender : /\ line[s] \in Seq(Message)
                            /\ turn[s] \in Turn
                            /\ stream[s] \in Seq(Event)
         /\ session.input \in Seq(Message)
         /\ session.now \in Message \cup {NoMessage}
         /\ session.said \in 0..MaxSays
         /\ session = [input |-> session.input, now |-> session.now, said |-> session.said]
BY DEF TypeOK

\* The parts of a turn change one by one.
LEMMA TurnType ==
  ASSUME NEW f \in [Sender -> Turn], NEW s \in Sender,
         NEW a \in {"none", "route", "ask", "listen", "after"}, NEW b \in BOOLEAN
  PROVE  /\ [f EXCEPT ![s].at = a] \in [Sender -> Turn]
         /\ [f EXCEPT ![s].spoke = b] \in [Sender -> Turn]
         /\ [f EXCEPT ![s].retry = b] \in [Sender -> Turn]
         /\ [f EXCEPT ![s] = NoTurn] \in [Sender -> Turn]
BY DEF Turn, NoTurn

\* The same for the queues of the members: one loses its head, one is emptied.
LEMMA QueueType ==
  ASSUME NEW T, NEW f \in [Sender -> Seq(T)], NEW s \in Sender
  PROVE  /\ f[s] # <<>> => [f EXCEPT ![s] = Tail(@)] \in [Sender -> Seq(T)]
         /\ [f EXCEPT ![s] = <<>>] \in [Sender -> Seq(T)]
         /\ \A e \in T : [f EXCEPT ![s] = Append(@, e)] \in [Sender -> Seq(T)]
<1>1. f[s] # <<>> => Tail(f[s]) \in Seq(T)
  BY Shorter
<1>2. \A e \in T : Append(f[s], e) \in Seq(T)
  BY Longer
<1>3. <<>> \in Seq(T)
  BY EmptySeq
<1> QED BY <1>1, <1>2, <1>3

LEMMA BroadcastType ==
  ASSUME TypeOK, NEW kind, NEW about, [kind |-> kind, about |-> about] \in Event,
         Broadcast(kind, about)
  PROVE  stream' \in [Sender -> Seq(Event)]
<1> DEFINE e == [kind |-> kind, about |-> about]
<1>1. \A s \in Sender : Heard(s, e) \in Seq(Event)
  BY Fields, Longer DEF Heard
<1> QED BY <1>1 DEF Broadcast

\* The session after it has come to rest or was interrupted.
LEMMA RestedType ==
  ASSUME TypeOK
  PROVE  [session EXCEPT !.now = NoMessage, !.said = 0]
           \in [input: Seq(Message), now: Message \cup {NoMessage}, said: 0..MaxSays]
<1>1. 0 \in 0..MaxSays
  OBVIOUS
<1> QED BY <1>1 DEF TypeOK

\* Whose turn is under way has a message in hand.
LEMMA InProgress ==
  ASSUME IInv, NEW s \in Sender, turn[s].at # "none"
  PROVE  /\ line[s] # <<>> /\ Current(s) \in Message
         /\ 1 \in 1..Len(line[s]) /\ Current(s) = line[s][1]
<1>1. line[s] # <<>> /\ line[s] \in Seq(Message)
  BY Fields DEF IInv, LinesSound
<1> QED BY <1>1, Shorter DEF Current

LEMMA FinishType ==
  ASSUME IInv, NEW s \in Sender, NEW failed, turn[s].at # "none", Finish(s, failed)
  PROVE  line' \in [Sender -> Seq(Message)] /\ turn' \in [Sender -> Turn]
<1>1. line \in [Sender -> Seq(Message)] /\ turn \in [Sender -> Turn] /\ line[s] # <<>>
  BY InProgress DEF IInv, TypeOK
<1> QED BY <1>1, QueueType, TurnType DEF Finish, NextInLine

LEMMA ReadType ==
  ASSUME TypeOK, NEW s \in Sender, NEW kind, Read(s, kind)
  PROVE  /\ Next1(s) \in Event /\ Next1(s).kind = kind
         /\ [stream EXCEPT ![s] = Tail(@)] \in [Sender -> Seq(Event)]
<1>1. stream \in [Sender -> Seq(Event)] /\ stream[s] # <<>>
  BY DEF Read, TypeOK
<1> QED BY <1>1, Shorter, QueueType DEF Next1, Read

\* What is said is said of the message in hand.
LEMMA SaidType ==
  ASSUME TypeOK, NEW s \in Sender, Current(s) \in Message,
         Tell(s) \/ GoneOut(s) \/ UNCHANGED <<spoken, lost>>
  PROVE  spoken' \subseteq Message /\ lost' \subseteq spoken'
BY DEF TypeOK, Tell, GoneOut

LEMMA TypeStep == IInv /\ [Next]_vars => TypeOK'
<1> SUFFICES ASSUME IInv, [Next]_vars PROVE TypeOK'
  OBVIOUS
<1>0. TypeOK
  BY DEF IInv
<1> USE DEF Goto
<1>1. ASSUME NEW m \in Message, Receive(m) PROVE TypeOK'
  <2>1. from[m] \in Sender
    BY <1>0 DEF TypeOK
  <2>2. line' \in [Sender -> Seq(Message)]
    <3>1. line \in [Sender -> Seq(Message)]
      BY <1>0 DEF TypeOK
    <3>2. [line EXCEPT ![from[m]] = Append(@, m)] \in [Sender -> Seq(Message)]
      BY <2>1, <3>1, QueueType
    <3> QED BY <1>1, <3>1, <3>2 DEF Receive
  <2>3. deliveries' \in 0..MaxDeliveries /\ claims' \subseteq Message
    BY <1>0, <1>1 DEF Receive, TypeOK
  <2> QED BY <1>0, <1>1, <2>2, <2>3 DEF Receive, TypeOK
<1>2. ASSUME NEW s \in Sender, Begin(s) PROVE TypeOK'
  BY <1>0, <1>2, TurnType DEF Begin, TypeOK
<1>3. ASSUME NEW s \in Sender, AnswerAtOnce(s) PROVE TypeOK'
  <2>1. line' \in [Sender -> Seq(Message)] /\ turn' \in [Sender -> Turn] /\ Current(s) \in Message
    BY <1>3, FinishType, InProgress DEF AnswerAtOnce
  <2>2. spoken' \subseteq Message /\ lost' \subseteq spoken'
    BY <1>0, <1>3, <2>1, SaidType DEF AnswerAtOnce
  <2> QED BY <1>0, <1>3, <2>1, <2>2 DEF AnswerAtOnce, TypeOK
<1>4. ASSUME NEW s \in Sender, OpenStream(s) PROVE TypeOK'
  <2>1. turn' \in [Sender -> Turn]
    BY <1>0, <1>4, TurnType DEF OpenStream, TypeOK
  <2>2. cut' \in BOOLEAN
    BY <1>0, <1>4 DEF OpenStream, TypeOK
  <2> QED BY <1>0, <1>4, <2>1, <2>2 DEF OpenStream, TypeOK
<1>5. ASSUME NEW s \in Sender, Ask(s) PROVE TypeOK'
  <2>1. turn' \in [Sender -> Turn] /\ Current(s) \in Message
    BY <1>0, <1>5, TurnType, InProgress DEF Ask, TypeOK
  <2>2. Append(session.input, Current(s)) \in Seq(Message)
    BY <1>0, <2>1, Fields, Longer
  <2> QED BY <1>0, <1>5, <2>1, <2>2, Fields DEF Ask, TypeOK
<1>6. ASSUME NEW s \in Sender, Deliver(s) \/ Fallback(s) PROVE TypeOK'
  <2>1. turn[s].at = "listen" /\ stream' \in [Sender -> Seq(Event)]
    BY <1>0, <1>6, ReadType DEF Deliver, Fallback, Read
  <2>2. turn' \in [Sender -> Turn] /\ Current(s) \in Message
    <3>1. turn \in [Sender -> Turn]
      BY <1>0 DEF TypeOK
    <3>2. [turn EXCEPT ![s].spoke = TRUE] \in [Sender -> Turn]
      BY <3>1, TurnType
    <3> QED BY <1>6, <2>1, <3>2, InProgress DEF Deliver, Fallback
  <2>3. stray' \in BOOLEAN
    BY <1>0, <1>6 DEF Deliver, Fallback, TypeOK
  <2>4. spoken' \subseteq Message /\ lost' \subseteq spoken'
    BY <1>0, <1>6, <2>2, SaidType DEF Deliver, Fallback
  <2> QED BY <1>0, <1>6, <2>1, <2>2, <2>3, <2>4 DEF Deliver, Fallback, TypeOK
<1>7. ASSUME NEW s \in Sender, Hold(s) PROVE TypeOK'
  <2>1. stream' \in [Sender -> Seq(Event)] /\ Next1(s).about \in Message
    BY <1>0, <1>7, ReadType DEF Hold, Event
  <2>2. turn' \in [Sender -> Turn]
    <3>1. turn[s].holds + 1 \in 0..MaxHolds
      BY <1>0, <1>7, Fields DEF Hold, MayHold, Turn
    <3>2. turn \in [Sender -> Turn]
      BY <1>0 DEF TypeOK
    <3>3. [turn[s] EXCEPT !.holds = @ + 1, !.retry = TRUE] \in Turn
      BY <3>1, <3>2 DEF Turn
    <3>4. turn' = [turn EXCEPT ![s] = [turn[s] EXCEPT !.holds = @ + 1, !.retry = TRUE]]
      BY <1>7 DEF Hold
    <3> QED BY <3>2, <3>3, <3>4
  <2>3. Append(session.input, Next1(s).about) \in Seq(Message)
    BY <1>0, <2>1, Fields, Longer
  <2>4. cut' \in BOOLEAN
    BY <1>0, <1>7, Fields DEF Hold, TypeOK, Turn
  <2> QED BY <1>0, <1>7, <2>1, <2>2, <2>3, <2>4, Fields DEF Hold, TypeOK
<1>8. ASSUME NEW s \in Sender, IdleAfterHold(s) PROVE TypeOK'
  <2>1. stream' \in [Sender -> Seq(Event)] /\ turn' \in [Sender -> Turn]
    BY <1>0, <1>8, ReadType, TurnType DEF IdleAfterHold, TypeOK
  <2> QED BY <1>0, <1>8, <2>1 DEF IdleAfterHold, TypeOK
<1>9. ASSUME NEW s \in Sender, Return(s) PROVE TypeOK'
  <2>1. stream' \in [Sender -> Seq(Event)] /\ turn' \in [Sender -> Turn]
    BY <1>0, <1>9, QueueType, TurnType DEF Return, TypeOK
  <2> QED BY <1>0, <1>9, <2>1 DEF Return, TypeOK
<1>10. ASSUME NEW s \in Sender, Timeout(s) PROVE TypeOK'
  <2>1. turn' \in [Sender -> Turn]
    BY <1>0, <1>10, TurnType DEF Timeout, TypeOK
  <2>2. stream' \in [Sender -> Seq(Event)]
    <3> DEFINE idle == [kind |-> "idle", about |-> NoMessage]
    <3>1. \A r \in Sender : Heard(r, idle) \in Seq(Event)
      BY <1>0, Fields, Longer DEF Heard, Event
    <3>2. <<>> \in Seq(Event) /\ [stream EXCEPT ![s] = <<>>] \in [Sender -> Seq(Event)]
      BY <1>0, EmptySeq, QueueType DEF TypeOK
    <3> QED BY <1>10, <3>1, <3>2 DEF Timeout
  <2>3. session' \in [input: Seq(Message), now: Message \cup {NoMessage}, said: 0..MaxSays]
    BY <1>0, <1>10, RestedType DEF Timeout, TypeOK
  <2> QED BY <1>0, <1>10, <2>1, <2>2, <2>3 DEF Timeout, TypeOK
<1>11. ASSUME NEW s \in Sender, WrapUp(s) PROVE TypeOK'
  <2>1. line' \in [Sender -> Seq(Message)] /\ turn' \in [Sender -> Turn] /\ Current(s) \in Message
    BY <1>11, FinishType, InProgress DEF WrapUp
  <2>2. spoken' \subseteq Message /\ lost' \subseteq spoken'
    BY <1>0, <1>11, <2>1, SaidType DEF WrapUp
  <2> QED BY <1>0, <1>11, <2>1, <2>2 DEF WrapUp, TypeOK
<1>12. ASSUME NEW s \in Sender, Fail(s) PROVE TypeOK'
  <2>1. line' \in [Sender -> Seq(Message)] /\ turn' \in [Sender -> Turn]
    BY <1>12, FinishType DEF Fail
  <2>2. stream' \in [Sender -> Seq(Event)] /\ claims' \subseteq Message
    BY <1>0, <1>12, QueueType DEF Fail, TypeOK
  <2>3. cut' \in BOOLEAN
    BY <1>0, <1>12 DEF Fail, TypeOK, Listening
  <2>4. spoken' \subseteq Message /\ lost' \subseteq spoken'
    <3>1. Current(s) \in Message
      BY <1>12, InProgress DEF Fail
    <3> QED BY <1>0, <1>12, <3>1, SaidType DEF Fail
  <2>5. stray' \in BOOLEAN
    BY <1>0, <1>12 DEF Fail, GoneOut, TypeOK
  <2> QED BY <1>0, <1>12, <2>1, <2>2, <2>3, <2>4, <2>5 DEF Fail, TypeOK
<1>13. ASSUME TakeUp PROVE TypeOK'
  <2>1. Head(session.input) \in Message /\ Tail(session.input) \in Seq(Message)
    BY <1>0, <1>13, Fields, Shorter DEF TakeUp
  <2> QED BY <1>0, <1>13, <2>1 DEF TakeUp, TypeOK, sessionRest
<1>14. ASSUME Say PROVE TypeOK'
  <2>1. stream' \in [Sender -> Seq(Event)]
    BY <1>0, <1>14, Fields, BroadcastType DEF Say, Event
  <2>2. session.said + 1 \in 0..MaxSays
    BY <1>0, <1>14, Fields DEF Say
  <2> QED BY <1>0, <1>14, <2>1, <2>2, Fields DEF Say, TypeOK, sessionRest
<1>15. ASSUME Rest PROVE TypeOK'
  <2>1. stream' \in [Sender -> Seq(Event)]
    BY <1>0, <1>15, BroadcastType DEF Rest, Event
  <2> QED BY <1>0, <1>15, <2>1, RestedType DEF Rest, TypeOK, sessionRest
<1>16. ASSUME Terminate PROVE TypeOK'
  <2>1. stream' \in [Sender -> Seq(Event)]
    BY <1>0, <1>16, BroadcastType DEF Terminate, Event
  <2> QED BY <1>0, <1>16, <2>1, EmptySeq DEF Terminate, TypeOK, sessionRest, FreshSession
<1>17. ASSUME Crash PROVE TypeOK'
  <2>1. /\ line' \in [Sender -> Seq(Message)] /\ turn' \in [Sender -> Turn]
        /\ stream' \in [Sender -> Seq(Event)]
    BY <1>17, EmptySeq DEF Crash, NoTurn, Turn
  <2>2. cut' \in BOOLEAN
    BY <1>0, <1>17 DEF Crash, TypeOK
  <2> QED BY <1>0, <1>17, <2>1, <2>2 DEF Crash, TypeOK
<1>18. CASE UNCHANGED vars
  BY <1>0, <1>18 DEF TypeOK, vars
<1> QED
  BY <1>1, <1>2, <1>3, <1>4, <1>5, <1>6, <1>7, <1>8, <1>9, <1>10, <1>11, <1>12, <1>13, <1>14,
     <1>15, <1>16, <1>17, <1>18 DEF Next, Process
-------------------------------------------------------------------------------
(* The claims of what is in hand, and of what was answered *)

LinesInv == LinesSound /\ SpokenIsClaimed

\* What becomes known to have been said: the message in hand, or nothing.
LEMMA Known ==
  /\ UNCHANGED <<spoken, lost>> => Acknowledged' = Acknowledged
  /\ \A s \in Sender : Tell(s) => Acknowledged' = Acknowledged \cup {Current(s)}
  /\ \A s \in Sender : GoneOut(s) => Acknowledged' = Acknowledged
BY DEF Acknowledged, Tell, GoneOut

\* Steps that touch no line, claim or answer, and neither begin nor end a turn.
Quiet ==
  /\ UNCHANGED <<from, claims, line, Acknowledged>>
  /\ \A s \in Sender : /\ turn'[s].at = "none" <=> turn[s].at = "none"
                       /\ turn'[s].spoke = turn[s].spoke

LEMMA QuietSteps == LinesInv /\ Quiet => LinesInv'
BY DEF LinesInv, LinesSound, SpokenIsClaimed, Quiet, Waits, Current

LEMMA QuietActions ==
  ASSUME TypeOK, NEW s \in Sender,
         \/ OpenStream(s) \/ Ask(s) \/ Hold(s) \/ IdleAfterHold(s) \/ Return(s) \/ Timeout(s)
  PROVE  Quiet
<1>1. turn \in [Sender -> Turn]
  BY DEF TypeOK
<1>2. UNCHANGED <<from, claims, line, Acknowledged>>
  BY Known DEF OpenStream, Ask, Hold, IdleAfterHold, Return, Timeout
<1>3. CASE OpenStream(s) \/ Ask(s)
  BY <1>1, <1>2, <1>3 DEF Quiet, OpenStream, Ask, Goto, Turn
<1>4. CASE Hold(s) \/ IdleAfterHold(s)
  <2>1. turn[s].at = "listen"
    BY <1>4 DEF Hold, IdleAfterHold, Read
  <2>3. turn'[s].at = turn[s].at /\ turn'[s].spoke = turn[s].spoke
    <3>1. CASE Hold(s)
      <4>1. turn'[s] = [turn[s] EXCEPT !.holds = @ + 1, !.retry = TRUE]
        BY <1>1, <3>1 DEF Hold
      <4> QED BY <1>1, <4>1 DEF Turn
    <3>2. CASE IdleAfterHold(s)
      <4>1. turn'[s] = [turn[s] EXCEPT !.retry = FALSE]
        BY <1>1, <3>2 DEF IdleAfterHold
      <4> QED BY <1>1, <4>1 DEF Turn
    <3> QED BY <1>4, <3>1, <3>2
  <2>4. \A r \in Sender \ {s} : turn'[r] = turn[r]
    BY <1>1, <1>4 DEF Hold, IdleAfterHold
  <2> QED BY <1>2, <2>3, <2>4 DEF Quiet
<1>5. CASE Return(s) \/ Timeout(s)
  BY <1>1, <1>2, <1>5 DEF Quiet, Return, Timeout, Goto, Turn
<1> QED BY <1>3, <1>4, <1>5

\* A message comes in: it is claimed, joins its sender's line at the end, and
\* was not there, because whatever is in hand is claimed.
LEMMA ReceiveStep ==
  ASSUME IInv, NEW m \in Message, Receive(m)
  PROVE  LinesInv'
<1>a. Acknowledged' = Acknowledged
  BY Known DEF Receive
<1>1. CASE m \in claims
  BY <1>a, <1>1 DEF Receive, IInv, LinesInv, LinesSound, SpokenIsClaimed, Waits, Current
<1>2. CASE m \notin claims
  <2>0. PICK r \in Sender : r = from[m]
    BY DEF IInv, TypeOK
  <2>1. line \in [Sender -> Seq(Message)] /\ line[r] \in Seq(Message)
    BY DEF IInv, TypeOK
  <2>2. /\ claims' = claims \cup {m} /\ line' = [line EXCEPT ![r] = Append(@, m)]
        /\ UNCHANGED <<from, turn, Acknowledged>> /\ m \notin Acknowledged
    BY <1>a, <1>2, <2>0 DEF Receive, IInv, SpokenIsClaimed
  <2>3. /\ Len(line[r]) \in Nat /\ Len(line'[r]) = Len(line[r]) + 1
        /\ \A i \in 1..Len(line[r]) : line'[r][i] = line[r][i]
        /\ line'[r][Len(line[r]) + 1] = m
        /\ line'[r] # <<>>
    <3>1. line'[r] = Append(line[r], m)
      BY <2>1, <2>2
    <3> QED BY <2>1, <3>1, Longer
  <2>4. \A s \in Sender \ {r} : line'[s] = line[s]
    BY <2>1, <2>2
  <2>5. \A s \in Sender : \A i \in 1..Len(line[s]) :
          line[s][i] \in claims /\ line[s][i] # m /\ from[line[s][i]] = s
    BY <1>2 DEF IInv, LinesSound
  <2>6. LinesSound'
    <3> SUFFICES ASSUME NEW s \in Sender
                 PROVE  /\ turn[s].at # "none" => line'[s] # <<>>
                        /\ \A i \in 1..Len(line'[s]) : line'[s][i] \in claims' /\ from[line'[s][i]] = s
                        /\ \A i, j \in 1..Len(line'[s]) : line'[s][i] = line'[s][j] => i = j
      BY <2>2 DEF LinesSound
    <3>1. CASE s = r
      BY <2>0, <2>2, <2>3, <2>5, <3>1 DEF IInv, LinesSound
    <3>2. CASE s # r
      BY <2>2, <2>4, <3>2 DEF IInv, LinesSound
    <3> QED BY <3>1, <3>2
  <2>7. SpokenIsClaimed'
    <3>1. Acknowledged' \subseteq claims'
      BY <2>2 DEF IInv, SpokenIsClaimed
    <3>2. ASSUME NEW s \in Sender
          PROVE  /\ \A i \in 1..Len(line'[s]) : Waits(s, i)' => line'[s][i] \notin Acknowledged
                 /\ turn[s].at # "none" /\ Current(s)' \in Acknowledged => turn[s].spoke
      <4>1. CASE s # r
        BY <2>2, <2>4, <4>1 DEF IInv, SpokenIsClaimed, Waits, Current
      <4>2. CASE s = r
        <5>1. \A i \in 1..Len(line'[r]) : Waits(r, i)' => line'[r][i] \notin Acknowledged
          <6>1. \A i \in 1..Len(line[r]) : Waits(r, i) => line[r][i] \notin Acknowledged
            BY DEF IInv, SpokenIsClaimed
          <6>2. \A i : Waits(r, i)' <=> Waits(r, i)
            BY <2>2 DEF Waits
          <6>3. \A i \in 1..Len(line'[r]) : i \in 1..Len(line[r]) \/ i = Len(line[r]) + 1
            BY <2>3
          <6> QED BY <2>2, <2>3, <6>1, <6>2, <6>3
        <5>2. ASSUME turn[r].at # "none" PROVE Current(r)' = Current(r)
          <6>1. line[r] # <<>> /\ 1 \in 1..Len(line[r]) /\ Current(r) = line[r][1]
            BY <2>1, <5>2, InProgress
          <6>2. line'[r] \in Seq(Message) /\ Head(line'[r]) = line'[r][1]
            BY <2>1, <2>2, <2>3, Longer, Shorter
          <6> QED BY <2>3, <6>1, <6>2 DEF Current
        <5> QED BY <2>1, <4>2, <5>1, <5>2 DEF IInv, SpokenIsClaimed
      <4> QED BY <4>1, <4>2
    <3> QED BY <2>2, <3>1, <3>2 DEF SpokenIsClaimed
  <2> QED BY <2>6, <2>7 DEF LinesInv
<1> QED BY <1>1, <1>2

\* The turn of the head of a line begins: it was waiting, so nothing was said to it.
LEMMA BeginStep ==
  ASSUME IInv, NEW s \in Sender, Begin(s)
  PROVE  LinesInv' /\ Current(s) \notin Acknowledged
<1>1. turn[s].at = "none" /\ line[s] # <<>> /\ UNCHANGED <<from, claims, line, Acknowledged>>
  BY Known DEF Begin, Goto
<1>2. 1 \in 1..Len(line[s]) /\ Current(s) = line[s][1]
  BY <1>1, Fields, Shorter DEF IInv, Current
<1>3. Current(s) \notin Acknowledged
  BY <1>1, <1>2 DEF IInv, SpokenIsClaimed, Waits
<1>4. turn'[s].at = "route" /\ \A r \in Sender \ {s} : turn'[r] = turn[r]
  BY DEF Begin, Goto, IInv, TypeOK, Turn
<1>5. LinesSound'
  BY <1>1, <1>4 DEF IInv, LinesSound
<1>6. SpokenIsClaimed'
  <2>1. \A r \in Sender, i \in Int : Waits(r, i)' => Waits(r, i)
    BY <1>1, <1>4 DEF Waits
  <2>2. \A r \in Sender : Current(r)' = Current(r)
    BY <1>1 DEF Current
  <2> QED BY <1>1, <1>3, <1>4, <2>1, <2>2 DEF IInv, SpokenIsClaimed
<1> QED BY <1>3, <1>5, <1>6 DEF LinesInv

\* The sender hears of the message in hand, and its turn knows.
LEMMA SpeakStep ==
  ASSUME IInv, NEW s \in Sender, Deliver(s) \/ Fallback(s)
  PROVE  LinesInv'
<1>1. /\ turn[s].at = "listen" /\ UNCHANGED <<from, claims, line>>
      /\ Acknowledged' = Acknowledged \cup {Current(s)}
      /\ turn' = [turn EXCEPT ![s].spoke = TRUE]
  BY Known DEF Deliver, Fallback, Read
<1>2. turn'[s].at = "listen" /\ turn'[s].spoke /\ \A r \in Sender \ {s} : turn'[r] = turn[r]
  BY <1>1 DEF IInv, TypeOK, Turn
<1>3. LinesSound'
  BY <1>1, <1>2 DEF IInv, LinesSound
<1>4. 1 \in 1..Len(line[s]) /\ Current(s) = line[s][1] /\ Current(s) \in claims /\ from[Current(s)] = s
  BY <1>1, InProgress DEF IInv, LinesSound
<1>5. \A r \in Sender : \A i \in 1..Len(line[r]) : line[r][i] = Current(s) => r = s /\ i = 1
  BY <1>4 DEF IInv, LinesSound
<1>6. ASSUME NEW r \in Sender
      PROVE  /\ \A i \in 1..Len(line[r]) : Waits(r, i)' => line[r][i] \notin Acknowledged'
             /\ turn'[r].at # "none" /\ Current(r) \in Acknowledged' => turn'[r].spoke
  <2>1. CASE r = s
    BY <1>1, <1>2, <1>5, <2>1 DEF IInv, SpokenIsClaimed, Waits
  <2>2. CASE r # s
    <3>1. turn[r].at # "none" => Current(r) # Current(s)
      BY <1>5, <2>2, InProgress
    <3> QED BY <1>1, <1>2, <1>5, <2>2, <3>1 DEF IInv, SpokenIsClaimed, Waits
  <2> QED BY <2>1, <2>2
<1>7. SpokenIsClaimed'
  <2>1. Acknowledged' \subseteq claims'
    BY <1>1, <1>4 DEF IInv, SpokenIsClaimed
  <2>2. \A r \in Sender : Current(r)' = Current(r)
    BY <1>1 DEF Current
  <2> QED BY <1>1, <1>6, <2>1, <2>2 DEF SpokenIsClaimed
<1> QED BY <1>3, <1>7 DEF LinesInv

\* The message in hand is done with: it leaves the line, and its claim is released
\* only if nothing was said to it.
LEMMA FinishStep ==
  ASSUME IInv, NEW s \in Sender, NEW failed, turn[s].at # "none", Finish(s, failed), from' = from,
         \/ claims' = claims /\ Acknowledged' \in {Acknowledged, Acknowledged \cup {Current(s)}}
         \/ claims' = claims \ {Current(s)} /\ ~turn[s].spoke /\ Acknowledged' = Acknowledged
  PROVE  LinesInv'
<1>1. /\ line[s] \in Seq(Message) /\ line[s] # <<>>
      /\ 1 \in 1..Len(line[s]) /\ Current(s) = line[s][1]
      /\ Current(s) \in claims /\ from[Current(s)] = s
  BY InProgress, Fields DEF IInv, LinesSound
<1>2. line'[s] = Tail(line[s]) /\ \A r \in Sender \ {s} : line'[r] = line[r]
  BY DEF Finish, NextInLine, IInv, TypeOK
<1>3. /\ Len(line[s]) \in Nat /\ Len(line'[s]) = Len(line[s]) - 1
      /\ \A i \in 1..Len(line'[s]) : i + 1 \in 2..Len(line[s]) /\ line'[s][i] = line[s][i + 1]
  BY <1>1, <1>2, Shorter
<1>4. turn'[s].at = "none" /\ \A r \in Sender \ {s} : turn'[r] = turn[r]
  BY DEF Finish, NoTurn, IInv, TypeOK
<1>5. \A r \in Sender : \A i \in 1..Len(line[r]) : line[r][i] = Current(s) => r = s /\ i = 1
  BY <1>1 DEF IInv, LinesSound
<1>6. \A i \in 1..Len(line'[s]) :
        /\ line'[s][i] \in claims /\ line'[s][i] # Current(s) /\ from[line'[s][i]] = s
        /\ line'[s][i] \notin Acknowledged
  <2> SUFFICES ASSUME NEW i \in 1..Len(line'[s])
               PROVE  /\ line'[s][i] \in claims /\ line'[s][i] # Current(s) /\ from[line'[s][i]] = s
                      /\ line'[s][i] \notin Acknowledged
    OBVIOUS
  <2>1. i + 1 \in 1..Len(line[s]) /\ i + 1 > 1 /\ line'[s][i] = line[s][i + 1]
    BY <1>3
  <2> QED BY <1>5, <2>1 DEF IInv, LinesSound, SpokenIsClaimed, Waits
<1>7. \A i, j \in 1..Len(line'[s]) : line'[s][i] = line'[s][j] => i = j
  <2> SUFFICES ASSUME NEW i \in 1..Len(line'[s]), NEW j \in 1..Len(line'[s]), line'[s][i] = line'[s][j]
               PROVE  i = j
    OBVIOUS
  <2>1. i + 1 \in 1..Len(line[s]) /\ j + 1 \in 1..Len(line[s]) /\ line[s][i + 1] = line[s][j + 1]
    BY <1>3
  <2>2. i + 1 = j + 1
    BY <2>1 DEF IInv, LinesSound
  <2> QED BY <2>2
<1>8. LinesSound'
  <2> SUFFICES ASSUME NEW r \in Sender
               PROVE  /\ turn'[r].at # "none" => line'[r] # <<>>
                      /\ \A i \in 1..Len(line'[r]) : line'[r][i] \in claims' /\ from[line'[r][i]] = r
                      /\ \A i, j \in 1..Len(line'[r]) : line'[r][i] = line'[r][j] => i = j
    BY DEF LinesSound
  <2>1. CASE r = s
    BY <1>4, <1>6, <1>7, <2>1
  <2>2. CASE r # s
    <3>1. line'[r] = line[r] /\ turn'[r] = turn[r]
      BY <1>2, <1>4, <2>2
    <3>2. \A i \in 1..Len(line[r]) : line[r][i] \in claims' /\ from'[line[r][i]] = r
      BY <1>5, <2>2 DEF IInv, LinesSound
    <3> QED BY <3>1, <3>2 DEF IInv, LinesSound
  <2> QED BY <2>1, <2>2
<1>9. SpokenIsClaimed'
  <2>1. Acknowledged' \subseteq claims'
    BY <1>1 DEF IInv, SpokenIsClaimed
  <2>2. ASSUME NEW r \in Sender
        PROVE  /\ \A i \in 1..Len(line'[r]) : Waits(r, i)' => line'[r][i] \notin Acknowledged'
               /\ turn'[r].at # "none" /\ Current(r)' \in Acknowledged' => turn'[r].spoke
    <3>1. CASE r = s
      BY <1>4, <1>6, <3>1
    <3>2. CASE r # s
      <4>1. Current(r)' = Current(r) /\ \A i \in Int : Waits(r, i)' <=> Waits(r, i)
        BY <1>2, <1>4, <3>2 DEF Current, Waits
      <4>2. turn[r].at # "none" => Current(r) # Current(s)
        BY <1>5, <3>2, InProgress
      <4> QED BY <1>2, <1>4, <1>5, <3>2, <4>1, <4>2 DEF IInv, SpokenIsClaimed
    <3> QED BY <3>1, <3>2
  <2> QED BY <2>1, <2>2 DEF SpokenIsClaimed
<1> QED BY <1>8, <1>9 DEF LinesInv

LEMMA CrashStep ==
  ASSUME IInv, Crash
  PROVE  LinesInv'
<1>1. \A s \in Sender : line'[s] = <<>> /\ Len(line'[s]) = 0 /\ turn'[s].at = "none"
  BY EmptySeq DEF Crash, NoTurn
<1>2. Acknowledged' = Acknowledged
  BY Known DEF Crash
<1> QED BY <1>1, <1>2 DEF Crash, IInv, LinesInv, LinesSound, SpokenIsClaimed

LEMMA LinesStep == IInv /\ [Next]_vars => LinesInv'
<1> SUFFICES ASSUME IInv, [Next]_vars PROVE LinesInv'
  OBVIOUS
<1>0. TypeOK /\ LinesInv
  BY DEF IInv, LinesInv
<1>1. ASSUME NEW m \in Message, Receive(m) PROVE LinesInv'
  BY <1>1, ReceiveStep
<1>2. ASSUME NEW s \in Sender, Begin(s) PROVE LinesInv'
  BY <1>2, BeginStep
<1>3. ASSUME NEW s \in Sender,
             \/ OpenStream(s) \/ Ask(s) \/ Hold(s) \/ IdleAfterHold(s) \/ Return(s) \/ Timeout(s)
      PROVE  LinesInv'
  BY <1>0, <1>3, QuietActions, QuietSteps
<1>4. ASSUME NEW s \in Sender, Deliver(s) \/ Fallback(s) PROVE LinesInv'
  BY <1>4, SpeakStep
<1>5. ASSUME NEW s \in Sender, AnswerAtOnce(s) \/ WrapUp(s) PROVE LinesInv'
  <2>1. /\ turn[s].at # "none" /\ Finish(s, FALSE) /\ from' = from /\ claims' = claims
        /\ Acknowledged' \in {Acknowledged, Acknowledged \cup {Current(s)}}
    BY <1>5, Known DEF AnswerAtOnce, WrapUp
  <2> QED BY <2>1, FinishStep
<1>6. ASSUME NEW s \in Sender, Fail(s) PROVE LinesInv'
  <2>1. /\ turn[s].at # "none" /\ Finish(s, TRUE) /\ from' = from /\ Acknowledged' = Acknowledged
        /\ claims' = claims \/ (claims' = claims \ {Current(s)} /\ ~turn[s].spoke)
    BY <1>6, Known DEF Fail, Releasable
  <2> QED BY <2>1, FinishStep
<1>7. ASSUME TakeUp \/ Say \/ Rest \/ Terminate \/ UNCHANGED vars PROVE LinesInv'
  <2>1. Quiet
    BY <1>7, Known DEF Quiet, TakeUp, Say, Rest, Terminate, sessionRest, vars
  <2> QED BY <1>0, <2>1, QuietSteps
<1>8. ASSUME Crash PROVE LinesInv'
  BY <1>8, CrashStep
<1> QED BY <1>1, <1>2, <1>3, <1>4, <1>5, <1>6, <1>7, <1>8 DEF Next, Process

LEMMA Initially == Init => IInv
<1> SUFFICES ASSUME Init PROVE IInv
  OBVIOUS
<1>1. TypeOK
  <2>1. deliveries \in 0..MaxDeliveries /\ 0 \in 0..MaxHolds /\ 0 \in 0..MaxSays
    BY BoundAssumption DEF Init
  <2>2. line \in [Sender -> Seq(Message)]
    BY EmptySeq DEF Init
  <2>3. stream \in [Sender -> Seq(Event)]
    BY EmptySeq DEF Init
  <2>4. turn \in [Sender -> Turn]
    BY <2>1 DEF Init, Turn, NoTurn
  <2>5. session \in [input: Seq(Message), now: Message \cup {NoMessage}, said: 0..MaxSays]
    BY <2>1, EmptySeq DEF Init, FreshSession
  <2> QED BY <2>1, <2>2, <2>3, <2>4, <2>5 DEF Init, TypeOK
<1>2. \A s \in Sender : line[s] = <<>> /\ Len(line[s]) = 0 /\ turn[s].at = "none"
  BY EmptySeq DEF Init, NoTurn
<1> QED BY <1>1, <1>2 DEF Init, IInv, LinesSound, SpokenIsClaimed, Acknowledged

LEMMA Invariance == Spec => []IInv
<1>1. IInv /\ [Next]_vars => IInv'
  BY TypeStep, LinesStep DEF IInv, LinesInv
<1> QED BY Initially, <1>1, PTL DEF Spec
-------------------------------------------------------------------------------
\* Every reachable state is well typed, for any messages, members and bounds:
\* holds never pass MAX_HOLDS_PER_TURN, and a corrective input names a message.
THEOREM TypeCorrect == Spec => []TypeOK
<1>1. IInv => TypeOK
  BY DEF IInv
<1> QED BY Invariance, <1>1, PTL

\* What is in hand is claimed and in one line, once; a message with an answer that
\* Meta acknowledged keeps its claim and does not wait.
THEOREM AnsweredKeepsItsClaim == Spec => [](LinesSound /\ SpokenIsClaimed)
<1>1. IInv => LinesSound /\ SpokenIsClaimed
  BY DEF IInv
<1> QED BY Invariance, <1>1, PTL

\* A message that was answered is not taken up again, whatever Meta delivers and
\* whatever fails after the answer was acknowledged.  One is answered again only if
\* all that was sent for it threw although it had gone out.
THEOREM AnsweredOnce == Spec => SpokenOnce
<1>1. IInv /\ [Next]_vars =>
        [\A s \in Sender : Begin(s) /\ Current(s) \in spoken => Current(s) \in lost]_vars
  BY BeginStep DEF Acknowledged
<1> QED BY Invariance, <1>1, PTL DEF Spec, SpokenOnce
-------------------------------------------------------------------------------
(* Whose answers a turn hears *)

\* Nobody else has left an input behind, and the agent is at rest.
NoWork == session.input = <<>> /\ session.now = NoMessage

IdleAt(q) == {i \in 1..Len(q) : q[i].kind = "idle"}

\* Idles the session still owes for what it has been asked.
Due == IF session.now = NoMessage THEN Len(session.input) ELSE Len(session.input) + 1

\* All that is asked and said is about the message in hand.
OwnTalk(s) ==
  /\ \A i \in 1..Len(stream[s]) : stream[s][i].kind = "say" => stream[s][i].about = Current(s)
  /\ \A i \in 1..Len(session.input) : session.input[i] = Current(s)
  /\ session.now \in {NoMessage, Current(s)}

\* The turn ends at the last idle there will be: the one of a held answer is extra.
IdlesOwed(s) ==
  Cardinality(IdleAt(stream[s])) + Due = IF turn[s].retry THEN 2 ELSE 1

OneListens == \A s, r \in Sender : Listening(s) /\ Listening(r) => s = r

\* Turns that nothing cut off follow one another, and each leaves the session at rest.
Orderly ==
  /\ ~stray /\ OneListens
  /\ (\A s \in Sender : ~Listening(s)) => NoWork
  /\ \A s \in Sender :
       /\ Listening(s) => OwnTalk(s)
       /\ Listening(s) /\ ~Live(s) => NoWork
       /\ turn[s].at = "ask" => NoWork /\ IdleAt(stream[s]) = {}
       /\ turn[s].at = "listen" /\ Live(s) => IdlesOwed(s)

\* Who does not listen has an empty stream, and a turn that has not asked was not held.
Streams ==
  \A s \in Sender :
    /\ ~Listening(s) => stream[s] = <<>>
    /\ turn[s].at \in {"none", "route", "ask"} => ~turn[s].retry

LEMMA IdleCount ==
  ASSUME NEW q \in Seq(Event)
  PROVE  /\ IsFiniteSet(IdleAt(q)) /\ Cardinality(IdleAt(q)) \in Nat
         /\ IdleAt(q) \subseteq 1..Len(q)
<1>1. IdleAt(q) \in SUBSET (1..Len(q)) /\ Len(q) \in Nat
  BY LenProperties DEF IdleAt
<1>2. IsFiniteSet(1..Len(q))
  BY <1>1, FS_Interval
<1> QED BY <1>1, <1>2, FS_Subset, FS_CardinalityType

LEMMA IdleCountAppend ==
  ASSUME NEW q \in Seq(Event), NEW e \in Event
  PROVE  /\ e.kind # "idle" => IdleAt(Append(q, e)) = IdleAt(q)
         /\ e.kind = "idle" =>
              Cardinality(IdleAt(Append(q, e))) = Cardinality(IdleAt(q)) + 1
<1> DEFINE n == Len(q)
<1>1. /\ n \in Nat /\ Len(Append(q, e)) = n + 1 /\ Append(q, e)[n + 1] = e
      /\ \A i \in 1..n : Append(q, e)[i] = q[i]
  BY Longer
<1>2. 1..(n + 1) = (1..n) \cup {n + 1}
  BY <1>1
<1> HIDE DEF n
<1>3. ASSUME e.kind # "idle" PROVE IdleAt(Append(q, e)) = IdleAt(q)
  BY <1>1, <1>2, <1>3 DEF IdleAt, n
<1>4. ASSUME e.kind = "idle" PROVE IdleAt(Append(q, e)) = IdleAt(q) \cup {n + 1}
  BY <1>1, <1>2, <1>4 DEF IdleAt, n
<1>5. n + 1 \notin IdleAt(q)
  BY <1>1 DEF IdleAt, n
<1> QED BY <1>3, <1>4, <1>5, IdleCount, FS_AddElement

LEMMA IdleCountTail ==
  ASSUME NEW q \in Seq(Event), q # <<>>
  PROVE  /\ Head(q).kind # "idle" => Cardinality(IdleAt(q)) = Cardinality(IdleAt(Tail(q)))
         /\ Head(q).kind = "idle" => Cardinality(IdleAt(q)) = Cardinality(IdleAt(Tail(q))) + 1
<1> DEFINE S == IdleAt(Tail(q))
           T == IdleAt(q) \ {1}
           f == [i \in S |-> i + 1]
<1>1. /\ Len(q) \in Nat /\ Len(q) >= 1 /\ Head(q) = q[1]
      /\ Tail(q) \in Seq(Event) /\ Len(Tail(q)) = Len(q) - 1
      /\ \A i \in 1..Len(Tail(q)) : i + 1 \in 2..Len(q) /\ Tail(q)[i] = q[i + 1]
  BY Shorter
<1>2. f \in Bijection(S, T)
  <2>1. f \in [S -> T]
    BY <1>1 DEF IdleAt
  <2>2. \A i, j \in S : f[i] = f[j] => i = j
    BY <1>1 DEF IdleAt
  <2>3. \A j \in T : \E i \in S : f[i] = j
    <3> SUFFICES ASSUME NEW j \in T PROVE \E i \in S : f[i] = j
      OBVIOUS
    <3>1. j - 1 \in 1..Len(Tail(q)) /\ (j - 1) + 1 = j
      BY <1>1 DEF IdleAt
    <3>2. j - 1 \in S
      BY <1>1, <3>1 DEF IdleAt
    <3> QED BY <3>1, <3>2
  <2> QED BY <2>1, <2>2, <2>3, Fun_IsBij
<1>3. IsFiniteSet(S) /\ Cardinality(S) = Cardinality(T) /\ Cardinality(S) \in Nat
  <2>1. ExistsBijection(S, T)
    BY <1>2 DEF ExistsBijection
  <2> QED BY <1>1, <2>1, IdleCount, FS_Bijection
<1>4. 1 \in IdleAt(q) <=> Head(q).kind = "idle"
  BY <1>1 DEF IdleAt
<1>5. /\ IsFiniteSet(IdleAt(q)) /\ Cardinality(IdleAt(q)) \in Nat
      /\ Cardinality(T) = IF 1 \in IdleAt(q) THEN Cardinality(IdleAt(q)) - 1 ELSE Cardinality(IdleAt(q))
  BY IdleCount, FS_RemoveElement
<1> HIDE DEF S, T
<1>6. Cardinality(S) = IF Head(q).kind = "idle" THEN Cardinality(IdleAt(q)) - 1 ELSE Cardinality(IdleAt(q))
  BY <1>3, <1>4, <1>5
<1> QED BY <1>3, <1>5, <1>6 DEF S

\* Steps of those who do not listen leave what the others hear alone.
LEMMA AsideStep ==
  ASSUME Orderly, UNCHANGED <<session, stray>>,
         \A s \in Sender : Listening(s)' <=> Listening(s),
         \A s \in Sender : Listening(s) =>
           turn'[s] = turn[s] /\ stream'[s] = stream[s] /\ Current(s)' = Current(s)
  PROVE  Orderly'
<1>1. ~stray' /\ OneListens' /\ ((\A s \in Sender : ~Listening(s)') => NoWork')
  BY DEF Orderly, OneListens, NoWork
<1>2. ASSUME NEW s \in Sender, Listening(s)
      PROVE  /\ OwnTalk(s)' /\ (~Live(s)' => NoWork')
             /\ turn'[s].at = "ask" => NoWork' /\ IdleAt(stream'[s]) = {}
             /\ turn'[s].at = "listen" /\ Live(s)' => IdlesOwed(s)'
  <2>1. /\ turn'[s] = turn[s] /\ stream'[s] = stream[s] /\ Current(s)' = Current(s)
        /\ session' = session
    BY <1>2
  <2>2. Live(s)' <=> Live(s)
    BY <2>1 DEF Live
  <2>3. NoWork' <=> NoWork
    BY <2>1 DEF NoWork
  <2>4. OwnTalk(s)' <=> OwnTalk(s)
    BY <2>1 DEF OwnTalk
  <2>5. IdlesOwed(s)' <=> IdlesOwed(s)
    BY <2>1 DEF IdlesOwed, Due
  <2> QED BY <1>2, <2>1, <2>2, <2>3, <2>4, <2>5 DEF Orderly
<1>3. \A s \in Sender : turn'[s].at \in {"ask", "listen"} => Listening(s)
  BY DEF Listening
<1> QED BY <1>1, <1>2, <1>3 DEF Orderly

\* The only one who listens is enough: the others hear nothing.
LEMMA OneIsEnough ==
  ASSUME NEW s \in Sender, ~stray', \A r \in Sender \ {s} : ~Listening(r)',
         ~Listening(s)' => NoWork',
         Listening(s)' => OwnTalk(s)',
         Listening(s)' /\ ~Live(s)' => NoWork',
         turn'[s].at = "ask" => NoWork' /\ IdleAt(stream'[s]) = {},
         turn'[s].at = "listen" /\ Live(s)' => IdlesOwed(s)'
  PROVE  Orderly'
<1>1. \A r \in Sender : turn'[r].at \in {"ask", "listen"} => r = s
  BY DEF Listening
<1> QED BY <1>1 DEF Orderly, OneListens, Listening

\* What a turn has to know of the one who listens.
LEMMA Listener ==
  ASSUME IInv, Orderly, NEW s \in Sender, Listening(s)
  PROVE  /\ OwnTalk(s) /\ ~stray /\ \A r \in Sender \ {s} : ~Listening(r)
         /\ ~Live(s) => NoWork
         /\ turn \in [Sender -> Turn] /\ stream \in [Sender -> Seq(Event)]
         /\ stream[s] \in Seq(Event) /\ session.input \in Seq(Message)
         /\ Len(session.input) \in Nat /\ session.now \in Message \cup {NoMessage}
         /\ Current(s) \in Message
<1>1. turn[s].at # "none"
  BY DEF Listening
<1> QED BY <1>1, Fields, InProgress, LenProperties DEF Orderly, OneListens, IInv, TypeOK

\* Reading one event leaves the rest of the stream as it was.
LEMMA ReadRest ==
  ASSUME IInv, NEW s \in Sender, NEW kind, Read(s, kind),
         stream' = [stream EXCEPT ![s] = Tail(@)]
  PROVE  /\ stream'[s] \in Seq(Event) /\ Next1(s) = stream[s][1] /\ 1 \in 1..Len(stream[s])
         /\ \A i \in 1..Len(stream'[s]) : i + 1 \in 1..Len(stream[s]) /\ stream'[s][i] = stream[s][i + 1]
         /\ Cardinality(IdleAt(stream'[s])) \in Nat
         /\ kind # "idle" => Cardinality(IdleAt(stream[s])) = Cardinality(IdleAt(stream'[s]))
         /\ kind = "idle" => Cardinality(IdleAt(stream[s])) = Cardinality(IdleAt(stream'[s])) + 1
         /\ kind # "over" => (Live(s)' <=> Live(s))
<1>1. /\ stream \in [Sender -> Seq(Event)] /\ stream[s] # <<>> /\ Head(stream[s]).kind = kind
      /\ stream'[s] = Tail(stream[s])
  BY DEF Read, Next1, IInv, TypeOK
<1>2. /\ stream[s] \in Seq(Event) /\ Len(stream[s]) \in Nat /\ Len(stream[s]) >= 1
      /\ Head(stream[s]) = stream[s][1]
      /\ stream'[s] \in Seq(Event) /\ Len(stream'[s]) = Len(stream[s]) - 1
      /\ \A i \in 1..Len(stream'[s]) : i + 1 \in 2..Len(stream[s]) /\ stream'[s][i] = stream[s][i + 1]
  BY <1>1, Shorter
<1>3. /\ Cardinality(IdleAt(stream'[s])) \in Nat
      /\ kind # "idle" => Cardinality(IdleAt(stream[s])) = Cardinality(IdleAt(stream'[s]))
      /\ kind = "idle" => Cardinality(IdleAt(stream[s])) = Cardinality(IdleAt(stream'[s])) + 1
  BY <1>1, <1>2, IdleCount, IdleCountTail
<1>4. \A i \in 1..Len(stream[s]) : i # 1 =>
        i - 1 \in 1..Len(stream'[s]) /\ stream[s][i] = stream'[s][i - 1]
  BY <1>2
<1>5. ASSUME kind # "over" PROVE Live(s)' <=> Live(s)
  <2>1. stream[s][1].kind # "over"
    BY <1>1, <1>2, <1>5
  <2>2. ASSUME Live(s) PROVE Live(s)'
    BY <1>2, <2>2 DEF Live
  <2>3. ASSUME Live(s)' PROVE Live(s)
    BY <1>4, <2>1, <2>3 DEF Live
  <2> QED BY <2>2, <2>3
<1> QED BY <1>1, <1>2, <1>3, <1>5 DEF Next1

\* The turn of a member who reads: what it keeps to itself.
LEMMA ReaderStep ==
  ASSUME IInv, Orderly, NEW s \in Sender, NEW kind, Read(s, kind),
         stream' = [stream EXCEPT ![s] = Tail(@)],
         line' = line, stray' = stray, turn'[s].at = "listen",
         \A r \in Sender \ {s} : turn'[r] = turn[r],
         kind # "over",
         \A i \in 1..Len(session'.input) : session'.input[i] = Current(s),
         session'.now = session.now,
         Live(s) => IdlesOwed(s)', ~Live(s) => session' = session
  PROVE  Orderly'
<1>1. turn[s].at = "listen" /\ Listening(s) /\ Listening(s)'
  BY DEF Read, Listening
<1>2. OwnTalk(s) /\ ~stray /\ (\A r \in Sender \ {s} : ~Listening(r)) /\ (~Live(s) => NoWork)
  BY <1>1, Listener
<1>3. Current(s)' = Current(s) /\ (Live(s)' <=> Live(s))
  BY ReadRest DEF Current
<1>4. OwnTalk(s)'
  BY <1>2, <1>3, ReadRest DEF OwnTalk
<1>5. ~Live(s)' => NoWork'
  BY <1>2, <1>3 DEF NoWork
<1>6. \A r \in Sender \ {s} : ~Listening(r)'
  BY <1>2 DEF Listening
<1> QED BY <1>1, <1>2, <1>3, <1>4, <1>5, <1>6, OneIsEnough

\* The session still owes a number of idles.
LEMMA Owed ==
  ASSUME IInv, Orderly, NEW s \in Sender, turn[s].at = "listen", Live(s)
  PROVE  IdlesOwed(s) /\ Cardinality(IdleAt(stream[s])) \in Nat /\ Due \in Nat
<1>1. IdlesOwed(s) /\ stream[s] \in Seq(Event) /\ Len(session.input) \in Nat
  BY Listener DEF Orderly, Listening
<1>2. Due \in Nat
  BY <1>1 DEF Due
<1> QED BY <1>1, <1>2, IdleCount

LEMMA SpeakOrder ==
  ASSUME IInv, Orderly, NEW s \in Sender, Deliver(s) \/ Fallback(s)
  PROVE  Orderly'
<1>1. /\ Read(s, "say") /\ stream' = [stream EXCEPT ![s] = Tail(@)]
      /\ turn' = [turn EXCEPT ![s].spoke = TRUE] /\ UNCHANGED <<line, session>>
  BY DEF Deliver, Fallback
<1>2. turn[s].at = "listen" /\ Listening(s)
  BY <1>1 DEF Read, Listening
<1>3. OwnTalk(s) /\ ~stray /\ turn \in [Sender -> Turn]
  BY <1>2, Listener
<1>4. turn'[s].at = "listen" /\ turn'[s].retry = turn[s].retry /\ \A r \in Sender \ {s} : turn'[r] = turn[r]
  BY <1>1, <1>2, <1>3 DEF Turn
<1>5. Next1(s).about = Current(s)
  <2>1. Next1(s) = stream[s][1] /\ 1 \in 1..Len(stream[s]) /\ Next1(s).kind = "say"
    BY <1>1, ReadRest DEF Read
  <2> QED BY <1>3, <2>1 DEF OwnTalk
<1>6. stray' = stray
  BY <1>3, <1>5 DEF Deliver, Fallback, IInv, TypeOK
<1>7. ASSUME Live(s) PROVE IdlesOwed(s)'
  <2>1. Due' = Due
    BY <1>1 DEF Due
  <2>2. Cardinality(IdleAt(stream[s])) = Cardinality(IdleAt(stream'[s]))
    <3>1. Read(s, "say") /\ stream' = [stream EXCEPT ![s] = Tail(@)] /\ "say" # "idle"
      BY <1>1
    <3> QED BY ONLY <3>1, IInv, ReadRest, s \in Sender
  <2> QED BY <1>2, <1>4, <1>7, <2>1, <2>2, Owed DEF IdlesOwed
<1>8. \A i \in 1..Len(session'.input) : session'.input[i] = Current(s)
  BY <1>1, <1>3 DEF OwnTalk
<1> QED BY <1>1, <1>4, <1>6, <1>7, <1>8, ReaderStep

\* A held answer costs one more idle, and only one is outstanding at a time.
LEMMA HoldOrder ==
  ASSUME IInv, Orderly, NEW s \in Sender, Hold(s), ~cut'
  PROVE  Orderly'
<1>1. /\ Read(s, "say") /\ stream' = [stream EXCEPT ![s] = Tail(@)] /\ Live(s)
      /\ turn' = [turn EXCEPT ![s].holds = @ + 1, ![s].retry = TRUE]
      /\ session' = [session EXCEPT !.input = Append(@, Next1(s).about)]
      /\ UNCHANGED <<line, stray>>
  BY DEF Hold
<1>2. turn[s].at = "listen" /\ Listening(s) /\ turn[s] \in Turn
  BY <1>1, Fields DEF Read, Listening, IInv
<1>3. /\ OwnTalk(s) /\ turn \in [Sender -> Turn] /\ session.input \in Seq(Message)
      /\ Len(session.input) \in Nat /\ Current(s) \in Message
  BY <1>2, Listener
<1>4. ~turn[s].retry
  BY <1>2 DEF Hold, Turn
<1>5. turn'[s].at = "listen" /\ turn'[s].retry /\ \A r \in Sender \ {s} : turn'[r] = turn[r]
  <2>1. turn'[s] = [turn[s] EXCEPT !.holds = @ + 1, !.retry = TRUE]
    BY <1>1, <1>3
  <2>2. turn'[s].at = "listen" /\ turn'[s].retry
    BY <1>2, <2>1 DEF Turn
  <2> QED BY <1>1, <1>3, <2>2
<1>6. Next1(s).about = Current(s)
  <2>1. Next1(s) = stream[s][1] /\ 1 \in 1..Len(stream[s]) /\ Next1(s).kind = "say"
    BY <1>1, ReadRest DEF Read
  <2> QED BY <1>3, <2>1 DEF OwnTalk
<1>7. /\ session'.input = Append(session.input, Current(s)) /\ session'.now = session.now
      /\ Len(session'.input) = Len(session.input) + 1
      /\ \A i \in 1..Len(session'.input) : session'.input[i] = Current(s)
  <2>1. session'.input = Append(session.input, Current(s)) /\ session'.now = session.now
    BY <1>1, <1>6 DEF IInv, TypeOK
  <2>2. \A i \in 1..Len(session.input) : session.input[i] = Current(s)
    BY <1>3 DEF OwnTalk
  <2> QED BY <1>3, <2>1, <2>2, Longer
<1>8. IdlesOwed(s)'
  <2>1. Due' = Due + 1
    BY <1>3, <1>7 DEF Due
  <2>2. Cardinality(IdleAt(stream[s])) = Cardinality(IdleAt(stream'[s]))
    <3>1. Read(s, "say") /\ stream' = [stream EXCEPT ![s] = Tail(@)] /\ "say" # "idle"
      BY <1>1
    <3> QED BY ONLY <3>1, IInv, ReadRest, s \in Sender
  <2>3. Cardinality(IdleAt(stream[s])) + Due = 1 /\ Cardinality(IdleAt(stream[s])) \in Nat /\ Due \in Nat
    BY <1>1, <1>2, <1>4, Owed DEF IdlesOwed
  <2> QED BY <1>5, <2>1, <2>2, <2>3 DEF IdlesOwed
<1> QED BY <1>1, <1>5, <1>7, <1>8, ReaderStep

LEMMA IdleOrder ==
  ASSUME IInv, Orderly, NEW s \in Sender, IdleAfterHold(s)
  PROVE  Orderly'
<1>1. /\ Read(s, "idle") /\ stream' = [stream EXCEPT ![s] = Tail(@)] /\ turn[s].retry
      /\ turn' = [turn EXCEPT ![s].retry = FALSE] /\ UNCHANGED <<line, session, stray>>
  BY DEF IdleAfterHold, Terminal
<1>2. turn[s].at = "listen" /\ Listening(s)
  BY <1>1 DEF Read, Listening
<1>3. OwnTalk(s) /\ turn \in [Sender -> Turn] /\ Len(session.input) \in Nat
  BY <1>2, Listener
<1>4. turn'[s].at = "listen" /\ ~turn'[s].retry /\ \A r \in Sender \ {s} : turn'[r] = turn[r]
  BY <1>1, <1>2, <1>3 DEF Turn
<1>5. ASSUME Live(s) PROVE IdlesOwed(s)'
  <2>1. Due' = Due
    BY <1>1 DEF Due
  <2>2. /\ Cardinality(IdleAt(stream'[s])) \in Nat
        /\ Cardinality(IdleAt(stream[s])) = Cardinality(IdleAt(stream'[s])) + 1
    BY <1>1, ReadRest
  <2>3. Cardinality(IdleAt(stream[s])) + Due = 2 /\ Due \in Nat
    BY <1>1, <1>2, <1>5, Owed DEF IdlesOwed
  <2> QED BY <1>4, <2>1, <2>2, <2>3 DEF IdlesOwed
<1>6. \A i \in 1..Len(session'.input) : session'.input[i] = Current(s)
  BY <1>1, <1>3 DEF OwnTalk
<1> QED BY <1>1, <1>4, <1>5, <1>6, ReaderStep

\* The turn returns at the last idle, or at the end of the session: nothing is left to hear.
LEMMA ReturnOrder ==
  ASSUME IInv, Orderly, NEW s \in Sender, Return(s)
  PROVE  Orderly'
<1>1. /\ turn[s].at = "listen" /\ turn' = [turn EXCEPT ![s].at = "after"]
      /\ UNCHANGED <<session, stray>>
  BY DEF Return, Goto
<1>2. Listening(s)
  BY <1>1 DEF Listening
<1>3. /\ ~stray /\ turn \in [Sender -> Turn] /\ (~Live(s) => NoWork) /\ Len(session.input) \in Nat
      /\ session.input \in Seq(Message) /\ stream[s] \in Seq(Event)
      /\ \A r \in Sender \ {s} : ~Listening(r)
  BY <1>2, Listener
<1>4. turn'[s].at = "after" /\ \A r \in Sender \ {s} : turn'[r] = turn[r]
  BY <1>1, <1>3 DEF Turn
<1>5. NoWork
  <2>1. CASE Read(s, "idle") /\ Terminal(s) /\ Live(s)
    <3>1. stream[s] # <<>> /\ Head(stream[s]).kind = "idle" /\ Tail(stream[s]) \in Seq(Event)
      BY <1>3, <2>1, Shorter DEF Read, Next1
    <3>2. /\ Cardinality(IdleAt(Tail(stream[s]))) \in Nat
          /\ Cardinality(IdleAt(stream[s])) = Cardinality(IdleAt(Tail(stream[s]))) + 1
      BY <1>3, <3>1, IdleCount, IdleCountTail
    <3>3. Cardinality(IdleAt(stream[s])) + Due = 1 /\ Due \in Nat
      BY <1>1, <2>1, Owed DEF Terminal, IdlesOwed
    <3>4. Due = 0
      BY <3>2, <3>3
    <3>5. Len(session.input) = 0 /\ session.now = NoMessage
      BY <1>3, <3>4 DEF Due
    <3> QED BY <1>3, <3>5, EmptySeq DEF NoWork
  <2>2. CASE Read(s, "over")
    <3>1. 1 \in 1..Len(stream[s]) /\ stream[s][1].kind = "over"
      BY <1>3, <2>2, Shorter DEF Read, Next1
    <3>2. ~Live(s)
      BY <3>1 DEF Live
    <3> QED BY <1>3, <3>2
  <2> QED BY <1>3, <2>1, <2>2 DEF Return
<1>6. NoWork' /\ ~stray'
  BY <1>1, <1>3, <1>5 DEF NoWork
<1>7. \A r \in Sender : ~Listening(r)'
  BY <1>3, <1>4 DEF Listening
<1> QED BY <1>6, <1>7 DEF Orderly, OneListens, Listening

\* What the session does reaches those who listen and have not heard it end.
LEMMA BroadcastTo ==
  ASSUME TypeOK, NEW kind, NEW about, [kind |-> kind, about |-> about] \in Event,
         Broadcast(kind, about), NEW s \in Sender, turn' = turn, line' = line
  PROVE  /\ Listening(s)' <=> Listening(s)
         /\ Current(s)' = Current(s)
         /\ ~Listening(s) \/ ~Live(s) => stream'[s] = stream[s]
         /\ Listening(s) /\ Live(s) => stream'[s] = Append(stream[s], [kind |-> kind, about |-> about])
BY DEF Broadcast, Heard, Listening, Current

\* The session begins with an input, says something or comes to rest: it works for
\* the one who listens, who is there as long as there is work.
LEMMA SessionOrder ==
  ASSUME IInv, Orderly, TakeUp \/ Say \/ Rest
  PROVE  Orderly'
<1>1. TypeOK /\ UNCHANGED sessionRest /\ ~NoWork
  <2>1. ~NoWork
    BY DEF TakeUp, Say, Rest, NoWork
  <2>2. UNCHANGED sessionRest
    BY DEF TakeUp, Say, Rest
  <2> QED BY <2>1, <2>2 DEF IInv
<1>2. PICK s \in Sender : Listening(s)
  BY <1>1 DEF Orderly
<1>3. /\ OwnTalk(s) /\ ~stray /\ (\A r \in Sender \ {s} : ~Listening(r)) /\ Live(s)
      /\ stream[s] \in Seq(Event) /\ session.input \in Seq(Message)
      /\ Len(session.input) \in Nat /\ session.now \in Message \cup {NoMessage}
  BY <1>1, <1>2, Listener
<1>4. /\ UNCHANGED <<turn, line, stray>> /\ turn[s].at = "listen" /\ IdlesOwed(s)
      /\ Cardinality(IdleAt(stream[s])) \in Nat /\ Due \in Nat
  <2>1. UNCHANGED <<turn, line, stray>> /\ turn[s].at = "listen"
    BY <1>1, <1>2 DEF sessionRest, Orderly, Listening
  <2> QED BY <1>3, <2>1, Owed
<1>5. /\ Listening(s)' /\ Current(s)' = Current(s) /\ \A r \in Sender \ {s} : ~Listening(r)'
  BY <1>2, <1>3, <1>4 DEF Listening, Current
<1>6. ASSUME TakeUp PROVE OwnTalk(s)' /\ Live(s)' /\ IdlesOwed(s)'
  <2>1. /\ session.now = NoMessage /\ session.input # <<>> /\ stream' = stream
        /\ session'.input = Tail(session.input) /\ session'.now = Head(session.input)
    BY <1>6 DEF TakeUp
  <2>2. /\ Head(session.input) = session.input[1] /\ 1 \in 1..Len(session.input)
        /\ Head(session.input) \in Message
        /\ Len(session'.input) = Len(session.input) - 1
        /\ \A i \in 1..Len(session'.input) :
             i + 1 \in 1..Len(session.input) /\ session'.input[i] = session.input[i + 1]
    BY <1>3, <2>1, Shorter
  <2>3. Due' = Due
    BY <1>3, <2>1, <2>2 DEF Due
  <2> QED BY <1>3, <1>4, <1>5, <2>1, <2>2, <2>3 DEF OwnTalk, Live, IdlesOwed
<1>7. ASSUME Say PROVE OwnTalk(s)' /\ Live(s)' /\ IdlesOwed(s)'
  <2> DEFINE e == [kind |-> "say", about |-> session.now]
  <2>1. /\ session.now # NoMessage /\ Broadcast("say", session.now)
        /\ session'.input = session.input /\ session'.now = session.now
    BY <1>1, <1>7 DEF Say, TypeOK
  <2>2. e \in Event
    BY <1>3, <2>1 DEF Event
  <2>3. stream'[s] = Append(stream[s], e)
    BY <1>1, <1>2, <1>3, <1>4, <2>1, <2>2, BroadcastTo
  <2>4. /\ e.kind = "say" /\ e.about = Current(s)
    BY <1>3, <2>1 DEF OwnTalk
  <2>5. /\ Len(stream[s]) \in Nat /\ Len(stream'[s]) = Len(stream[s]) + 1
        /\ stream'[s][Len(stream[s]) + 1] = e
        /\ \A i \in 1..Len(stream[s]) : stream'[s][i] = stream[s][i]
    BY <1>3, <2>2, <2>3, Longer
  <2>6. \A i \in 1..Len(stream'[s]) : i \in 1..Len(stream[s]) \/ i = Len(stream[s]) + 1
    BY <2>5
  <2>7. IdleAt(stream'[s]) = IdleAt(stream[s]) /\ Due' = Due
    <3>1. Due' = Due
      BY <2>1 DEF Due
    <3> QED BY <1>3, <2>2, <2>3, <2>4, <3>1, IdleCountAppend
  <2> HIDE DEF e
  <2>8. OwnTalk(s)'
    BY <1>3, <1>5, <2>1, <2>4, <2>5, <2>6 DEF OwnTalk
  <2>9. Live(s)'
    BY <1>3, <2>4, <2>5, <2>6 DEF Live
  <2> QED BY <1>4, <2>7, <2>8, <2>9 DEF IdlesOwed
<1>8. ASSUME Rest PROVE OwnTalk(s)' /\ Live(s)' /\ IdlesOwed(s)'
  <2> DEFINE e == [kind |-> "idle", about |-> NoMessage]
  <2>1. /\ session.now # NoMessage /\ Broadcast("idle", NoMessage)
        /\ session'.input = session.input /\ session'.now = NoMessage
    BY <1>1, <1>8 DEF Rest, TypeOK
  <2>2. e \in Event
    BY DEF Event
  <2>3. stream'[s] = Append(stream[s], e)
    BY <1>1, <1>2, <1>3, <1>4, <2>1, <2>2, BroadcastTo
  <2>4. e.kind = "idle"
    OBVIOUS
  <2>5. /\ Len(stream[s]) \in Nat /\ Len(stream'[s]) = Len(stream[s]) + 1
        /\ stream'[s][Len(stream[s]) + 1] = e
        /\ \A i \in 1..Len(stream[s]) : stream'[s][i] = stream[s][i]
    BY <1>3, <2>2, <2>3, Longer
  <2>6. \A i \in 1..Len(stream'[s]) : i \in 1..Len(stream[s]) \/ i = Len(stream[s]) + 1
    BY <2>5
  <2>7. Cardinality(IdleAt(stream'[s])) = Cardinality(IdleAt(stream[s])) + 1
    BY <1>3, <2>2, <2>3, <2>4, IdleCountAppend
  <2>8. Due = Due' + 1 /\ Due' \in Nat
    BY <1>3, <2>1 DEF Due
  <2> HIDE DEF e
  <2>9. OwnTalk(s)'
    BY <1>3, <1>5, <2>1, <2>4, <2>5, <2>6 DEF OwnTalk
  <2>10. Live(s)'
    BY <1>3, <2>4, <2>5, <2>6 DEF Live
  <2>11. Cardinality(IdleAt(stream'[s])) + Due' = Cardinality(IdleAt(stream[s])) + Due
    BY <1>4, <2>7, <2>8
  <2> QED BY <1>4, <2>9, <2>10, <2>11 DEF IdlesOwed
<1>9. OwnTalk(s)' /\ Live(s)' /\ IdlesOwed(s)'
  BY <1>6, <1>7, <1>8
<1> QED BY <1>3, <1>4, <1>5, <1>9, OneIsEnough

\* The session ends: whoever listens has no more to expect of it.
LEMMA TerminateOrder ==
  ASSUME IInv, Orderly, Terminate
  PROVE  Orderly'
<1>1. /\ TypeOK /\ UNCHANGED <<turn, line, stray>> /\ Broadcast("over", NoMessage)
      /\ session' = FreshSession /\ ~stray
  BY DEF Terminate, sessionRest, IInv, Orderly
<1>2. NoWork'
  BY <1>1 DEF NoWork, FreshSession
<1>3. \A r \in Sender : (Listening(r)' <=> Listening(r)) /\ Current(r)' = Current(r)
  BY <1>1 DEF Listening, Current
<1>4. CASE \A r \in Sender : ~Listening(r)
  BY <1>1, <1>2, <1>3, <1>4 DEF Orderly, OneListens, Listening
<1>5. ASSUME NEW s \in Sender, Listening(s) PROVE Orderly'
  <2> DEFINE e == [kind |-> "over", about |-> NoMessage]
  <2>1. OwnTalk(s) /\ (\A r \in Sender \ {s} : ~Listening(r)) /\ stream[s] \in Seq(Event)
    BY <1>5, Listener
  <2>2. e \in Event /\ e.kind = "over"
    BY DEF Event
  <2>3. /\ ~Live(s) => stream'[s] = stream[s]
        /\ Live(s) => stream'[s] = Append(stream[s], e)
    BY <1>1, <1>5, <2>2, BroadcastTo
  <2> HIDE DEF e
  <2>4. /\ ~Live(s)'
        /\ \A i \in 1..Len(stream'[s]) : stream'[s][i].kind = "say" => stream'[s][i].about = Current(s)
        /\ IdleAt(stream'[s]) = IdleAt(stream[s])
    <3>1. CASE ~Live(s)
      BY <2>1, <2>3, <3>1 DEF Live, OwnTalk
    <3>2. CASE Live(s)
      <4>1. /\ Len(stream[s]) \in Nat /\ Len(stream'[s]) = Len(stream[s]) + 1
            /\ stream'[s][Len(stream[s]) + 1] = e
            /\ \A i \in 1..Len(stream[s]) : stream'[s][i] = stream[s][i]
        BY <2>1, <2>2, <2>3, <3>2, Longer
      <4>2. \A i \in 1..Len(stream'[s]) : i \in 1..Len(stream[s]) \/ i = Len(stream[s]) + 1
        BY <4>1
      <4>3. Len(stream[s]) + 1 \in 1..Len(stream'[s])
        BY <4>1
      <4>4. ~Live(s)'
        BY <2>2, <4>1, <4>3 DEF Live
      <4>5. IdleAt(stream'[s]) = IdleAt(stream[s])
        BY <2>1, <2>2, <2>3, <3>2, IdleCountAppend
      <4> QED BY <2>1, <2>2, <4>1, <4>2, <4>4, <4>5 DEF OwnTalk
    <3> QED BY <3>1, <3>2
  <2>5. OwnTalk(s)'
    <3>1. session'.input = <<>> /\ session'.now = NoMessage /\ Len(session'.input) = 0
      BY <1>1, EmptySeq DEF FreshSession
    <3> QED BY <1>3, <2>4, <3>1 DEF OwnTalk
  <2>6. turn'[s].at = "ask" => IdleAt(stream'[s]) = {}
    BY <1>1, <2>4 DEF Orderly
  <2>7. \A r \in Sender \ {s} : ~Listening(r)'
    BY <1>3, <2>1
  <2> QED BY <1>1, <1>2, <2>4, <2>5, <2>6, <2>7, OneIsEnough
<1> QED BY <1>4, <1>5

\* A turn opens its stream when nobody listens, and finds the session at rest.
LEMMA OpenOrder ==
  ASSUME IInv, Streams, Orderly, NEW s \in Sender, OpenStream(s), ~cut'
  PROVE  Orderly'
<1>1. /\ turn[s].at = "route" /\ turn' = [turn EXCEPT ![s].at = "ask"] /\ turn \in [Sender -> Turn]
      /\ UNCHANGED <<line, stream, session, stray>> /\ \A r \in Sender : ~Listening(r)
  BY DEF OpenStream, Goto, IInv, TypeOK
<1>2. turn'[s].at = "ask" /\ \A r \in Sender \ {s} : turn'[r] = turn[r]
  BY <1>1 DEF Turn
<1>3. NoWork /\ NoWork' /\ ~stray'
  BY <1>1 DEF Orderly, NoWork
<1>4. stream[s] = <<>> /\ Len(stream[s]) = 0
  BY <1>1, EmptySeq DEF Streams
<1>5. session.input = <<>> /\ Len(session.input) = 0 /\ session.now = NoMessage
  BY <1>3, EmptySeq DEF NoWork
<1>6. OwnTalk(s)' /\ IdleAt(stream'[s]) = {}
  BY <1>1, <1>4, <1>5 DEF OwnTalk, IdleAt
<1>7. \A r \in Sender \ {s} : ~Listening(r)'
  BY <1>1, <1>2 DEF Listening
<1> QED BY <1>2, <1>3, <1>6, <1>7, OneIsEnough

\* It asks: one idle is owed for that.
LEMMA AskOrder ==
  ASSUME IInv, Streams, Orderly, NEW s \in Sender, Ask(s)
  PROVE  Orderly'
<1>1. /\ turn[s].at = "ask" /\ turn' = [turn EXCEPT ![s].at = "listen"] /\ Live(s)
      /\ session' = [session EXCEPT !.input = Append(@, Current(s))]
      /\ UNCHANGED <<line, stream, stray>>
  BY DEF Ask, Goto
<1>2. /\ OwnTalk(s) /\ ~stray /\ (\A r \in Sender \ {s} : ~Listening(r))
      /\ turn \in [Sender -> Turn] /\ Current(s) \in Message /\ session.input \in Seq(Message)
      /\ stream[s] \in Seq(Event)
  BY <1>1, Listener DEF Listening
<1>3. /\ turn'[s].at = "listen" /\ ~turn'[s].retry /\ \A r \in Sender \ {s} : turn'[r] = turn[r]
  <2>1. turn'[s] = [turn[s] EXCEPT !.at = "listen"] /\ ~turn[s].retry
    BY <1>1, <1>2 DEF Streams
  <2> QED BY <1>1, <1>2, <2>1 DEF Turn
<1>4. session.input = <<>> /\ session.now = NoMessage /\ IdleAt(stream[s]) = {}
  BY <1>1 DEF Orderly, NoWork
<1>5. /\ session'.input = Append(session.input, Current(s)) /\ session'.now = NoMessage
  BY <1>1, <1>4 DEF IInv, TypeOK
<1>6. /\ Len(session.input) = 0 /\ Len(session'.input) = 1 /\ session'.input[1] = Current(s)
  BY <1>2, <1>4, <1>5, EmptySeq, Longer
<1>7. OwnTalk(s)' /\ Live(s)'
  BY <1>1, <1>2, <1>5, <1>6 DEF OwnTalk, Live, Current
<1>8. IdlesOwed(s)'
  <2>1. Due' = 1
    BY <1>5, <1>6 DEF Due
  <2>2. IdleAt(stream'[s]) = {}
    BY <1>1, <1>4
  <2>3. Cardinality(IdleAt(stream'[s])) = 0
    BY <2>2, FS_EmptySet
  <2> QED BY <1>3, <2>1, <2>3 DEF IdlesOwed
<1>9. ~stray' /\ Listening(s)' /\ \A r \in Sender \ {s} : ~Listening(r)'
  BY <1>1, <1>2, <1>3 DEF Listening
<1> QED BY <1>3, <1>7, <1>8, <1>9, OneIsEnough

\* A process that dies while nobody listens leaves the session at rest.
LEMMA CrashOrder ==
  ASSUME Orderly, Crash, ~cut'
  PROVE  Orderly'
<1>1. /\ UNCHANGED <<session, stray>> /\ \A s \in Sender : ~Listening(s) /\ turn'[s].at = "none"
  BY DEF Crash, NoTurn
<1> QED BY <1>1 DEF Orderly, OneListens, Listening, NoWork

\* What is done without the agent is no business of those who listen.
LEMMA OtherOrder ==
  ASSUME IInv, Streams, Orderly, ~cut',
         \/ \E m \in Message : Receive(m)
         \/ \E s \in Sender : Begin(s) \/ AnswerAtOnce(s) \/ WrapUp(s) \/ Fail(s)
         \/ UNCHANGED vars
  PROVE  Orderly'
<1>t. /\ turn \in [Sender -> Turn] /\ line \in [Sender -> Seq(Message)]
      /\ stream \in [Sender -> Seq(Event)]
  BY DEF IInv, TypeOK
<1>1. ASSUME NEW m \in Message, Receive(m) PROVE Orderly'
  <2>1. UNCHANGED <<turn, stream, session, stray>>
    BY <1>1 DEF Receive
  <2>2. ASSUME NEW s \in Sender, Listening(s) PROVE Current(s)' = Current(s)
    <3>1. line[s] # <<>>
      BY <2>2, InProgress DEF Listening
    <3>2. line'[s] = line[s] \/ line'[s] = Append(line[s], m)
      BY <1>1, <1>t DEF Receive
    <3>3. line[s] \in Seq(Message) /\ Len(line[s]) \in Nat /\ Len(line[s]) >= 1 /\ Head(line[s]) = line[s][1]
      BY <1>t, <3>1, Shorter
    <3>4. /\ Append(line[s], m) # <<>> /\ Append(line[s], m) \in Seq(Message)
          /\ Append(line[s], m)[1] = line[s][1]
      BY <3>3, Longer
    <3>5. Head(Append(line[s], m)) = line[s][1]
      BY <3>4, Shorter
    <3> QED BY <3>2, <3>3, <3>5 DEF Current
  <2> QED BY <2>1, <2>2, AsideStep DEF Listening
<1>2. ASSUME NEW s \in Sender, Begin(s) PROVE Orderly'
  <2>1. /\ turn[s].at = "none" /\ turn'[s].at = "route" /\ \A r \in Sender \ {s} : turn'[r] = turn[r]
        /\ UNCHANGED <<line, stream, session, stray>>
    BY <1>2, <1>t DEF Begin, Goto, Turn
  <2>2. \A r \in Sender : (Listening(r)' <=> Listening(r)) /\ (Listening(r) => r # s)
    BY <2>1 DEF Listening
  <2> QED BY <2>1, <2>2, AsideStep DEF Current
<1>3. ASSUME NEW s \in Sender, AnswerAtOnce(s) \/ WrapUp(s) \/ Fail(s) PROVE Orderly'
  <2>1. /\ ~Listening(s) /\ \E failed \in BOOLEAN : Finish(s, failed)
        /\ UNCHANGED <<session, stray>>
        /\ \A r \in Sender \ {s} : stream'[r] = stream[r]
    <3>1. CASE AnswerAtOnce(s) \/ WrapUp(s)
      BY <1>t, <3>1 DEF AnswerAtOnce, WrapUp, Listening
    <3>2. CASE Fail(s)
      <4>1. turn[s].at # "listen" /\ ~Listening(s) /\ cut \in BOOLEAN /\ stray \in BOOLEAN
        BY <3>2 DEF Fail, Listening, IInv, TypeOK
      <4>2. stray' = stray
        BY <3>2, <4>1 DEF Fail, GoneOut, Read
      <4> QED BY <1>t, <3>2, <4>1, <4>2 DEF Fail
    <3> QED BY <1>3, <3>1, <3>2
  <2>2. /\ turn'[s].at = "none"
        /\ \A r \in Sender \ {s} : turn'[r] = turn[r] /\ line'[r] = line[r]
    BY <1>t, <2>1 DEF Finish, NextInLine, NoTurn
  <2>3. \A r \in Sender : (Listening(r)' <=> Listening(r)) /\ (Listening(r) => r # s)
    BY <2>1, <2>2 DEF Listening
  <2> QED BY <2>1, <2>2, <2>3, AsideStep DEF Current
<1>4. CASE UNCHANGED vars
  BY <1>4, AsideStep DEF vars, Listening, Current
<1> QED BY <1>1, <1>2, <1>3, <1>4

LEMMA StreamsStep == IInv /\ Streams /\ [Next]_vars => Streams'
<1> SUFFICES ASSUME IInv, Streams, [Next]_vars PROVE Streams'
  OBVIOUS
<1>t. turn \in [Sender -> Turn] /\ stream \in [Sender -> Seq(Event)]
  BY DEF IInv, TypeOK
<1>1. ASSUME NEW s \in Sender,
             \/ Begin(s) \/ AnswerAtOnce(s) \/ OpenStream(s) \/ Ask(s) \/ Return(s) \/ WrapUp(s) \/ Fail(s)
             \/ Deliver(s) \/ Fallback(s) \/ IdleAfterHold(s)
      PROVE  Streams'
  <2>1. \A r \in Sender \ {s} : turn'[r] = turn[r] /\ stream'[r] = stream[r]
    BY <1>1, <1>t
    DEF Begin, AnswerAtOnce, OpenStream, Ask, Return, WrapUp, Fail, Deliver, Fallback, IdleAfterHold,
        Goto, Finish
  <2>2. /\ ~Listening(s)' => stream'[s] = <<>>
        /\ turn'[s].at \in {"none", "route", "ask"} => ~turn'[s].retry
    <3>0. ASSUME NEW a \in {"route", "ask", "listen"}, turn' = [turn EXCEPT ![s].at = a]
          PROVE  turn'[s].at = a /\ turn'[s].retry = turn[s].retry
      <4>1. turn'[s] = [turn[s] EXCEPT !.at = a]
        BY <1>t, <3>0
      <4> QED BY <1>t, <4>1 DEF Turn
    <3>1. CASE Begin(s) \/ OpenStream(s)
      <4>1. /\ turn[s].at \in {"none", "route"} /\ stream'[s] = stream[s]
            /\ \E a \in {"route", "ask"} : turn' = [turn EXCEPT ![s].at = a]
        BY <3>1 DEF Begin, OpenStream, Goto
      <4>2. turn'[s].retry = turn[s].retry
        BY <3>0, <4>1
      <4> QED BY <4>1, <4>2 DEF Streams, Listening
    <3>4. CASE Ask(s)
      <4>1. turn[s].at = "ask" /\ turn' = [turn EXCEPT ![s].at = "listen"]
        BY <3>4 DEF Ask, Goto
      <4>2. turn'[s].at = "listen"
        BY <3>0, <4>1
      <4> QED BY <4>2 DEF Listening
    <3>2. CASE AnswerAtOnce(s) \/ WrapUp(s) \/ Fail(s)
      <4>1. turn'[s] = NoTurn
        BY <1>t, <3>2 DEF AnswerAtOnce, WrapUp, Fail, Finish
      <4>2. stream'[s] = <<>>
        <5>1. CASE Fail(s)
          BY <1>t, <5>1 DEF Fail
        <5>2. CASE AnswerAtOnce(s) \/ WrapUp(s)
          BY <5>2 DEF AnswerAtOnce, WrapUp, Streams, Listening
        <5> QED BY <3>2, <5>1, <5>2
      <4> QED BY <4>1, <4>2 DEF NoTurn
    <3>3. CASE Return(s)
      BY <1>t, <3>3 DEF Return, Goto, Turn
    <3>5. CASE Deliver(s) \/ Fallback(s) \/ IdleAfterHold(s)
      <4>1. turn'[s].at = "listen"
        BY <1>t, <3>5 DEF Deliver, Fallback, IdleAfterHold, Read, Turn
      <4> QED BY <4>1 DEF Listening
    <3> QED BY <1>1, <3>1, <3>2, <3>3, <3>4, <3>5
  <2> QED BY <2>1, <2>2 DEF Streams, Listening
<1>2. ASSUME NEW s \in Sender, Hold(s) PROVE Streams'
  <2>1. turn'[s].at = "listen"
    <3>1. turn'[s] = [turn[s] EXCEPT !.holds = @ + 1, !.retry = TRUE] /\ turn[s].at = "listen"
      BY <1>2, <1>t DEF Hold, Read
    <3> QED BY <1>t, <3>1 DEF Turn
  <2>2. \A r \in Sender \ {s} : turn'[r] = turn[r] /\ stream'[r] = stream[r]
    BY <1>2, <1>t DEF Hold
  <2> QED BY <2>1, <2>2 DEF Streams, Listening
<1>3. ASSUME NEW s \in Sender, Timeout(s) PROVE Streams'
  <2>1. turn'[s].at = "after" /\ \A r \in Sender \ {s} : turn'[r] = turn[r]
    BY <1>3, <1>t DEF Timeout, Goto, Turn
  <2>2. stream'[s] = <<>> /\ \A r \in Sender \ {s} : ~Listening(r) => stream'[r] = stream[r]
    BY <1>3, <1>t DEF Timeout, Heard
  <2> QED BY <2>1, <2>2 DEF Streams, Listening
<1>4. ASSUME TakeUp \/ Say \/ Rest \/ Terminate PROVE Streams'
  <2>1. turn' = turn /\ \A r \in Sender : ~Listening(r) => stream'[r] = stream[r]
    BY <1>4 DEF TakeUp, Say, Rest, Terminate, sessionRest, Broadcast, Heard
  <2> QED BY <2>1 DEF Streams, Listening
<1>5. CASE Crash
  BY <1>5 DEF Crash, Streams, NoTurn
<1>6. ASSUME (\E m \in Message : Receive(m)) \/ UNCHANGED vars PROVE Streams'
  BY <1>6 DEF Receive, vars, Streams, Listening
<1> QED BY <1>1, <1>2, <1>3, <1>4, <1>5, <1>6 DEF Next, Process

LEMMA OrderStep == IInv /\ Streams /\ (~cut => Orderly) /\ [Next]_vars => (~cut' => Orderly')
<1> SUFFICES ASSUME IInv, Streams, ~cut => Orderly, [Next]_vars, ~cut' PROVE Orderly'
  OBVIOUS
<1>1. ~cut
  <2>1. ASSUME NEW s \in Sender, Begin(s) \/ Process(s) \/ Fail(s) PROVE cut => cut'
    BY <2>1 DEF Begin, Process, AnswerAtOnce, OpenStream, Ask, Deliver, Fallback, Hold, IdleAfterHold,
                Return, Timeout, WrapUp, Fail
  <2>2. ASSUME (\E m \in Message : Receive(m)) \/ TakeUp \/ Say \/ Rest \/ Terminate \/ Crash
               \/ UNCHANGED vars
        PROVE  cut => cut'
    BY <2>2 DEF Receive, TakeUp, Say, Rest, Terminate, Crash, sessionRest, vars
  <2> QED BY <2>1, <2>2 DEF Next
<1>2. Orderly
  BY <1>1
<1>3. ASSUME NEW s \in Sender, Process(s)
      PROVE  Orderly'
  <2>1. ~Timeout(s)
    BY DEF Timeout
  <2>2. CASE AnswerAtOnce(s) \/ WrapUp(s)
    BY <1>2, <2>2, OtherOrder
  <2> QED BY <1>2, <1>3, <2>1, <2>2, OpenOrder, AskOrder, SpeakOrder, HoldOrder, IdleOrder, ReturnOrder
             DEF Process
<1> QED BY <1>2, <1>3, SessionOrder, TerminateOrder, CrashOrder, OtherOrder DEF Next

\* An answer is heard in another message's turn only if some turn was cut off or two
\* overlapped: as long as turns follow one another, each ends at the last idle that
\* the session owes it, and leaves nothing behind for the next.
THEOREM StrayNeedsACut == Spec => []StrayOnlyAfterCut
<1>1. Init => Streams /\ (~cut => Orderly)
  <2>1. ASSUME Init PROVE NoWork /\ ~stray /\ \A s \in Sender : turn[s] = NoTurn /\ stream[s] = <<>>
    BY <2>1 DEF Init, FreshSession, NoWork
  <2> QED BY <2>1 DEF Streams, Orderly, OneListens, Listening, NoTurn
<1>2. IInv /\ Streams /\ (~cut => Orderly) => StrayOnlyAfterCut
  BY DEF Orderly, StrayOnlyAfterCut, IInv, TypeOK
<1>3. IInv /\ Streams /\ (~cut => Orderly) /\ [Next]_vars => Streams' /\ (~cut => Orderly)'
  BY StreamsStep, OrderStep
<1> QED BY <1>1, <1>2, <1>3, Invariance, PTL DEF Spec
===============================================================================
