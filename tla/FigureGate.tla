------------------------------- MODULE FigureGate -------------------------------
(***************************************************************************)
(* The audit gate (orchestrator/src/audit/gate.ts) in the turn that uses   *)
(* it (session/client.ts, runTurn): which figures the owner may be told.   *)
(*                                                                         *)
(* A number is its significant digits and the power of ten they stand for, *)
(* so that 904000 paisa and Rs 9,040.00 are two numbers of the same        *)
(* digits.  The agent may say anything; what it says is logged and held or *)
(* delivered.                                                              *)
(*                                                                         *)
(* A tool's result is JSON in a text block, and runTurn makes JSON of the  *)
(* block again before the gate reads it: numbers stand as they were, the   *)
(* quotes around a verdict are escaped.                                    *)
(***************************************************************************)
EXTENDS Integers

CONSTANTS
  Digits,    \* significant digits of the amounts of one bill
  MaxHolds,  \* MAX_HOLDS_PER_TURN
  MaxSaid    \* bound: messages of the agent in a turn

VARIABLES
  evidence,  \* TurnEvidence: verified numbers, and whether a failed validation was seen
  turn,      \* the turn that listens, and the message it has in hand
  passed,    \* audit_log: the texts of this turn whose decision was to deliver
  heard,     \* what the owner was last sent, and in which state of affairs
  sources,   \* history: numbers of this turn's tool results, and the owner's own
  rejected   \* history: a validation of this turn has failed

vars == <<evidence, turn, passed, heard, sources, rejected>>
-------------------------------------------------------------------------------
\* What the tools return is in paisa, so a power of 0; rupees have two less.
Power == -4..4
Number == Digits \X Power
Paisa(d) == <<d, 0>>
Rupees(d) == <<d, -2>>

\* What the agent may say: the money figures of a text, one of a tool's numbers in rupees
\* or in paisa, slipped by a digit, or all of them.  Bare numbers are not taken for money.
Texts == {{}} \cup {{n} : n \in Digits \X {-2, -1, 0}} \cup {{Rupees(d) : d \in Digits}}
Fallback == {<<"fallback", 0>>}

NoText == {<<"none", 0>>}
Stage == {"none", "listen", "log", "act", "over"}

TypeOK ==
  /\ evidence.numbers \subseteq Number /\ evidence.failed \in BOOLEAN
  /\ turn.at \in Stage /\ turn.holds \in 0..MaxSaid /\ turn.said \in 0..MaxSaid
  /\ turn.text \in Texts \cup {NoText} /\ passed \subseteq Texts
  /\ heard.text \in Texts \cup {NoText, Fallback}
  /\ sources \subseteq [number : Number, by : {"tool", "owner"}] /\ rejected \in BOOLEAN

Silence == [text |-> NoText, rejected |-> FALSE]
NoEvidence == [numbers |-> {}, failed |-> FALSE]

Init ==
  /\ evidence = NoEvidence
  /\ turn = [at |-> "none", holds |-> 0, said |-> 0, text |-> NoText]
  /\ passed = {}
  /\ heard = Silence
  /\ sources = {} /\ rejected = FALSE
-------------------------------------------------------------------------------
\* Operators named ...Mutant are wrong versions of the definition after them,
\* kept to show that a property notices the change; the model does not use them.

ShiftDecimal(n, by) == <<n[1], n[2] + by>>

\* addOwnerFigures: a turn begins without evidence, but for what the owner typed.
Start(typed) ==
  /\ turn.at \in {"none", "over"}
  /\ turn' = [at |-> "listen", holds |-> 0, said |-> 0, text |-> NoText]
  /\ evidence' = [NoEvidence EXCEPT !.numbers = {Rupees(d) : d \in typed}]
  /\ sources' = {[number |-> Rupees(d), by |-> "owner"] : d \in typed}
  /\ rejected' = FALSE /\ heard' = Silence /\ passed' = {}

\* Mutant: what an errored call returned counts as well.
NumbersOfMutant(result) == {Paisa(d) : d \in result.amounts}

\* Numbers inside an errored result are not evidence.
NumbersOf(result) == IF result.error THEN {} ELSE {Paisa(d) : d \in result.amounts}

Shifted(numbers) == {ShiftDecimal(n, by) : n \in numbers, by \in {-2, 0, 2}}

\* Of this turn's calls, or of another member's turn in the same session.
Results == [amounts : SUBSET Digits, error : BOOLEAN, fails : BOOLEAN, quotes : {"bare"}]

\* JSON.stringify(event.content)
Stringified(result) == [result EXCEPT !.quotes = "escaped"]

\* "result" or "overall", and "fail", in quotes that are not escaped.
VerdictFound(raw) == raw.fails /\ raw.quotes = "bare"

\* addToolResultEvidence
ToolResult(result) ==
  /\ turn.at = "listen"
  /\ LET raw == Stringified(result)
     IN evidence' = [numbers |-> evidence.numbers \cup Shifted(NumbersOf(raw)),
                     failed |-> evidence.failed \/ (VerdictFound(raw) /\ ~raw.error)]
  /\ sources' = IF result.error THEN sources
                ELSE sources \cup {[number |-> Paisa(d), by |-> "tool"] : d \in result.amounts}
  /\ rejected' = (rejected \/ (result.fails /\ ~result.error))
  /\ UNCHANGED <<turn, passed, heard>>

Say(text) ==
  /\ turn.at = "listen" /\ turn.said < MaxSaid
  /\ turn' = [turn EXCEPT !.at = "log", !.said = @ + 1, !.text = text]
  /\ UNCHANGED <<evidence, passed, heard, sources, rejected>>

\* Mutant: one verified figure is enough.
VerifiedMutant(text) == text = {} \/ text \cap evidence.numbers # {}

\* extractMoneyFigures: every money figure of the text is among the evidence.
Verified(text) == text \subseteq evidence.numbers

\* auditOutbound
Passes(text) == ~evidence.failed /\ Verified(text)

\* DbGateLogger; a log that throws ends the turn before anything is sent.
Log(written) ==
  /\ turn.at = "log"
  /\ IF written
       THEN /\ passed' = (IF Passes(turn.text) THEN passed \cup {turn.text} ELSE passed)
            /\ turn' = [turn EXCEPT !.at = "act"]
       ELSE /\ turn' = [turn EXCEPT !.at = "over", !.text = NoText]
            /\ UNCHANGED passed
  /\ UNCHANGED <<evidence, heard, sources, rejected>>

Listen == [turn EXCEPT !.at = "listen", !.text = NoText]

Deliver(sent) ==
  /\ turn.at = "act" /\ Passes(turn.text)
  /\ IF sent
       THEN heard' = [text |-> turn.text, rejected |-> rejected] /\ turn' = Listen
       ELSE UNCHANGED heard /\ turn' = [turn EXCEPT !.at = "over", !.text = NoText]
  /\ UNCHANGED <<evidence, passed, sources, rejected>>

\* correctiveInstruction, up to MAX_HOLDS_PER_TURN times; the evidence stays.
Hold ==
  /\ turn.at = "act" /\ ~Passes(turn.text) /\ turn.holds < MaxHolds
  /\ turn' = [Listen EXCEPT !.holds = @ + 1]
  /\ UNCHANGED <<evidence, passed, heard, sources, rejected>>

\* Then the owner hears so, without a figure.
GiveUp ==
  /\ turn.at = "act" /\ ~Passes(turn.text) /\ turn.holds >= MaxHolds
  /\ turn' = [Listen EXCEPT !.holds = @ + 1]
  /\ heard' = [text |-> Fallback, rejected |-> rejected]
  /\ UNCHANGED <<evidence, passed, sources, rejected>>

\* A terminal idle, the deadline, or the process.
End ==
  /\ turn.at \notin {"none", "over"}
  /\ turn' = [turn EXCEPT !.at = "over", !.text = NoText]
  /\ UNCHANGED <<evidence, passed, heard, sources, rejected>>

Next ==
  \/ \E typed \in SUBSET Digits : Start(typed)
  \/ \E result \in Results : ToolResult(result)
  \/ \E text \in Texts : Say(text)
  \/ \E ok \in BOOLEAN : Log(ok) \/ Deliver(ok)
  \/ Hold \/ GiveUp \/ End

Spec == Init /\ [][Next]_vars
-------------------------------------------------------------------------------
\* A money figure the owner is told was returned by a tool call that succeeded in
\* this turn, in paisa or rupees, or is one they typed themselves.
FiguresTraced ==
  heard.text \notin {NoText, Fallback} =>
    \A x \in heard.text :
      \E s \in sources :
        /\ s.number[1] = x[1]
        /\ \/ s.number[2] = x[2]
           \/ s.by = "tool" /\ x[2] - s.number[2] \in {-2, 2}

\* "Deliver only when every money figure is evidenced and nothing failed": once a
\* validation has failed in a turn, nothing the agent says in it is delivered.  It is
\* what the gate is meant to do and does not: the verdict is looked for in quotes that
\* the turn has escaped, and never found.
SilentOnceRejected == heard.rejected => heard.text = Fallback

\* What the owner reads from the agent has been logged as passed.
PassedOnRecord == heard.text \in passed \cup {NoText, Fallback}
===============================================================================
