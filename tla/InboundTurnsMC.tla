---------------------------- MODULE InboundTurnsMC ----------------------------
(* InboundTurns for TLC. *)
EXTENDS InboundTurns

CONSTANTS m1, m2, s1, s2

\* The members are interchangeable: the first message may as well be from s1.
MCInit == Init /\ from[m1] = s1

MCSpec == MCInit /\ [][Next]_vars /\ Fairness
===============================================================================
