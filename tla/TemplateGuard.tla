----------------------------- MODULE TemplateGuard -----------------------------
(***************************************************************************)
(* The billing guard in front of every template send.  It keeps the live   *)
(* category of each template as Meta last told it, refuses one that has    *)
(* become MARKETING, and sends on the declared category what it does not   *)
(* know.  Calls that need the list share one request to Meta; the account  *)
(* may be changed by an admin while that request is under way.             *)
(*                                                                         *)
(* The two clocks (the time the list stays fresh, the wait after a failed  *)
(* lookup) are flags the environment clears.                               *)
(***************************************************************************)
EXTENDS Naturals

CONSTANTS Account, Template, Call

VARIABLES
  live,       \* account -> templates Meta has categorised as MARKETING
  account,    \* the account of the runtime settings
  known,      \* the guard's map: whose it is, and what it calls MARKETING
  scope,      \* the account the guard believes it works for
  fresh,      \* is the map younger than its time to live?
  waits,      \* is Meta left alone after a failed lookup?
  inflight,   \* the account asked by the request under way, if any
  call        \* senders: idle, waiting for the list, cleared to post, refused

vars == <<live, account, known, scope, fresh, waits, inflight, call>>

Sender == [state: {"idle", "waiting", "cleared", "refused"}, template: Template]
Unknown == [of |-> {}, marketing |-> {}]      \* an empty map

TypeOK ==
  /\ live \in [Account -> SUBSET Template]
  /\ account \in Account /\ scope \in Account /\ inflight \subseteq Account
  /\ known \in [of: SUBSET Account, marketing: SUBSET Template]
  /\ fresh \in BOOLEAN /\ waits \in BOOLEAN
  /\ call \in [Call -> Sender]

Init ==
  /\ live \in [Account -> SUBSET Template]
  /\ account \in Account
  /\ known = Unknown /\ scope = account
  /\ fresh = FALSE /\ waits = FALSE /\ inflight = {}
  /\ call \in [Call -> [state: {"idle"}, template: Template]]
-------------------------------------------------------------------------------
\* templateSendVerdict: a template that is not on the map may be sent.
Refuses(map, t) == t \in map.marketing

Answer(map, t) ==
  [state |-> IF Refuses(map, t) THEN "refused" ELSE "cleared", template |-> t]

\* "Another account's categories say nothing about this one."
AnotherScope == account # scope

\* assertSendable up to its first await: a known or an unreachable list decides now.
Ask(c, t) ==
  LET map   == IF AnotherScope THEN Unknown ELSE known
      alone == AnotherScope \/ ~(fresh \/ waits) IN
  /\ call[c].state = "idle"
  /\ scope' = account
  /\ known' = map
  /\ IF alone
       THEN /\ fresh' = FALSE /\ waits' = FALSE
            /\ inflight' = IF inflight = {} THEN {account} ELSE inflight
            /\ call' = [call EXCEPT ![c] = [state |-> "waiting", template |-> t]]
       ELSE /\ call' = [call EXCEPT ![c] = Answer(map, t)]
            /\ UNCHANGED <<fresh, waits, inflight>>
  /\ UNCHANGED <<live, account>>

\* Those who wait go on with whatever the map holds now.
Resume(map) ==
  call' = [c \in Call |-> IF call[c].state = "waiting" THEN Answer(map, call[c].template)
                          ELSE call[c]]

Loaded ==
  /\ inflight # {}
  /\ known' = [of |-> inflight, marketing |-> UNION {live[a] : a \in inflight}]
  /\ fresh' = TRUE /\ inflight' = {}
  /\ Resume(known')
  /\ UNCHANGED <<live, account, scope, waits>>

\* Mutant: a lookup that fails forgets the list.
LastKnownMutant == Unknown

\* "The last known category still wins."
LastKnown == known

LookupFails ==
  /\ inflight # {}
  /\ known' = LastKnown
  /\ waits' = TRUE /\ inflight' = {}
  /\ Resume(known')
  /\ UNCHANGED <<live, account, scope, fresh>>

\* The post goes to the account of the settings of that moment, or the error is raised.
Return(c) ==
  /\ call[c].state \in {"cleared", "refused"}
  /\ call' = [call EXCEPT ![c].state = "idle"]
  /\ UNCHANGED <<live, account, known, scope, fresh, waits, inflight>>

Expire ==
  /\ fresh' = FALSE
  /\ UNCHANGED <<live, account, known, scope, waits, inflight, call>>

WaitOver ==
  /\ waits' = FALSE
  /\ UNCHANGED <<live, account, known, scope, fresh, inflight, call>>

\* Meta re-categorises a template; an admin changes the account.
Recategorise(a, t) ==
  /\ live' = [live EXCEPT ![a] = IF t \in @ THEN @ \ {t} ELSE @ \cup {t}]
  /\ UNCHANGED <<account, known, scope, fresh, waits, inflight, call>>

SwapAccount(a) ==
  /\ account' = a
  /\ UNCHANGED <<live, known, scope, fresh, waits, inflight, call>>

Next ==
  \/ \E c \in Call : Return(c) \/ \E t \in Template : Ask(c, t)
  \/ Loaded \/ LookupFails \/ Expire \/ WaitOver
  \/ \E a \in Account : SwapAccount(a) \/ \E t \in Template : Recategorise(a, t)

Spec == Init /\ [][Next]_vars
-------------------------------------------------------------------------------
(* Properties *)

\* "A template once seen as MARKETING stays refused through an outage": between two
\* lists of the same account, what a sender was refused nobody is cleared for.
RefusedThroughOutage ==
  [][\A c \in Call, t \in Template :
       (t \in known.marketing /\ scope' = scope /\ ~Loaded
          /\ call[c].state # "cleared" /\ call'[c].state = "cleared")
         => call'[c].template # t]_vars

===============================================================================
