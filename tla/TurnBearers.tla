------------------------------ MODULE TurnBearers ------------------------------
(***************************************************************************)
(* With whose rights the agent acts in a turn of one business.  The        *)
(* business has one vault at the provider, with a credential per tool      *)
(* server, and one session that uses it.  Each turn first finds or makes   *)
(* the vault, puts tokens with the role of its member into it              *)
(* (vault/tenant-vault.ts, session/store.ts), and the tool servers act by  *)
(* the role in the token they are shown (mcp-ledger/src/auth.ts,           *)
(* server.ts; shared/src/rbac/roles.ts).                                   *)
(*                                                                         *)
(* A member's own turns follow each other; those of two members do not     *)
(* wait for each other.  A token lives for a day, a turn for minutes.      *)
(***************************************************************************)
EXTENDS Naturals, Sequences, FiniteSets

CONSTANTS
  Member,      \* members of the business who write to it
  Acting,      \* roles they have when they do; they may change between turns
  Servers,     \* tool servers, a sequence: their tokens are rotated in this order
  MaxVaults,   \* bound: vaults of the business at the provider
  MaxTurns     \* bound: turns

VARIABLES
  vaults,    \* at the provider: of each vault of that name, the tokens by server
  registry,  \* tenant_sessions: the vault of the registered session, or 0
  live,      \* the registered session has not terminated
  turn,      \* what is being done for each member
  turns,     \* turns begun
  stray,     \* work of the agent that went on after its turn was given up
  shared,    \* history: members whose turn was not alone all the time
  crossed,   \* history: two were at work in the business at once
  misfits    \* history: of which turns a call went otherwise than its asker's role says

vars == <<vaults, registry, live, turn, turns, stray, shared, crossed, misfits>>
-------------------------------------------------------------------------------
\* Operators named ...Mutant are wrong versions of the definition after them,
\* kept to show that a property notices the change; the model does not use them.

Capability ==
  {"record_entry", "confirm_entry", "generate_report", "prepare_vat", "move_money",
   "manage_billing", "audit_trail"}

TokenRole == {"owner", "accountant", "auditor", "staff", "viewer"}

Allowed(role) ==
  CASE role = "owner" -> Capability
    [] role = "accountant" -> Capability \ {"move_money", "manage_billing"}
    [] role = "auditor" -> {"generate_report", "audit_trail"}
    [] role = "staff" -> {"record_entry"}
    [] role = "viewer" -> {"generate_report"}

Can(role, capability) == role \in TokenRole /\ capability \in Allowed(role)

\* TOOL_CAPABILITY of each server: what its tools ask for.
LedgerTools == Capability \ {"move_money", "manage_billing"}
PaymentsTools == {"move_money", "manage_billing", "generate_report"}
TallyTools == {"manage_billing", "generate_report"}

Asks(server) ==
  CASE server = "ledger" -> LedgerTools [] server = "payments" -> PaymentsTools [] server = "tally" -> TallyTools

Server == {Servers[i] : i \in 1..Len(Servers)}
Vault == 1..MaxVaults
Existing == {v \in Vault : vaults[v] # <<>>}

NoToken == [role |-> "none", fresh |-> FALSE]
Token == [role : TokenRole \cup {"none"}, fresh : BOOLEAN]
Empty == [s \in Server |-> NoToken]

NoTurn == [at |-> "none"]
Turn ==
  {NoTurn} \cup
  [at : {"find", "make"}, role : TokenRole, reuse : Vault \cup {0}] \cup
  [at : {"rotate", "start", "register", "run"}, role : TokenRole, reuse : Vault \cup {0}, vault : Vault,
   done : 0..Len(Servers)]

TypeOK ==
  /\ vaults \in [Vault -> [Server -> Token] \cup {<<>>}]
  /\ registry \in Vault \cup {0} /\ live \in BOOLEAN
  /\ turn \in [Member -> Turn] /\ turns \in 0..MaxTurns
  /\ stray \subseteq [role : TokenRole, vault : Vault, shared : BOOLEAN]
  /\ shared \subseteq Member /\ crossed \in BOOLEAN
  /\ misfits \subseteq {"alone", "shared"}

Init ==
  /\ vaults = [v \in Vault |-> <<>>]
  /\ registry = 0 /\ live = FALSE
  /\ turn = [m \in Member |-> NoTurn] /\ turns = 0
  /\ stray = {} /\ shared = {} /\ crossed = FALSE /\ misfits = {}
-------------------------------------------------------------------------------
Busy == {m \in Member : turn[m] # NoTurn}

\* getOrCreateTenantSession: the role is the member's now; a registered session that
\* the provider still has is used again, unless asking for it fails.
Begin(m, role) ==
  /\ turn[m] = NoTurn /\ turns < MaxTurns
  /\ turns' = turns + 1
  /\ \E reuse \in {0, IF live THEN registry ELSE 0} :
       turn' = [turn EXCEPT ![m] = [at |-> "find", role |-> role, reuse |-> reuse]]
  /\ LET others == Busy # {} \/ stray # {}
     IN /\ shared' = IF others THEN shared \cup Busy \cup {m} ELSE shared \ {m}
        /\ stray' = {[w EXCEPT !.shared = TRUE] : w \in stray}
        /\ crossed' = (crossed \/ others)
  /\ UNCHANGED <<vaults, registry, live, misfits>>

rest == <<registry, live, turns, stray, shared, crossed, misfits>>

\* The first vault of that name in the provider's list.
FindVault(m) ==
  /\ turn[m].at = "find"
  /\ \/ \E v \in Existing :
          turn' = [turn EXCEPT ![m] =
            [at |-> "rotate", role |-> @.role, reuse |-> @.reuse, vault |-> v, done |-> 0]]
     \/ Existing = {} /\ turn' = [turn EXCEPT ![m].at = "make"]
  /\ UNCHANGED <<vaults, rest>>

\* What a failure leaves of a turn: on the way to a registered session everything is
\* begun again, for a new one; otherwise the member is told so.
Dropped(t) ==
  IF t.reuse # 0 /\ t.at \in {"find", "make", "rotate"}
    THEN [at |-> "find", role |-> t.role, reuse |-> 0] ELSE NoTurn

\* The answer may get lost: then there is a vault, and the call has failed.
MakeVault(m, lost) ==
  /\ turn[m].at = "make"
  /\ \E v \in Vault :
       /\ v \notin Existing
       /\ vaults' = [vaults EXCEPT ![v] = Empty]
       /\ turn' = [turn EXCEPT ![m] = IF lost THEN Dropped(@) ELSE
            [at |-> "rotate", role |-> @.role, reuse |-> @.reuse, vault |-> v, done |-> 0]]
  /\ UNCHANGED rest

\* Mutant: a token without a role, which counts as the owner's.
MintMutant(role) == [role |-> "owner", fresh |-> TRUE]

Mint(role) == [role |-> role, fresh |-> TRUE]

\* Mutant: a credential that is there is kept.
RotatedMutant(token, role) == IF token = NoToken THEN Mint(role) ELSE token

\* A credential is updated, or made, with a fresh token.
Rotated(token, role) == Mint(role)

\* One call to the provider per server.
Rotate(m) ==
  /\ turn[m].at = "rotate"
  /\ IF turn[m].done < Len(Servers)
       THEN LET next == turn[m].done + 1
            IN /\ vaults' = [vaults EXCEPT ![turn[m].vault][Servers[next]] = Rotated(@, turn[m].role)]
               /\ turn' = [turn EXCEPT ![m].done = next]
       ELSE /\ turn' = [turn EXCEPT ![m] =
                 IF @.reuse # 0 THEN [@ EXCEPT !.at = "run", !.vault = turn[m].reuse]
                                ELSE [@ EXCEPT !.at = "start"]]
            /\ UNCHANGED vaults
  /\ UNCHANGED rest

StartSession(m) ==
  /\ turn[m].at = "start"
  /\ turn' = [turn EXCEPT ![m].at = "register"]
  /\ UNCHANGED <<vaults, rest>>

Register(m) ==
  /\ turn[m].at = "register"
  /\ registry' = turn[m].vault /\ live' = TRUE
  /\ turn' = [turn EXCEPT ![m].at = "run"]
  /\ UNCHANGED <<vaults, turns, stray, shared, crossed, misfits>>

\* The provider or the database fails; what was done stays.
Fail(m) ==
  /\ turn[m].at \in {"find", "make", "rotate", "start", "register"}
  /\ turn' = [turn EXCEPT ![m] = Dropped(@)]
  /\ UNCHANGED <<vaults, rest>>
-------------------------------------------------------------------------------
(* The agent calls a tool *)

\* verifyTenantToken: a signed token that has not expired.
Accepted(token) == token.fresh

\* Mutant: whoever shows a valid token may call every tool.
CarriedOutMutant(token, capability) == Accepted(token)

\* The server goes by the token and asks for what the tool declares.
CarriedOut(token, capability) == Accepted(token) /\ Can(token.role, capability)

\* A call is right when it is carried out just if the role of who asked allows it.
Judge(role, vault, kind) ==
  \E s \in Server : \E capability \in Asks(s) :
    misfits' = misfits \cup
      {k \in {kind} : CarriedOut(vaults[vault][s], capability) # Can(role, capability)}

Call(m) ==
  /\ turn[m].at = "run"
  /\ Judge(turn[m].role, turn[m].vault, IF m \in shared THEN "shared" ELSE "alone")
  /\ UNCHANGED <<vaults, registry, live, turn, turns, stray, shared, crossed>>

StrayCall(w) ==
  /\ Judge(w.role, w.vault, IF w.shared THEN "shared" ELSE "alone")
  /\ UNCHANGED <<vaults, registry, live, turn, turns, stray, shared, crossed>>

End(m) ==
  /\ turn[m].at = "run"
  /\ turn' = [turn EXCEPT ![m] = NoTurn]
  /\ UNCHANGED <<vaults, rest>>

Work(m) == [role |-> turn[m].role, vault |-> turn[m].vault, shared |-> m \in shared]

\* The stream is silent too long; the interrupt may fail, and nobody looks.
TimeOut(m) ==
  /\ turn[m].at = "run"
  /\ turn' = [turn EXCEPT ![m] = NoTurn]
  /\ stray' = stray \cup {Work(m)}
  /\ UNCHANGED <<vaults, registry, live, turns, shared, crossed, misfits>>

\* The orchestrator dies, the agent does not.
Kill ==
  /\ Busy # {}
  /\ stray' = stray \cup {Work(m) : m \in {n \in Busy : turn[n].at = "run"}}
  /\ turn' = [m \in Member |-> NoTurn]
  /\ UNCHANGED <<vaults, registry, live, turns, shared, crossed, misfits>>

StrayEnds ==
  /\ stray # {} /\ stray' = {}
  /\ UNCHANGED <<vaults, registry, live, turn, turns, shared, crossed, misfits>>

\* The registered session is terminated or archived while nobody uses it.
SessionGone ==
  /\ live /\ Busy = {} /\ stray = {}
  /\ live' = FALSE
  /\ UNCHANGED <<vaults, registry, turn, turns, stray, shared, crossed, misfits>>

\* A day without a message: every token has expired.
Night ==
  /\ Busy = {} /\ stray = {} /\ Existing # {}
  /\ vaults' = [v \in Vault |->
       IF v \in Existing THEN [s \in Server |-> [vaults[v][s] EXCEPT !.fresh = FALSE]] ELSE <<>>]
  /\ UNCHANGED <<turn, rest>>

Next ==
  \/ \E m \in Member :
       \/ \E role \in Acting : Begin(m, role)
       \/ FindVault(m) \/ \E lost \in BOOLEAN : MakeVault(m, lost)
       \/ Rotate(m) \/ StartSession(m) \/ Register(m) \/ Fail(m)
       \/ Call(m) \/ End(m) \/ TimeOut(m)
  \/ \E w \in stray : StrayCall(w)
  \/ Kill \/ StrayEnds \/ SessionGone \/ Night

Spec == Init /\ [][Next]_vars
-------------------------------------------------------------------------------
\* In a business with one vault, a turn that is alone from its beginning to its end
\* acts with the rights of its member and no other, however earlier turns overlapped,
\* failed in the middle of a rotation or outlived their tokens.
OwnRightsAlone == "alone" \in misfits => Cardinality(Existing) > 1

\* A second vault comes only of two first turns at once; its session would keep the
\* tokens it was started with.
OneVaultUnlessCrossed == Cardinality(Existing) > 1 => crossed
===============================================================================
