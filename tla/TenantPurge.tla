------------------------------ MODULE TenantPurge ------------------------------
(***************************************************************************)
(* "Delete my data" (security/data-deletion.ts): the business's agent      *)
(* session is deleted at the provider, then every row in one transaction,  *)
(* then a proof is written.  Members go on talking meanwhile: a turn may   *)
(* write rows, invite a person or open a session (session/store.ts).       *)
(*                                                                         *)
(* Of the tables, those are kept that something refers to or that refer to *)
(* something; the rest of the purge's list goes like "logs" (or, for the   *)
(* Tally companies, like "jobs").  A statement sees what is committed; a   *)
(* row that another open purge has deleted makes it wait.  The database    *)
(* refuses to delete a row that another one refers to, and the purge is    *)
(* rolled back.                                                            *)
(***************************************************************************)
EXTENDS Naturals, Sequences

CONSTANTS
  Tenant, Person, NoTenant,
  Purger,        \* calls of deleteTenantData
  Turn,          \* turns that look for the tenant's session
  Contents,      \* the tables a business may have rows in at the start
  Written,       \* bound: tables written to while the purge runs
  MaxSessions,   \* bound: sessions of a business
  MaxInputs      \* bound: purges, rows written, joins and looks for a session

VARIABLES
  business,   \* rows of tenants
  rows,       \* other rows of each business: table and age
  user, member,
  registry,   \* tenant_sessions: 0 if there is no row
  live,       \* sessions at the provider, with their business
  opened,     \* how many each business has had
  turn, purge,
  proof,      \* deletion_log: the business, and whether with a warning
  inputs,     \* so far
  blamed,     \* history: businesses whose purge failed by itself
  crossed     \* history: businesses whose purge a turn or another purge crossed, or a
              \* crash cut off from its proof

vars == <<business, rows, user, member, registry, live, opened, turn, purge, proof,
          inputs, blamed, crossed>>
-------------------------------------------------------------------------------
\* The purge lists none of these ("parties" stands for parties, invoices, bills, party
\* payments, allocations, idempotency keys, document numbers and credit notes).
Unlisted == {"parties"}

\* The tables that refer to rows of another, besides the business itself.
RefersTo == {<<"payments", "sales">>, <<"jobs", "connectors">>}

\* Mutant: sales are deleted before the payments that point at them.
PurgeOrderMutant ==
  <<"sales", "payments", "logs", "sessions", "jobs", "connectors",
    "memberships", "users", "tenants">>

\* "Children before parents."
PurgeOrder ==
  <<"payments", "sales", "logs", "sessions", "jobs", "connectors",
    "memberships", "users", "tenants">>

Table == {"payments", "sales", "logs", "jobs", "connectors", "parties"}
Age == {"early", "late"}

NoPurge == [at |-> "idle", of |-> NoTenant, step |-> 1, sessions |-> {},
            gone |-> {}, left |-> {}, persons |-> {}, unregistered |-> FALSE, warned |-> FALSE]
NoTurn == [at |-> "idle", of |-> NoTenant, session |-> 0]

TypeOK ==
  /\ business \subseteq Tenant /\ proof \subseteq Tenant \X BOOLEAN
  /\ blamed \subseteq Tenant /\ crossed \subseteq Tenant
  /\ rows \in [Tenant -> SUBSET (Table \X Age)]
  /\ user \subseteq Person /\ member \subseteq Person \X Tenant
  /\ registry \in [Tenant -> 0..MaxSessions] /\ opened \in [Tenant -> 0..MaxSessions]
  /\ live \subseteq (1..MaxSessions) \X Tenant
  /\ \A u \in Turn : turn[u].at \in {"idle", "create", "register"} /\ turn[u].session \in 0..MaxSessions
  /\ \A g \in Purger :
       /\ purge[g].at \in {"idle", "sessions", "rows", "proof"}
       /\ purge[g].step \in 1..Len(PurgeOrder)
       /\ purge[g].gone \subseteq Table \X Age
       /\ purge[g].left \subseteq Person /\ purge[g].persons \subseteq purge[g].left
  /\ inputs \in Nat

\* Every business has a member, and one person may serve them all; they may have
\* talked to the agent before.
Init ==
  /\ business = Tenant
  /\ \E c \in [Tenant -> Contents] : rows = [t \in Tenant |-> c[t] \X {"early"}]
  /\ member \in {m \in SUBSET (Person \X Tenant) : \A t \in Tenant : \E p \in Person : <<p, t>> \in m}
  /\ user = {m[1] : m \in member}
  /\ opened \in [Tenant -> {1}]
  /\ registry = opened /\ live = {<<1, t>> : t \in {x \in Tenant : opened[x] = 1}}
  /\ turn = [u \in Turn |-> NoTurn] /\ purge = [g \in Purger |-> NoPurge]
  /\ proof = {} /\ inputs = 0 /\ blamed = {} /\ crossed = {}
-------------------------------------------------------------------------------
Open(t) == {g \in Purger : purge[g].at # "idle" /\ purge[g].of = t}
InRows(t) == {g \in Open(t) : purge[g].at = "rows"}
Crossing(t) == IF Open(t) # {} THEN crossed \cup {t} ELSE crossed

\* What another open transaction has deleted is locked.
Locked(g, x) == \E h \in InRows(purge[g].of) \ {g} : \E a \in Age : <<x, a>> \in purge[h].gone

Input == inputs < MaxInputs /\ inputs' = inputs + 1

(* The turns *)

\* getOrCreateTenantSession: a session that is registered and alive is used again.
FindSession(u, t) ==
  /\ turn[u].at = "idle" /\ t \in business
  /\ Input
  /\ <<registry[t], t>> \notin live
  /\ turn' = [turn EXCEPT ![u] = [at |-> "create", of |-> t, session |-> 0]]
  /\ crossed' = IF \E v \in Turn : turn[v].at # "idle" /\ turn[v].of = t THEN crossed \cup {t}
                ELSE Crossing(t)
  /\ UNCHANGED <<business, rows, user, member, registry, live, opened, purge, proof, blamed>>

CreateSession(u) ==
  LET t == turn[u].of IN
  /\ turn[u].at = "create" /\ opened[t] < MaxSessions
  /\ opened' = [opened EXCEPT ![t] = @ + 1] /\ live' = live \cup {<<opened[t] + 1, t>>}
  /\ turn' = [turn EXCEPT ![u].at = "register", ![u].session = opened[t] + 1]
  /\ UNCHANGED <<business, rows, user, member, registry, purge, proof, inputs, blamed, crossed>>

\* The upsert; without the business it fails.
RegisterSession(u) ==
  LET t == turn[u].of IN
  /\ turn[u].at = "register"
  /\ ~\E g \in InRows(t) : purge[g].unregistered
  /\ registry' = IF t \in business THEN [registry EXCEPT ![t] = turn[u].session] ELSE registry
  /\ turn' = [turn EXCEPT ![u] = NoTurn]
  /\ UNCHANGED <<business, rows, user, member, live, opened, purge, proof, inputs, blamed, crossed>>

\* A tool call writes a row; what it refers to is there and not being deleted.
Write(t, x) ==
  /\ t \in business /\ Input
  /\ \A r \in RefersTo : r[1] = x =>
       \E a \in Age : <<r[2], a>> \in rows[t] /\ \A g \in InRows(t) : <<r[2], a>> \notin purge[g].gone
  /\ rows' = [rows EXCEPT ![t] = @ \cup {<<x, "late">>}]
  /\ crossed' = Crossing(t)
  /\ UNCHANGED <<business, user, member, registry, live, opened, turn, purge, proof, blamed>>

\* A person joins a business: a user row no purge has deleted, or a new one.
Join(p, t) ==
  /\ t \in business /\ <<p, t>> \notin member /\ Input
  /\ \A g \in Purger : p \notin purge[g].persons
  /\ user' = user \cup {p} /\ member' = member \cup {<<p, t>>}
  /\ crossed' = crossed \cup {purge[g].of : g \in {h \in Purger : purge[h].at # "idle"}}
  /\ UNCHANGED <<business, rows, registry, live, opened, turn, purge, proof, blamed>>
-------------------------------------------------------------------------------
(* The purge *)

\* "Capture the session ids before the purge removes tenant_sessions."
Captured(t) == IF registry[t] = 0 THEN {} ELSE {registry[t]}

Begin(g, t) ==
  /\ Input
  /\ purge[g].at = "idle" /\ <<t, TRUE>> \notin proof /\ <<t, FALSE>> \notin proof
  /\ purge' = [purge EXCEPT ![g] = [NoPurge EXCEPT !.at = "sessions", !.of = t, !.sessions = Captured(t)]]
  /\ crossed' = (IF \E u \in Turn : turn[u].at # "idle" /\ turn[u].of = t THEN {t} ELSE {})
                  \cup (IF \E h \in Purger : purge[h].at # "idle"
                        THEN {t} \cup {purge[h].of : h \in {k \in Purger : purge[k].at # "idle"}} ELSE {})
                  \cup crossed
  /\ UNCHANGED <<business, rows, user, member, registry, live, opened, turn, proof, blamed>>

\* Deleted, or archived (which warns too, and is taken for deleted here); failing both,
\* a warning.
DeleteSessions(g) ==
  /\ purge[g].at = "sessions"
  /\ \/ /\ live' = {s \in live : ~(s[2] = purge[g].of /\ s[1] \in purge[g].sessions)}
        /\ purge' = [purge EXCEPT ![g].at = "rows"]
     \/ /\ purge[g].sessions # {} /\ live' = live
        /\ purge' = [purge EXCEPT ![g].at = "rows", ![g].warned = TRUE]
  /\ UNCHANGED <<business, rows, user, member, registry, opened, turn, proof, inputs, blamed, crossed>>

\* The rows of table x the transaction sees.
Seen(g, x) == {r \in rows[purge[g].of] \ purge[g].gone : r[1] = x}

\* Is a row of table x still referred to?
ReferredTo(g, x) == \E r \in RefersTo : r[2] = x /\ Seen(g, r[1]) # {}

\* The transaction throws and nothing of it remains.
RollBack(g, itself) ==
  /\ purge' = [purge EXCEPT ![g] = NoPurge]
  /\ blamed' = IF itself THEN blamed \cup {purge[g].of} ELSE blamed
  /\ crossed' = IF purge[g].at = "proof" THEN crossed \cup {purge[g].of} ELSE crossed
  /\ UNCHANGED <<business, rows, user, member, registry, live, opened, turn, proof, inputs>>

Step(g, fields) == purge' = [purge EXCEPT ![g] = [fields EXCEPT !.step = @ + 1]]
At(g, x) == purge[g].at = "rows" /\ PurgeOrder[purge[g].step] = x

DeleteTable(g) ==
  \E x \in Table :
    /\ At(g, x) /\ ~Locked(g, x)
    /\ IF Seen(g, x) # {} /\ ReferredTo(g, x) THEN RollBack(g, TRUE)
       ELSE /\ Step(g, [purge[g] EXCEPT !.gone = @ \cup Seen(g, x)])
            /\ UNCHANGED <<business, rows, user, member, registry, live, opened, turn, proof,
                           inputs, blamed, crossed>>

DeleteRegistration(g) ==
  /\ At(g, "sessions")
  /\ ~\E h \in InRows(purge[g].of) \ {g} : purge[h].unregistered
  /\ Step(g, [purge[g] EXCEPT !.unregistered = registry[purge[g].of] # 0])
  /\ UNCHANGED <<business, rows, user, member, registry, live, opened, turn, proof, inputs, blamed, crossed>>

MembersOf(t) == {p \in Person : <<p, t>> \in member}

DeleteMemberships(g) ==
  /\ At(g, "memberships")
  /\ ~\E h \in InRows(purge[g].of) \ {g} : purge[h].left # {}
  /\ Step(g, [purge[g] EXCEPT !.left = MembersOf(purge[g].of)])
  /\ UNCHANGED <<business, rows, user, member, registry, live, opened, turn, proof, inputs, blamed, crossed>>

\* Mutant: the persons stay, whether they serve another business or not.
OrphansMutant(g) == {}

\* Those of them with no membership of another business on record.
Orphans(g) == {p \in purge[g].left : \A t \in Tenant \ {purge[g].of} : <<p, t>> \notin member}

DeleteUsers(g) ==
  /\ At(g, "users")
  /\ ~\E h \in Purger \ {g} : purge[h].persons \cap Orphans(g) # {}
  /\ Step(g, [purge[g] EXCEPT !.persons = Orphans(g)])
  /\ UNCHANGED <<business, rows, user, member, registry, live, opened, turn, proof, inputs, blamed, crossed>>

\* What was written behind the purge's back, or is not on its list.
Dangling(g) ==
  LET t == purge[g].of IN
  \/ rows[t] \ purge[g].gone # {}
  \/ MembersOf(t) \ purge[g].left # {}
  \/ registry[t] # 0 /\ ~purge[g].unregistered

DeleteBusiness(g) ==
  LET t == purge[g].of IN
  /\ At(g, "tenants")
  /\ IF t \in business /\ Dangling(g) THEN RollBack(g, rows[t] \cap (Unlisted \X Age) = {})
     ELSE /\ business' = business \ {t}
          /\ rows' = [rows EXCEPT ![t] = @ \ purge[g].gone]
          /\ member' = {m \in member : ~(m[2] = t /\ m[1] \in purge[g].left)}
          /\ user' = user \ purge[g].persons
          /\ registry' = IF purge[g].unregistered THEN [registry EXCEPT ![t] = 0] ELSE registry
          /\ purge' = [purge EXCEPT ![g].at = "proof"]
          /\ UNCHANGED <<live, opened, turn, proof, inputs, blamed, crossed>>

\* The proof is written outside the transaction.
Prove(g) ==
  /\ purge[g].at = "proof"
  /\ proof' = proof \cup {<<purge[g].of, purge[g].warned>>}
  /\ purge' = [purge EXCEPT ![g] = NoPurge]
  /\ UNCHANGED <<business, rows, user, member, registry, live, opened, turn, inputs, blamed, crossed>>

\* The process dies, or a statement fails for a reason of its own.
Breaks(g) == purge[g].at # "idle" /\ RollBack(g, FALSE)

Inputs ==
  \E t \in Tenant : \/ \E u \in Turn : FindSession(u, t)
                    \/ \E x \in Written : Write(t, x)
                    \/ \E p \in Person : Join(p, t)

Next ==
  \/ Inputs
  \/ \E u \in Turn : CreateSession(u) \/ RegisterSession(u)
  \/ \E g \in Purger :
       \/ \E t \in Tenant : Begin(g, t)
       \/ DeleteSessions(g) \/ DeleteTable(g) \/ DeleteRegistration(g) \/ DeleteMemberships(g)
       \/ DeleteUsers(g) \/ DeleteBusiness(g) \/ Prove(g) \/ Breaks(g)

Spec == Init /\ [][Next]_vars
-------------------------------------------------------------------------------
(* Properties *)

\* "Every tenant-scoped row, all or nothing": of a business that is gone nothing is
\* left, and a proof is there only when it is.
NothingLeft ==
  /\ \A t \in Tenant \ business : rows[t] = {} /\ MembersOf(t) = {} /\ registry[t] = 0
  /\ \A p \in proof : p[1] \notin business

\* A purge nobody crosses goes through, unless the business has rows of a table that is
\* not on the list: the order of the statements never makes it fail.
GoesThrough == blamed \subseteq crossed

\* A person who serves another business is kept, and one who serves none any more is
\* not, unless two purges crossed.
OrphansLeave ==
  /\ \A m \in member : m[1] \in user
  /\ \A p \in user : (\A t \in Tenant : <<p, t>> \notin member) => crossed # {}

\* After a proof without a warning no agent session of the business is alive, unless a
\* turn that opened it crossed the purge or another one, or a crash cut a first purge
\* off before its proof.
SessionsGone ==
  \A s \in live : <<s[2], FALSE>> \in proof => s[2] \in crossed
===============================================================================
