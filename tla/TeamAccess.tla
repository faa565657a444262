------------------------------ MODULE TeamAccess ------------------------------
(***************************************************************************)
(* Who may act for which business (identity/membership.ts, team-chat.ts,   *)
(* admin/team.ts, and the part of whatsapp/router.ts before the agent).    *)
(*                                                                         *)
(* Every change of a team is one transaction under the business's lock;    *)
(* a number accepts an invitation in two steps, a read and a conditional   *)
(* update, without that lock.  A message is handled in steps of its own:   *)
(* who is this, is there an invitation, is the business paused.            *)
(*                                                                         *)
(* Time is what has run out: an invitation is stale after INVITE_TTL_DAYS, *)
(* access that was limited is over.  Signup and pairing are in             *)
(* SignupPairing.                                                          *)
(***************************************************************************)
EXTENDS Naturals, Sequences, SequencesExt, FiniteSets

CONSTANTS
  Number,     \* WhatsApp numbers
  Tenant,     \* businesses
  NoNumber, NoTenant,
  Plan,       \* subscription plans
  Seats,      \* PLAN_SEATS: how many people a plan allows
  WithAccountant,  \* plans with the accountant_seat feature
  Role        \* INVITABLE_ROLES

ASSUME PlanAssumption == Seats \in [Plan -> Nat] /\ WithAccountant \subseteq Plan
ASSUME NobodyAssumption == NoNumber \notin Number /\ NoTenant \notin Tenant
ASSUME RoleAssumption == "owner" \notin Role
ASSUME NumberAssumption == IsFiniteSet(Number)

VARIABLES
  tenant,    \* tenants: status, verified number, state of the application
  plan,      \* teamPlan of each business
  row,       \* the row of memberships that is not revoked, by number and business
  created,   \* those rows, in the order of created_at
  touched,   \* the businesses of each number, in the order of updated_at
  at,        \* how far the number's message is
  pick,      \* the business whose invitation that message found
  strained,  \* history: businesses whose seats a permitted exception has exceeded
  paused     \* history: a business has been suspended

teamVars == <<tenant, plan, row, created, touched, at, pick, strained, paused>>
-------------------------------------------------------------------------------
Review == {"none", "awaiting", "approved", "declined"}
Business == [status: {"absent", "pending", "active", "suspended"},
             owner: Number \cup {NoNumber},
             review: Review,
             applicant: Number \cup {NoNumber}]

Row == [status: {"none", "invited", "active"}, role: Role \cup {"owner"},
        limited: BOOLEAN, over: BOOLEAN, stale: BOOLEAN]

Nothing == "none"
Text == {"join", "code", "other"}

TeamTypeOK ==
  /\ tenant \in [Tenant -> Business]
  /\ plan \in [Tenant -> Plan]
  /\ row \in [Number \X Tenant -> Row]
  /\ created \in Seq(Number \X Tenant) /\ IsInjective(created)
  /\ touched \in [Number -> Seq(Tenant)]
  /\ at \in [Number -> {"idle", "known", "asked", "join", "stranger"} \X (Text \cup {Nothing})]
  /\ pick \in [Number -> Tenant \cup {NoTenant}]
  /\ strained \subseteq Tenant
  /\ paused \in BOOLEAN

NoRow == [status |-> "none", role |-> "owner", limited |-> FALSE, over |-> FALSE, stale |-> FALSE]
Idle == <<"idle", Nothing>>
-------------------------------------------------------------------------------
(* What the queries say *)

Live(n, t) == row[<<n, t>>].status # "none"
Active(n, t) == row[<<n, t>>].status = "active" /\ ~row[<<n, t>>].over
Invited(n, t) == row[<<n, t>>].status = "invited" /\ ~row[<<n, t>>].over

Resolvable(n, t) == Active(n, t) /\ tenant[t].status = "active"

\* The oldest active membership of an active business.
Resolved(n) ==
  LET oldest == SelectInSeq(created, LAMBDA r : r[1] = n /\ Resolvable(n, r[2]))
  IN IF oldest = 0 THEN NoTenant ELSE created[oldest][2]

OfPausedBusiness(n) == \E t \in Tenant : Active(n, t) /\ tenant[t].status = "suspended"

Elsewhere(n, t) == \E u \in Tenant \ {t} : Active(n, u)

HoldsSeat(n, t) == Active(n, t) \/ (Invited(n, t) /\ ~row[<<n, t>>].stale)

SeatsUsed(t, except) == Cardinality({n \in Number \ {except} : HoldsSeat(n, t)})

RoleInPlan(p, r) == r = "accountant" => p \in WithAccountant

\* Mutant: >= became >.
SeatFreeMutant(p, used) == used <= Seats[p]

SeatFree(p, used) == used < Seats[p]

\* Mutant: an access that is over is still on the list.
ListedAsMutant(n, t) ==
  IF row[<<n, t>>].status = "none" THEN "removed"
  ELSE IF row[<<n, t>>].status = "invited" /\ row[<<n, t>>].stale THEN "invite_expired"
  ELSE row[<<n, t>>].status

\* Who is on the list of the team: what listTeam derives from a row.
ListedAs(n, t) ==
  IF row[<<n, t>>].status = "none" THEN "removed"
  ELSE IF row[<<n, t>>].over THEN "expired"
  ELSE IF row[<<n, t>>].status = "invited" /\ row[<<n, t>>].stale THEN "invite_expired"
  ELSE row[<<n, t>>].status
-------------------------------------------------------------------------------
(* Changes of rows *)

Last1(s, x) == Append(RemoveFirst(s, x), x)

Touch(n, t) == touched' = [touched EXCEPT ![n] = Last1(@, t)]

PutRow(n, t, r) ==
  /\ row' = [row EXCEPT ![<<n, t>>] = r]
  /\ created' = IF Live(n, t) THEN created ELSE Append(created, <<n, t>>)
  /\ Touch(n, t)

\* inviteMember, asked by the owner over chat or by support, who may override the plan.
InviteMember(t, n, r, limited, override) ==
  /\ tenant[t].status = "active"
  /\ ~Active(n, t)
  /\ ~Elsewhere(n, t)
  /\ override \/ (RoleInPlan(plan[t], r) /\ SeatFree(plan[t], SeatsUsed(t, n)))
  /\ PutRow(n, t, [status |-> "invited", role |-> r, limited |-> limited,
                   over |-> FALSE, stale |-> FALSE])
  /\ strained' = IF SeatFree(plan[t], SeatsUsed(t, n)) THEN strained ELSE strained \cup {t}
  /\ UNCHANGED <<tenant, plan, at, pick, paused>>

\* Mutant: the owner's row can be changed like any other.
ChangeableMutant(n, t) == ListedAs(n, t) \in {"active", "invited"}

\* The row of somebody who is on the list, other than the owner's.
Changeable(n, t) == ListedAs(n, t) \in {"active", "invited"} /\ row[<<n, t>>].role # "owner"

\* changeMember: another role, another end of access, or both.
ChangeMember(t, n, r, ends) ==
  /\ Changeable(n, t)
  /\ r = row[<<n, t>>].role \/ RoleInPlan(plan[t], r)
  /\ PutRow(n, t, IF ends = "keep" THEN [row[<<n, t>>] EXCEPT !.role = r, !.stale = FALSE]
                  ELSE [row[<<n, t>>] EXCEPT !.role = r, !.limited = ends = "later",
                                         !.over = FALSE, !.stale = FALSE])
  /\ UNCHANGED <<tenant, plan, at, pick, strained, paused>>

\* Mutant: a team command removes whoever it names.
RemovableMutant(n, t) == Live(n, t)

Removable(n, t) == Live(n, t) /\ row[<<n, t>>].role # "owner"

\* removeMember: the row is revoked for good, and a message that has found the
\* invitation in it finds it gone.
RemoveMember(t, n) ==
  /\ Removable(n, t)
  /\ row' = [row EXCEPT ![<<n, t>>] = NoRow]
  /\ created' = RemoveFirst(created, <<n, t>>)
  /\ touched' = [touched EXCEPT ![n] = RemoveFirst(@, t)]
  /\ pick' = [pick EXCEPT ![n] = IF @ = t THEN NoTenant ELSE @]
  /\ UNCHANGED <<tenant, plan, at, strained, paused>>

\* refreshInvite, from the panel: a stale invitation needs a seat again.
RefreshInvite(t, n) ==
  /\ Invited(n, t)
  /\ row[<<n, t>>].stale => RoleInPlan(plan[t], row[<<n, t>>].role)
                        /\ SeatFree(plan[t], SeatsUsed(t, n))
  /\ PutRow(n, t, [row[<<n, t>>] EXCEPT !.stale = FALSE])
  /\ UNCHANGED <<tenant, plan, at, pick, strained, paused>>
-------------------------------------------------------------------------------
(* A message *)

\* handleClaimed: resolveMembership.  A member's message goes on to the agent.
Hear(n, text) ==
  /\ at[n] = Idle
  /\ Resolved(n) = NoTenant
  /\ at' = [at EXCEPT ![n] = <<IF text = "join" THEN "asked" ELSE "known", text>>]
  /\ UNCHANGED <<tenant, plan, row, created, touched, pick, strained, paused>>

\* Where the newest invitation that can be answered stands in touched[n], or 0.
Answerable(n) ==
  SelectLastInSeq(touched[n],
    LAMBDA t : Invited(n, t) /\ ~row[<<n, t>>].stale /\ tenant[t].status = "active")

\* acceptInvite
FindInvite(n) ==
  /\ at[n][1] = "asked"
  /\ IF Answerable(n) = 0
       THEN at' = [at EXCEPT ![n] = <<"known", @[2]>>] /\ UNCHANGED pick
       ELSE /\ at' = [at EXCEPT ![n] = <<"join", @[2]>>]
            /\ pick' = [pick EXCEPT ![n] = touched[n][Answerable(n)]]
  /\ UNCHANGED <<tenant, plan, row, created, touched, strained, paused>>

\* UPDATE ... WHERE id = ... AND status = 'invited': neither the age of the
\* invitation nor the business is looked at again.
Join(n) ==
  /\ at[n][1] = "join" /\ pick[n] # NoTenant /\ row[<<n, pick[n]>>].status = "invited"
  /\ row' = [row EXCEPT ![<<n, pick[n]>>].status = "active"]
  /\ Touch(n, pick[n])
  /\ at' = [at EXCEPT ![n] = Idle]
  /\ pick' = [pick EXCEPT ![n] = NoTenant]
  /\ strained' = IF row[<<n, pick[n]>>].stale THEN strained \cup {pick[n]} ELSE strained
  /\ UNCHANGED <<tenant, plan, created, paused>>

InviteGone(n) ==
  /\ at[n][1] = "join" /\ pick[n] = NoTenant
  /\ at' = [at EXCEPT ![n] = <<"known", @[2]>>]
  /\ UNCHANGED <<tenant, plan, row, created, touched, pick, strained, paused>>

\* Mutant: the reply to a paused member is forgotten.
PausedReplyMutant(n) == FALSE

PausedReply(n) == OfPausedBusiness(n)

\* isMemberOfSuspendedTenant: told so, or on to pairing.
CheckPaused(n) ==
  /\ at[n][1] = "known"
  /\ at' = [at EXCEPT ![n] = IF PausedReply(n) THEN Idle ELSE <<"stranger", @[2]>>]
  /\ UNCHANGED <<tenant, plan, row, created, touched, pick, strained, paused>>
-------------------------------------------------------------------------------
(* What goes on around the team *)

\* The page offers it for an active business; the handler takes any.
Suspend(t) ==
  /\ tenant[t].status \notin {"absent", "suspended"}
  /\ tenant' = [tenant EXCEPT ![t].status = "suspended"]
  /\ paused' = TRUE
  /\ UNCHANGED <<plan, row, created, touched, at, pick, strained>>

Reactivate(t) ==
  /\ tenant[t].status = "suspended" /\ tenant[t].owner # NoNumber
  /\ tenant' = [tenant EXCEPT ![t].status = "active"]
  /\ UNCHANGED <<plan, row, created, touched, at, pick, strained, paused>>

\* A payment or an operator moves the business to another plan.
ChangePlan(t, p) ==
  /\ p # plan[t] /\ tenant[t].status = "active"
  /\ plan' = [plan EXCEPT ![t] = p]
  /\ strained' = IF SeatsUsed(t, NoNumber) > Seats[p] THEN strained \cup {t} ELSE strained
  /\ UNCHANGED <<tenant, row, created, touched, at, pick, paused>>

\* INVITE_TTL_DAYS pass, or a limited access comes to its end.
Lapse(n, t) ==
  /\ \/ row[<<n, t>>].status = "invited" /\ ~row[<<n, t>>].stale /\ row' = [row EXCEPT ![<<n, t>>].stale = TRUE]
     \/ Live(n, t) /\ row[<<n, t>>].limited /\ ~row[<<n, t>>].over /\ row' = [row EXCEPT ![<<n, t>>].over = TRUE]
  /\ UNCHANGED <<tenant, plan, created, touched, at, pick, strained, paused>>

\* handleTeamCommand: what an owner may say, resolved to the business.
OwnerCommands ==
  \E t \in Tenant, n \in Number :
    /\ tenant[t].owner # NoNumber /\ Resolved(tenant[t].owner) = t
    /\ row[<<tenant[t].owner, t>>].role = "owner"
    /\ \/ \E r \in Role, limited \in BOOLEAN : InviteMember(t, n, r, limited, FALSE)
       \/ \E r \in Role : ChangeMember(t, n, r, "keep")
       \/ RemoveMember(t, n)

\* The team page of the panel.
DeskCommands ==
  \E t \in Tenant, n \in Number :
    \/ \E r \in Role, limited, override \in BOOLEAN :
         n # tenant[t].owner /\ InviteMember(t, n, r, limited, override)
    \/ \E r \in Role, ends \in {"keep", "later", "never"} : ChangeMember(t, n, r, ends)
    \/ RemoveMember(t, n)
    \/ RefreshInvite(t, n)

\* What people and time do to the team, and what follows by itself.
TeamInputs ==
  \/ OwnerCommands \/ DeskCommands
  \/ \E n \in Number, t \in Tenant : Lapse(n, t)
  \/ \E n \in Number, text \in Text : Hear(n, text)
  \/ \E t \in Tenant : Suspend(t) \/ Reactivate(t) \/ \E p \in Plan : ChangePlan(t, p)

TeamSteps ==
  \E n \in Number : FindInvite(n) \/ Join(n) \/ InviteGone(n) \/ CheckPaused(n)
-------------------------------------------------------------------------------
(* Properties *)

\* "The owner role is never granted, changed, expired or removed here (no
\* lockout)": whatever invitations, changes, removals and joins happen, a business
\* with a verified number keeps exactly one owner, and it is that number.
OwnerKeepsBusiness ==
  \A t \in Tenant :
    tenant[t].owner # NoNumber =>
      \A n \in Number : (Active(n, t) /\ row[<<n, t>>].role = "owner") <=> n = tenant[t].owner

\* "Two concurrent invites can never both take the last seat": a business uses
\* more seats than its plan has only after support overrode the plan, the plan was
\* reduced, or an invitation ran out between the two steps of accepting it.
SeatsWithinPlan ==
  \A t \in Tenant \ strained : SeatsUsed(t, NoNumber) <= Seats[plan[t]]

\* "Today one phone maps to one active tenant": as long as no business was ever
\* suspended, a number acts for one business at most, and the owner of a business
\* that is active acts for that one.
OneBusinessPerNumber ==
  ~paused => \A n \in Number : Cardinality({t \in Tenant : Resolvable(n, t)}) <= 1
===============================================================================
