------------------------------- MODULE AdminDesk -------------------------------
(***************************************************************************)
(* The operator's settings (db/settings.ts, shared/settings/registry.ts),  *)
(* from the form of the admin panel to the processes that act by them, and *)
(* the sign-in in front of the form (admin/auth.ts, admin/routes.ts).      *)
(*                                                                         *)
(* A form saves or resets one key in a transaction that also appends to    *)
(* admin_events, and then refreshes its own process.  Every process keeps  *)
(* a snapshot and refreshes it on a timer; loads may overlap, finish in    *)
(* any order and fail.  A value is what is saved, else the environment's   *)
(* if it is valid, else the default.                                       *)
(***************************************************************************)
EXTENDS Naturals, Sequences, FiniteSets

CONSTANTS
  Key, Value, NoValue,
  Secret,        \* keys whose values are sealed before they are stored
  CanSeal,       \* is the field encryption key configured?
  Env, Default,  \* by key: a value, "invalid" (environment only) or NoValue
  Saved0,        \* bound: what may be saved when the processes start
  Entered,       \* bound: what the forms are filled in with, by key
  Form,          \* forms being handled
  Guess,         \* sign-ins being handled
  Server,        \* the processes; one of them serves the panel
  Panel,
  MaxFailures,   \* LOGIN_MAX_FAILURES
  MaxInputs,     \* bound: forms sent
  MaxBreaks      \* bound: loads and transactions that fail

VARIABLES
  saved,       \* app_settings
  events,      \* admin_events of settings, by id; the id of an insert undone is not used again
  form, snapshot, ready,
  loads,       \* of each server: what loads under way have read
  guess, failures, signedIn,
  inputs, breaks,
  past,        \* history: what the table held, at any moment
  blind        \* history: keys reset while a first save of them was under way

vars == <<saved, events, form, snapshot, ready, loads, guess, failures, signedIn,
          inputs, breaks, past, blind>>
-------------------------------------------------------------------------------
Map == [Key -> Value \cup {NoValue}]
EventRow == [by: Form, key: Key, value: Value \cup {NoValue, "secret"},
             state: {"open", "kept", "undone"}]
Idle == [at |-> "idle", key |-> CHOOSE k \in Key : TRUE, value |-> NoValue, holds |-> FALSE]

TypeOK ==
  /\ saved \in Map /\ past \subseteq Map
  /\ events \in Seq(EventRow)
  /\ form \in [Form -> [at: {"idle", "row", "event", "commit", "load"}, key: Key,
                        value: Value \cup {NoValue}, holds: BOOLEAN]]
  /\ snapshot \in [Server -> Map] /\ ready \in [Server -> BOOLEAN]
  /\ loads \in [Server -> SUBSET Map]
  /\ guess \in [Guess -> {"idle", "verify"}] /\ failures \in Nat
  /\ signedIn \in BOOLEAN /\ blind \subseteq Key
  /\ inputs \in 0..MaxInputs /\ breaks \in 0..MaxBreaks

Init ==
  /\ saved \in Saved0 /\ past = {saved}
  /\ events = <<>> /\ form = [f \in Form |-> Idle]
  /\ snapshot = [s \in Server |-> [k \in Key |-> NoValue]]
  /\ ready = [s \in Server |-> FALSE]
  /\ loads = [s \in Server |-> {}]
  /\ guess = [g \in Guess |-> "idle"] /\ failures = 0 /\ signedIn \in BOOLEAN
  /\ inputs = 0 /\ breaks = 0 /\ blind = {}

Input == inputs < MaxInputs /\ inputs' = inputs + 1
Break == breaks < MaxBreaks /\ breaks' = breaks + 1
-------------------------------------------------------------------------------
(* Sign-in *)

\* Mutant: the limit is one more than it says.
LockedOutMutant == failures > MaxFailures

LockedOut == failures >= MaxFailures

\* The lock is looked at first; the password is hashed meanwhile.
TryPassword(g) ==
  /\ guess[g] = "idle"
  /\ guess' = IF LockedOut THEN guess ELSE [guess EXCEPT ![g] = "verify"]
  /\ UNCHANGED <<saved, events, form, snapshot, ready, loads, failures, signedIn, inputs,
                 breaks, past, blind>>

Wrong(g) ==
  /\ guess[g] = "verify" /\ guess' = [guess EXCEPT ![g] = "idle"]
  /\ failures' = failures + 1
  /\ UNCHANGED <<saved, events, form, snapshot, ready, loads, signedIn, inputs, breaks,
                 past, blind>>

Right(g) ==
  /\ guess[g] = "verify" /\ guess' = [guess EXCEPT ![g] = "idle"]
  /\ failures' = 0 /\ signedIn' = TRUE
  /\ UNCHANGED <<saved, events, form, snapshot, ready, loads, inputs, breaks, past, blind>>

\* The window of failures is over, or the cookie: in time, or by another password.
WindowOver ==
  /\ failures > 0 /\ failures' = 0
  /\ UNCHANGED <<saved, events, form, snapshot, ready, loads, guess, signedIn, inputs,
                 breaks, past, blind>>

SessionOver ==
  /\ signedIn /\ signedIn' = FALSE
  /\ UNCHANGED <<saved, events, form, snapshot, ready, loads, guess, failures, inputs,
                 breaks, past, blind>>
-------------------------------------------------------------------------------
(* A form *)

\* Secrets are refused while they cannot be sealed; a secret left empty is unchanged.
MaySave(k) == k \in Secret => CanSeal

Submit(f, k, v) ==
  /\ signedIn /\ form[f].at = "idle" /\ Input
  /\ v # NoValue => MaySave(k)
  /\ form' = [form EXCEPT ![f] = [at |-> "row", key |-> k, value |-> v, holds |-> FALSE]]
  /\ UNCHANGED <<saved, events, snapshot, ready, loads, guess, failures, signedIn, breaks,
                 past, blind>>

\* Another form has written the row and not committed.
Held(k) == \E g \in Form : form[g].holds /\ form[g].key = k

ResetUnderWay(k) ==
  \E g \in Form : form[g].at \in {"event", "commit"} /\ form[g].key = k /\ ~form[g].holds

\* The upsert waits for whoever holds the row.  A reset waits too if the row is there;
\* it does not see one that is not committed, and then deletes nothing.
WriteRow(f) ==
  LET k == form[f].key
      nothing == form[f].value = NoValue /\ saved[k] = NoValue IN
  /\ form[f].at = "row"
  /\ nothing \/ ~Held(k)
  /\ form' = [form EXCEPT ![f].at = "event", ![f].holds = ~nothing]
  /\ blind' = IF IF nothing THEN Held(k) ELSE ResetUnderWay(k) THEN blind \cup {k} ELSE blind
  /\ UNCHANGED <<saved, events, snapshot, ready, loads, guess, failures, signedIn, inputs,
                 breaks, past>>

\* What the event tells: of a secret only that it changed.
Told(k, v) == IF v # NoValue /\ k \in Secret THEN "secret" ELSE v

WriteEvent(f) ==
  /\ form[f].at = "event" /\ form' = [form EXCEPT ![f].at = "commit"]
  /\ events' = Append(events, [by |-> f, key |-> form[f].key,
                               value |-> Told(form[f].key, form[f].value), state |-> "open"])
  /\ UNCHANGED <<saved, snapshot, ready, loads, guess, failures, signedIn, inputs, breaks,
                 past, blind>>

\* What becomes of the event of the form's transaction.
Settled(f, outcome) ==
  [i \in DOMAIN events |->
     IF events[i].by = f /\ events[i].state = "open" THEN [events[i] EXCEPT !.state = outcome]
     ELSE events[i]]

Commit(f) ==
  LET now == IF form[f].holds THEN [saved EXCEPT ![form[f].key] = form[f].value] ELSE saved IN
  /\ form[f].at = "commit"
  /\ saved' = now /\ past' = past \cup {now}
  /\ events' = Settled(f, "kept")
  /\ form' = [form EXCEPT ![f].at = "load", ![f].holds = FALSE]
  /\ UNCHANGED <<snapshot, ready, loads, guess, failures, signedIn, inputs, breaks, blind>>

\* Mutant: the event is written outside the transaction.
UndoneMutant(f) == Settled(f, "kept")

\* Of a transaction that fails no event remains.
Undone(f) == Settled(f, "undone")

RollBack(f) ==
  /\ form[f].at \in {"row", "event", "commit"} /\ Break
  /\ events' = Undone(f)
  /\ form' = [form EXCEPT ![f] = Idle]
  /\ UNCHANGED <<saved, snapshot, ready, loads, guess, failures, signedIn, inputs, past, blind>>

\* The form's own refresh; it answers when the load it began is in.
BeginRefresh(f) ==
  /\ form[f].at = "load" /\ form' = [form EXCEPT ![f] = Idle]
  /\ loads' = [loads EXCEPT ![Panel] = @ \cup {saved}]
  /\ UNCHANGED <<saved, events, snapshot, ready, guess, failures, signedIn, inputs, breaks,
                 past, blind>>
-------------------------------------------------------------------------------
(* The snapshots *)

\* The timer: at most one load of a server is slower than the interval.
Tick(s) ==
  /\ Cardinality(loads[s]) < 2
  /\ loads' = [loads EXCEPT ![s] = @ \cup {saved}]
  /\ UNCHANGED <<saved, events, form, snapshot, ready, guess, failures, signedIn, inputs,
                 breaks, past, blind>>

Loaded(s, m) ==
  /\ m \in loads[s] /\ loads' = [loads EXCEPT ![s] = @ \ {m}]
  /\ snapshot' = [snapshot EXCEPT ![s] = m] /\ ready' = [ready EXCEPT ![s] = TRUE]
  /\ UNCHANGED <<saved, events, form, guess, failures, signedIn, inputs, breaks, past, blind>>

\* Mutant: a load that fails leaves nothing.
LastGoodMutant(s) == [k \in Key |-> NoValue]

\* "The last good snapshot is kept."
LastGood(s) == snapshot[s]

LoadFails(s, m) ==
  /\ m \in loads[s] /\ loads' = [loads EXCEPT ![s] = @ \ {m}] /\ Break
  /\ snapshot' = [snapshot EXCEPT ![s] = LastGood(s)]
  /\ UNCHANGED <<saved, events, form, ready, guess, failures, signedIn, inputs, past, blind>>

\* resolveSetting.
Resolved(m, k) ==
  IF m[k] # NoValue THEN m[k]
  ELSE IF Env[k] \notin {NoValue, "invalid"} THEN Env[k] ELSE Default[k]

\* The panel's server has loaded before it listens; the other asks before it builds a
\* client from the keys as they are.
MayAct(s) == ready[s]

Restart(s) ==
  /\ ready[s] /\ Break
  /\ s = Panel => \A f \in Form : form[f] = Idle
  /\ ready' = [ready EXCEPT ![s] = FALSE] /\ loads' = [loads EXCEPT ![s] = {}]
  /\ snapshot' = [snapshot EXCEPT ![s] = [k \in Key |-> NoValue]]
  /\ UNCHANGED <<saved, events, form, guess, failures, signedIn, inputs, past, blind>>

SignIn ==
  \/ \E g \in Guess : TryPassword(g) \/ Wrong(g) \/ Right(g)
  \/ WindowOver \/ SessionOver

Settings ==
  \/ \E f \in Form :
       \/ \E k \in Key : \E v \in Entered[k] \cup {NoValue} : Submit(f, k, v)
       \/ WriteRow(f) \/ WriteEvent(f) \/ Commit(f) \/ RollBack(f) \/ BeginRefresh(f)
  \/ \E s \in Server :
       \/ Tick(s) \/ Restart(s)
       \/ \E m \in loads[s] : Loaded(s, m) \/ LoadFails(s, m)

Next == SignIn \/ Settings

\* The timer goes on and loads end; nothing is asked of the forms.
Fairness ==
  \A s \in Server : WF_vars(Tick(s) \/ \E m \in loads[s] : Loaded(s, m))
-------------------------------------------------------------------------------
(* Properties *)

\* The events tell of every key what was last done to it; they can be wrong about one
\* that was reset while its first save was under way.
TrailTells ==
  \A k \in Key \ blind :
    LET of == {i \in DOMAIN events : events[i].state = "kept" /\ events[i].key = k} IN
    \A i \in of : (\A j \in of : j <= i) => events[i].value = Told(k, saved[k])

\* "Never a silent env fallback": whatever a server acts by, all keys together, is what
\* the settings amounted to at one moment.
OneMoment ==
  \A s \in Server : MayAct(s) =>
    \E m \in past : \A k \in Key : Resolved(snapshot[s], k) = Resolved(m, k)

\* Guesses that overlap can pass the lock, no more than there are at once.
GuessesBounded == failures <= MaxFailures - 1 + Cardinality(Guess)

\* "Within seconds": when the operator is done every server ends up with what is saved,
\* though an older load may finish after a newer one.
ServersCatchUp == <>[](\A s \in Server : ready[s] /\ snapshot[s] = saved)
===============================================================================
