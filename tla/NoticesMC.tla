------------------------------- MODULE NoticesMC -------------------------------
(***************************************************************************)
(* What the system says by itself, and who decides what it says: the       *)
(* daily reminders, the outbox of notices and the guard in front of what   *)
(* is sent; the gate in front of what the agent says; and the operator's   *)
(* desk.  The components share no state, so a behaviour follows one of     *)
(* them, chosen at the start (part); the others stay in their first        *)
(* state.  The reminders are followed twice: with one worker that ticks    *)
(* for ever ("steady") and with two whose ticks are counted ("overlap").   *)
(* Of the operator's desk the sign-in and the settings are a part each.    *)
(***************************************************************************)
EXTENDS Integers, FiniteSets, TLC

CONSTANTS Tenant, Worker, Event, Drainer, Account, Template, Call,
          MaxInputs   \* bound: ticks begun and changes of the books while workers overlap

ASSUME InputAssumption == MaxInputs \in Nat
ASSUME WorkerAssumption == IsFiniteSet(Worker) /\ Worker # {}

VARIABLES part, inputs,
          books, log, got, tick, missed,
          rows, delivered, drain, lost, deaths,
          live, account, known, scope, fresh, waits, inflight, call,
          saved, events, form, snapshot, ready, loads, guess, failures, signedIn, asked,
          breaks, past, blind,
          evidence, turn, passed, heard, sources, rejected

reminderVars == <<books, log, got, tick, missed>>
outboxVars == <<rows, delivered, drain, lost, deaths>>
guardVars == <<live, account, known, scope, fresh, waits, inflight, call>>
deskVars == <<saved, events, form, snapshot, ready, loads, guess, failures, signedIn, asked,
              breaks, past, blind>>
gateVars == <<evidence, turn, passed, heard, sources, rejected>>
vars == <<part, inputs, reminderVars, outboxVars, guardVars, deskVars, gateVars>>

Month(net, tds, failing, upcoming) ==
  [net |-> net, tds |-> tds, failing |-> failing, upcoming |-> upcoming]

Reminders ==
  INSTANCE DailyReminders WITH VatRegistered <- Tenant, MaxUnanswered <- 1,
    Books <- {Month(0, 0, FALSE, FALSE), Month(1, 1, TRUE, TRUE)}
Outbox == INSTANCE NotificationOutbox WITH Batch <- 2, MaxAttempts <- 3, MaxLost <- 1, MaxDeaths <- 2
Guard == INSTANCE TemplateGuard

\* One setting has a valid value in the environment, the secret an invalid one.
Desk ==
  INSTANCE AdminDesk WITH
    Key <- {"origin", "secret"}, Value <- {"dev", "prod"}, NoValue <- "unset",
    Secret <- {"secret"}, CanSeal <- TRUE,
    Env <- [origin |-> "prod", secret |-> "invalid"],
    Default <- [origin |-> "dev", secret |-> "unset"],
    Saved0 <- {[origin |-> "dev", secret |-> "unset"]},
    Entered <- [origin |-> {"prod"}, secret |-> {"prod"}],
    Form <- Drainer, Guess <- Worker, Server <- {"panel"}, Panel <- "panel",
    MaxFailures <- 1, MaxInputs <- 2, MaxBreaks <- 1, inputs <- asked

Gate == INSTANCE FigureGate WITH Digits <- {"total", "vat"}, MaxHolds <- 2, MaxSaid <- 3

Init ==
  /\ part \in {"steady", "overlap", "outbox", "guard", "signin", "settings", "gate"}
  /\ inputs = 0
  /\ Reminders!Init /\ Outbox!Init /\ Guard!Init /\ Desk!Init /\ Gate!Init
  /\ signedIn <=> part = "settings"
  /\ part \notin {"steady", "overlap"} => \A t \in Tenant : books[t] = Month(0, 0, FALSE, FALSE)
  /\ part # "guard" => /\ account = CHOOSE a \in Account : TRUE
                       /\ live = [a \in Account |-> {}]
                       /\ call = [c \in Call |-> [state |-> "idle", template |-> CHOOSE t \in Template : TRUE]]

SteadyWorker == CHOOSE w \in Worker : TRUE

WorkerStep(w) ==
  Reminders!Work(w) \/ Reminders!Retry(w) \/ Reminders!SendFails(w) \/ Reminders!TenantFails(w) \/ Reminders!Dies(w)

\* No answer is lost here: for the row that is given back it makes no difference.
Steady ==
  /\ part = "steady"
  /\ \/ Reminders!Start(SteadyWorker) \/ WorkerStep(SteadyWorker)
     \/ \E t \in Tenant : Reminders!BooksChange(t)
  /\ \A x \in DOMAIN got : got'[x].unanswered = 0
  /\ UNCHANGED <<part, inputs, outboxVars, guardVars, deskVars, gateVars>>

Overlap ==
  /\ part = "overlap"
  /\ \/ /\ inputs < MaxInputs /\ inputs' = inputs + 1
        /\ \/ \E w \in Worker : Reminders!Start(w)
           \/ \E t \in Tenant : Reminders!BooksChange(t)
     \/ \E w \in Worker : WorkerStep(w) /\ UNCHANGED inputs
  /\ UNCHANGED <<part, outboxVars, guardVars, deskVars, gateVars>>

Drain ==
  /\ part = "outbox" /\ Outbox!Next
  /\ UNCHANGED <<part, inputs, reminderVars, guardVars, deskVars, gateVars>>

Send ==
  /\ part = "guard" /\ Guard!Next
  /\ UNCHANGED <<part, inputs, reminderVars, outboxVars, deskVars, gateVars>>

Administer ==
  /\ \/ part = "signin" /\ Desk!SignIn
     \/ part = "settings" /\ Desk!Settings
  /\ UNCHANGED <<part, inputs, reminderVars, outboxVars, guardVars, gateVars>>

Speak ==
  /\ part = "gate" /\ Gate!Next
  /\ UNCHANGED <<part, inputs, reminderVars, outboxVars, guardVars, deskVars>>

Next == Steady \/ Overlap \/ Drain \/ Send \/ Administer \/ Speak

InSteady(A) == part = "steady" /\ A /\ UNCHANGED <<part, inputs, outboxVars, guardVars, deskVars, gateVars>>
InOutbox(A) == part = "outbox" /\ A /\ UNCHANGED <<part, inputs, reminderVars, guardVars, deskVars, gateVars>>
InSettings(A) ==
  part = "settings" /\ A /\ UNCHANGED <<part, inputs, reminderVars, outboxVars, guardVars, gateVars>>

InVatPass(A) == InSteady(Reminders!InVatPass(SteadyWorker, A))

\* Each part is fair to itself: WorkerFairness of DailyReminders, Fairness of
\* NotificationOutbox and of AdminDesk.
Fairness ==
  /\ WF_vars(InSteady(Reminders!Start(SteadyWorker))) /\ WF_vars(InSteady(Reminders!Work(SteadyWorker)))
  /\ \A t \in Tenant : SF_vars(InVatPass(Reminders!Prepare(SteadyWorker, t)))
  /\ SF_vars(InVatPass(Reminders!Verify(SteadyWorker))) /\ SF_vars(InVatPass(Reminders!Claim(SteadyWorker)))
  /\ SF_vars(InVatPass(Reminders!Select(SteadyWorker))) /\ SF_vars(InVatPass(Reminders!Send(SteadyWorker)))
  /\ \A d \in Drainer : WF_vars(InOutbox(Outbox!Work(d)))
  /\ WF_vars(InSettings(Desk!Tick("panel") \/ \E m \in loads["panel"] : Desk!Loaded("panel", m)))

Spec == Init /\ [][Next]_vars /\ Fairness
-------------------------------------------------------------------------------
AllTypesOK ==
  /\ inputs \in 0..MaxInputs
  /\ CASE part \in {"steady", "overlap"}    -> Reminders!TypeOK
       [] part = "outbox"                   -> Outbox!TypeOK
       [] part = "guard"                    -> Guard!TypeOK
       [] part \in {"signin", "settings"}   -> Desk!TypeOK
       [] part = "gate"                     -> Gate!TypeOK

\* A reminder of a kind arrives twice in a month only if an answer was lost, one that
\* arrived is on record with the verified figure it stated, and a notice of the outbox
\* arrives twice only if a drain was cut or an answer lost; the operator's events tell
\* what was done, a process acts by what the settings were at one moment, and guesses at
\* the password are bounded; a figure the agent tells the owner has a source of the same
\* turn and its text is on record.
SaidAndLogged ==
  /\ part \in {"steady", "overlap"} => Reminders!ReminderOnce /\ Reminders!SaidAsLogged
  /\ part = "outbox" => Outbox!NoticeOnce
  /\ part \in {"signin", "settings"} => Desk!TrailTells /\ Desk!OneMoment /\ Desk!GuessesBounded
  /\ part = "gate" => Gate!FiguresTraced /\ Gate!PassedOnRecord

\* A steady daily tick reaches every registered tenant with a VAT reminder of the month,
\* unless a tick died, or failed to give the row back, between the claim and the send;
\* every notice queued is sent or parked as failed in the end; a change of the settings
\* reaches every process.
SettlesInTheEnd ==
  /\ part = "steady" => Reminders!RegisteredReminded
  /\ part = "outbox" => Outbox!NoticesSettle
  /\ part = "settings" => Desk!ServersCatchUp

\* A template seen as MARKETING stays refused until the account's next list.
RefusedThroughOutage == Guard!RefusedThroughOutage
===============================================================================
