---------------------------- MODULE DailyReminders ----------------------------
(***************************************************************************)
(* The daily tick: the VAT reminder, the TDS reminder and the calendar     *)
(* digest, each sent once for its Nepali month.  The model stays inside    *)
(* one month: every month has rows of its own in reminder_log.             *)
(*                                                                         *)
(* A pass works its tenants off one by one.  For each it asks the ledger   *)
(* for the figures, adds them up again from the tables, claims the row of  *)
(* reminder_log, and sends; a failed send gives the row back.  The steps   *)
(* are separate calls: the books may change, another tick may run and the  *)
(* process may die between any two of them.                                *)
(*                                                                         *)
(* The queue starts a tick daily, again when a VAT reminder erred, and     *)
(* when somebody asks: the model starts one whenever a worker is free.     *)
(* The dunning pass that ends a tick is in SubscriptionBilling.            *)
(***************************************************************************)
EXTENDS Integers, FiniteSets

CONSTANTS
  Tenant,         \* active tenants with a WhatsApp number
  VatRegistered,
  Worker,         \* scheduler processes
  Books,          \* what a tenant's month may add up to
  MaxUnanswered   \* bound: deliveries of a reminder whose answer is lost

VARIABLES
  books,      \* each tenant's month in the ledger
  log,        \* rows of reminder_log
  got,        \* what reached the tenant's WhatsApp, by kind
  tick,       \* where each worker's tick stands
  missed      \* history: tenants whose VAT row was left behind with nothing sent

vars == <<books, log, got, tick, missed>>

VatKind == {"return_prepared", "vat_due_soon"}
Kind == VatKind \cup {"tds_due_soon", "deadline_digest"}
Verdict == {"PASS", "FAIL", "BLOCKED"}
Figure == {{}} \cup {{b.net} : b \in Books} \cup {{b.tds} : b \in Books}   \* {}: none
Row == [tenant: Tenant, kind: Kind, verdict: Verdict, figure: Figure]
Got == [copies: 0..1 + MaxUnanswered, unanswered: 0..MaxUnanswered, figure: Figure]

Pass == {"vat", "tds", "digest"}
Step == {"idle", "select", "next", "verify", "claim", "send", "release"}
Tick == [step: Step, pass: Pass, todo: SUBSET Tenant, row: SUBSET Row]
Idle == [step |-> "idle", pass |-> "vat", todo |-> {}, row |-> {}]

TypeOK ==
  /\ books \in [Tenant -> Books]
  /\ log \subseteq Row
  /\ got \in [Tenant \X Kind -> Got]
  /\ tick \in [Worker -> Tick]
  /\ missed \subseteq Tenant

Init ==
  /\ books \in [Tenant -> Books]
  /\ log = {}
  /\ got = [x \in Tenant \X Kind |-> [copies |-> 0, unanswered |-> 0, figure |-> {}]]
  /\ tick = [w \in Worker |-> Idle]
  /\ missed = {}
-------------------------------------------------------------------------------
At(w, step) == tick[w].step = step

Start(w) ==
  /\ At(w, "idle")
  /\ tick' = [tick EXCEPT ![w].step = "select"]
  /\ UNCHANGED <<books, log, got, missed>>

\* The VAT pass skips tenants that are not registered.
Select(w) ==
  /\ At(w, "select")
  /\ tick' = [tick EXCEPT ![w].step = "next",
                          ![w].todo = IF tick[w].pass = "vat" THEN VatRegistered ELSE Tenant]
  /\ UNCHANGED <<books, log, got, missed>>

After(pass) == IF pass = "vat" THEN "tds" ELSE "digest"

\* The passes follow each other.  A pass that throws is caught, except the first,
\* whose error ends the tick (Dies).
EndPass(w) ==
  /\ \/ At(w, "next") /\ tick[w].todo = {}
     \/ At(w, "select") /\ tick[w].pass # "vat"
  /\ tick' = [tick EXCEPT ![w] =
       IF tick[w].pass = "digest" THEN Idle
         ELSE [Idle EXCEPT !.step = "select", !.pass = After(tick[w].pass)]]
  /\ UNCHANGED <<books, log, got, missed>>

\* An outcome is recorded for the tenant, never thrown.
OnToNext(w, t) ==
  tick' = [tick EXCEPT ![w].step = "next", ![w].todo = @ \ {t}, ![w].row = {}]

Hold(w, step, row) == tick' = [tick EXCEPT ![w].step = step, ![w].row = {row}]

\* The ledger's summary of the month; the digest reads the due dates instead.
Prepared(pass, b) ==
  CASE pass = "vat" -> {b.net} [] pass = "tds" -> {b.tds} [] pass = "digest" -> {}

KindOf(pass, verdict) ==
  CASE pass = "vat"    -> IF verdict = "PASS" THEN "return_prepared" ELSE "vat_due_soon"
    [] pass = "tds"    -> "tds_due_soon"
    [] pass = "digest" -> "deadline_digest"

\* No tax withheld, nothing upcoming: the tenant is skipped.
NothingToSay(pass, b) == (pass = "tds" /\ b.tds = 0) \/ (pass = "digest" /\ ~b.upcoming)

Prepare(w, t) ==
  LET pass == tick[w].pass  b == books[t] IN
  /\ At(w, "next") /\ t \in tick[w].todo
  /\ IF NothingToSay(pass, b)
       THEN OnToNext(w, t)
       ELSE Hold(w, IF pass = "digest" THEN "claim" ELSE "verify",
                 [tenant |-> t, kind |-> KindOf(pass, "PASS"), verdict |-> "PASS",
                  figure |-> Prepared(pass, b)])
  /\ UNCHANGED <<books, log, got, missed>>

\* selfVerifyReturn, selfVerifyTds: the same totals once more, from the tables
Recomputed(pass, b, figure) ==
  IF figure = Prepared(pass, b) /\ ~(pass = "vat" /\ b.failing) THEN "PASS" ELSE "FAIL"

\* A verdict short of PASS holds the figure back.  BLOCKED: the query failed.
Verify(w) ==
  \E r \in tick[w].row :
    \E verdict \in {Recomputed(tick[w].pass, books[r.tenant], r.figure), "BLOCKED"} :
      /\ At(w, "verify")
      /\ Hold(w, "claim",
              [r EXCEPT !.verdict = verdict, !.kind = KindOf(tick[w].pass, verdict),
                        !.figure = IF verdict = "PASS" THEN r.figure ELSE {}])
      /\ UNCHANGED <<books, log, got, missed>>

\* Mutant: the unique key is not enforced.
TakenMutant(r) == r \in log

\* Mutant: one row for the tenant and month, whatever its kind.
TakenAnyKindMutant(r) == \E q \in log : q.tenant = r.tenant

\* UNIQUE (tenant_id, bs_year, bs_month, kind)
Taken(r) == \E q \in log : q.tenant = r.tenant /\ q.kind = r.kind

Claim(w) ==
  \E r \in tick[w].row :
    /\ At(w, "claim")
    /\ IF Taken(r)
         THEN OnToNext(w, r.tenant) /\ UNCHANGED log
         ELSE Hold(w, "send", r) /\ log' = log \cup {r}
    /\ UNCHANGED <<books, got, missed>>

Deliver(r, unanswered) ==
  got' = [got EXCEPT ![<<r.tenant, r.kind>>] =
            [copies |-> @.copies + 1, unanswered |-> @.unanswered + unanswered,
             figure |-> r.figure]]

Send(w) ==
  \E r \in tick[w].row :
    /\ At(w, "send")
    /\ Deliver(r, 0)
    /\ OnToNext(w, r.tenant)
    /\ UNCHANGED <<books, log, missed>>

\* withRetry: the answer to a delivery is lost, and the call is made again.
Retry(w) ==
  \E r \in tick[w].row :
    /\ At(w, "send")
    /\ got[<<r.tenant, r.kind>>].unanswered < MaxUnanswered
    /\ Deliver(r, 1)
    /\ UNCHANGED <<books, log, tick, missed>>

\* The send throws: Graph refused it, or took it and its answer was lost.
SendFails(w) ==
  \E r \in tick[w].row :
    /\ At(w, "send")
    /\ \/ UNCHANGED got
       \/ /\ got[<<r.tenant, r.kind>>].unanswered < MaxUnanswered
          /\ Deliver(r, 1)
    /\ Hold(w, "release", r)
    /\ UNCHANGED <<books, log, missed>>

\* Mutant: every row of the tenant goes, not the one this tick claimed.
GivenBackMutant(r) == {q \in log : q.tenant = r.tenant}

GivenBack(r) == {r}

\* DELETE FROM reminder_log by the id of the row claimed
Release(w) ==
  \E r \in tick[w].row :
    /\ At(w, "release")
    /\ log' = log \ GivenBack(r)
    /\ OnToNext(w, r.tenant)
    /\ UNCHANGED <<books, got, missed>>

\* The tick lets go of the row in hand: one it has claimed and neither sent nor given
\* back stays, and the unique key skips the tenant for the rest of the month.
LetGo(w) ==
  missed' = missed \cup
    {r.tenant : r \in IF tick[w].pass = "vat" /\ tick[w].step \in {"send", "release"}
                        THEN tick[w].row ELSE {}}

\* A call of this tenant's fails: the error is recorded, a claimed row stays.
TenantFails(w) ==
  /\ \/ /\ At(w, "next")
        /\ \E t \in tick[w].todo : OnToNext(w, t)
     \/ /\ tick[w].step \in {"claim", "release"}
        /\ \E r \in tick[w].row : OnToNext(w, r.tenant)
  /\ LetGo(w)
  /\ UNCHANGED <<books, log, got>>

\* The process is killed, or the VAT pass throws.
Dies(w) ==
  /\ ~At(w, "idle")
  /\ tick' = [tick EXCEPT ![w] = Idle]
  /\ LetGo(w)
  /\ UNCHANGED <<books, log, got>>

\* The owner confirms, undoes or corrects an entry of the month.
BooksChange(t) ==
  /\ \E b \in Books : books' = [books EXCEPT ![t] = b]
  /\ UNCHANGED <<log, got, tick, missed>>

Work(w) ==
  \/ Select(w) \/ EndPass(w) \/ (\E t \in Tenant : Prepare(w, t))
  \/ Verify(w) \/ Claim(w) \/ Send(w) \/ Release(w)

Next ==
  \/ \E w \in Worker : Start(w) \/ Work(w) \/ Retry(w) \/ SendFails(w) \/ TenantFails(w) \/ Dies(w)
  \/ \E t \in Tenant : BooksChange(t)

InVatPass(w, A) == tick[w].pass = "vat" /\ A

\* The tick comes every day and runs on; Graph, the ledger and the process do not
\* fail every time at the same step of the VAT pass.
WorkerFairness(w) ==
  /\ WF_vars(Start(w)) /\ WF_vars(Work(w))
  /\ \A t \in Tenant : SF_vars(InVatPass(w, Prepare(w, t)))
  /\ SF_vars(InVatPass(w, Verify(w))) /\ SF_vars(InVatPass(w, Claim(w)))
  /\ SF_vars(InVatPass(w, Select(w))) /\ SF_vars(InVatPass(w, Send(w)))

Fairness == \A w \in Worker : WorkerFairness(w)

Spec == Init /\ [][Next]_vars /\ Fairness
-------------------------------------------------------------------------------
(* Properties *)

\* "Exactly-once": a kind of reminder reaches a tenant twice in a month only if the
\* answer to an earlier delivery was lost, whatever ticks overlap, retry or die.  The
\* row is for the kind: a tenant reminded by "vat_due_soon" is reminded once more by
\* "return_prepared" when the figures agree later, which queue.ts:11-13 leaves out.
ReminderOnce ==
  \A x \in DOMAIN got : got[x].copies <= 1 + got[x].unanswered

\* A reminder that arrived is on record with the figure it stated, and states one
\* only when two computations agreed; a lost answer may have taken the record away.
SaidAsLogged ==
  \A t \in Tenant, k \in Kind :
    LET g == got[<<t, k>>] IN
    (g.copies > 0 /\ g.unanswered = 0) =>
      \E r \in log :
        /\ r.tenant = t /\ r.kind = k /\ r.figure = g.figure
        /\ k # "deadline_digest" => (r.figure # {} <=> r.verdict = "PASS")

\* "A node that was down recovers the next day instead of skipping the whole month":
\* a VAT reminder reaches every registered tenant in the end, unless a tick died, or
\* failed to give the row back, between the claim and the send: then the row stands
\* for a reminder nobody got, and the month is skipped after all.
RegisteredReminded ==
  \A t \in VatRegistered :
    <>[]((\E k \in VatKind : got[<<t, k>>].copies > 0) \/ t \in missed)
===============================================================================
