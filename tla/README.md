# HisabKitab in TLA+

HisabKitab keeps the books of small Nepali businesses over WhatsApp. A member of the
business sends a message or a photo of a bill; an agent drafts ledger entries through
MCP servers; an owner confirms them; money is collected through Khalti; reminders,
reports and a Tally connector run in the background; a lab rehearses agents against
recorded scenarios. Durable state is in PostgreSQL, transactions run at READ COMMITTED,
and several processes (orchestrator, MCP servers, connectors, lab workers) work on the
same rows.

The modules here model the places where those processes meet: what is read before a
call to the outside and used after it, what is claimed before it is done, what a crash
leaves half done; and the rules that decide what is stored, said, listed and let through.
TLC checks them on small instances. For the parts named in section 4 the invariants are
also proved, with TLAPS, for every value of the constants.

Paths below are relative to `src/`.

## 1. Inventory

| Component | Source | State | What makes it hard | What makes it correct | Module |
|---|---|---|---|---|---|
| Collections | `packages/mcp-payments/src/tools.ts`, `http.ts` | `payments`, `sales`, audit log, Khalti's record | row read, gateway asked, row written in three places; redirect and owner settle together; refund at the gateway before the row | every gateway sale is backed by collected money, the latch points at the payment's own sale | CollectionSettlement |
| Subscriptions, dunning | `packages/mcp-payments/src/billing.ts`, `shared/src/billing`, `orchestrator/src/scheduler/dunning-job.ts` | `subscriptions`, `billing_payments`, `outbound_notifications` | renewal computed from an unlocked read; snapshot, send, latch | a period is extended only for collected money; a nudge follows the calendar | SubscriptionBilling |
| Tally bridge | `packages/mcp-tally/src`, `packages/tally-connector/src` | `tally_connectors`, `tally_jobs`, `tally_companies` | the deadline races the answer; restarted and copied connectors | a figure comes from the job's own connector, a call ends | TallyJobs, TallyAnswers |
| Lab worker | `agents-learning/src/runner` | `rehearsal.episodes`, `events`, `runs` | leases that run out under a slow worker, `kill -9` | no batch lost or repeated, every episode ends | LabWorker, LabEpisodes |
| Lab conversations | `agents-learning/src/env`, `agents`, `scenarios`, `judge` | an episode's world | lost replies, any policy, a simulated owner with a script | the rules pass, what is told as saved is saved | RehearsalEpisode |
| Release gate | `agents-learning/src/store`, `experiment`, `shared/src/rehearsal`, `orchestrator/src/admin/lab.ts` | runs, decisions | four queries beside working workers, partial reports | an approval stays true of the runs | ReleaseReview |
| Receivables, payables | `packages/mcp-ledger/src/arap-tools.ts`, `idempotency-store.ts` | `ar_invoices`, `ap_bills`, `party_payments`, `idempotency_keys` | plans age; keys replay while the first call still writes | balances equal totals less confirmed payments | PartyPayments |
| Drafts, approval, VAT return | `packages/mcp-ledger/src/tools.ts`, `owner-approval.ts` | `sales`, `expenses`, `owner_approvals`, `vat_returns` | a yes is tied to drafts by time only | one live version of an entry, nothing rides on an older yes | DraftLedger |
| Bill entry | `packages/mcp-ledger/src`, `shared/src/vat`, `money`, `tds`, `validation` | the stored row | printed figures, two calls with one bill | figures add up, what looks wrong has a warning on record | BillEntry |
| Numbers, notes, audit chain | `packages/mcp-ledger/src/accounting-tools.ts`, `db/src/audit-chain.ts` | `invoice_sequences`, notes, `audit_log` | two locks per call, rollbacks | numbers without gaps or repeats, one chain | TaxDocuments |
| Nepali calendar | `shared/src/bsdate`, `calendar`, `aging` | none | the last month of a year, the first of a fiscal year | due dates, lists and ages agree with their definitions | ComplianceCalendar |
| Reports | `orchestrator/src/reports` | a job after the turn | three queries of one statement | the PDF shows the books of one moment, one answer per request | ReportDelivery |
| Inbound router, turns | `orchestrator/src/whatsapp/router.ts`, `session/` | `wa_events`, `SerialQueues`, the session's stream | redelivery, failures half-way, two members in one session | a message is not processed again after an answer that Meta acknowledged, no message blocks the line | InboundTurns |
| Audit gate | `orchestrator/src/audit/gate.ts` | evidence of a turn | tool results and held messages in any order, results quoted twice | every figure told has a source in the turn | FigureGate |
| Session tokens | `orchestrator/src/vault`, `mcp-ledger/src/auth.ts` | vaults, credentials | two members' turns share one vault | alone with the agent nobody acts with another's rights | TurnBearers |
| Usage and budget | `db/src/usage.ts`, `orchestrator/src/resilience` | `usage_counters`, a bucket | read before the turn, charged after it | the overshoot is bounded, one note a month | UsageBudget |
| Daily tick | `orchestrator/src/scheduler` | `reminder_log` | claim, then send; two ticks at once | one of a kind per period but for a lost answer; none missed but by a tick that dies between claim and send | DailyReminders |
| Outbox, WhatsApp client | `orchestrator/src/notify`, `whatsapp` | `outbound_notifications`, template categories | twenty sends in one transaction | nothing queued is lost, MARKETING stays refused | NotificationOutbox, TemplateGuard |
| Signup, codes | `orchestrator/src/signup`, `onboarding` | tenants, codes, deliveries | late delivery reports, replicas that retry, resubmissions and clicks beside them | nothing under review is opened; a row is sent again by one retrier, once | SignupPairing, OnboardingDelivery |
| Teams | `orchestrator/src/identity`, `admin/team.ts` | users, memberships | seats counted, then taken; two-step acceptance | seats within the plan, one owner, one business per number | TeamAccess |
| Operator's desk | `db/src/settings.ts`, `orchestrator/src/admin` | `admin_settings`, snapshots, sessions | loads overlap and fail | a process acts by the settings of one moment | AdminDesk |
| Data deletion | `orchestrator/src/security/data-deletion.ts` | every table, sessions | stops half-way, beside turns and other deletions | nothing is left, and it can be done again | TenantPurge |

Two kinds of thing tie components together. Shared rows: dunning and settlement write the
same subscription, both queue into the outbox the drain empties; the router records the yes
that `confirm_entry` asks for; refunds leave the sale the VAT return counts; pairing makes
the first membership. And the turn: the router's gates (team, budget) stand in front of it,
the session's tokens decide the rights of its tools, its stream is audited, its report
requests are carried out after it.

`PROJECT.json` lists these parts with what is left out of each, and the parts without a
module: learning (numerical), schema and roles as such, observability, the landing site,
infrastructure.

## 2. Modules

State is named after tables and fields; an action is a statement, a transaction or a
call to the outside, whichever is the smallest piece others can see. Operators named
`...Mutant` are wrong versions of the definition after them; the model does not use them,
each shows that a property notices that change.

### Money and drafts

`CollectionSettlement`: `settlePayment` and its callers. A request is a small program with a
place `pc[t]` and what it holds, `req[t]`: the row it read and what the gateway answered.
It reads the row (`ReadForSettlement`), asks (`LookupPayment`), and settles: a wrong total
flags the row, an uncollected payment closes it, a collected one records the sale, the trail
entry, the row and its latch in one transaction (`RecordSale`). `AlreadyLinked` is the early
return on the row *as read*. `RefundAtGateway` and `RecordRefund` are the two halves of
`refund_payment`. `Fail` drops a request between any two of its steps, which is what a
crash, a lost connection and a rolled-back transaction leave. `gateway` moves by itself.

`SubscriptionBilling`: trial, checkout, settlement and cancellation as requests of the same
shape; the calendar as days; the dunning pass as select, reconcile, send, latch, working on
the row its one SELECT returned.

`PaymentsMC` holds the two side by side; they share no row, so a behaviour follows one:
`part` is "collection", "overlap" (several billing requests) or "cycle" (one request of
`OneRequest` at a time, and the dunning pass). One instance, `Billing`, serves the last two.

`DraftLedger`: messages of members start turns; a yes of a `Confirmer` becomes a row in
`approvals` before its turn begins. In a turn a tool call is a transaction that begins and
commits at two moments. A `Recorder` may save and correct entries, a `Reporter` may prepare the
return. A clock numbers the transactions, because the code compares `created_at` of a draft
with that of the yes, both `now()`. A timeout cuts a turn off while its call goes on.

`LedgerMC` EXTENDS `PaymentsMC` and `DraftLedger`, which share no row either: `strand` is
"payments", "drafts" (the turns of those who record, without a return) or "returns" (everyone's
turns, with one transaction less).

### Books

`PartyPayments`: invoices and payments of one party. A payment is drafted with a plan
computed from the balances of that moment (`AutoPlan`), stored under an idempotency key, and
confirmed under row locks against the balances of a later moment. The same code serves money
in and money out.

`BillEntry`: from the figures the agent read to the stored row and the warnings beside it.
The VAT rule is checked against the figures a bill prints, with the tolerance of the code.

`TaxDocuments`: a call takes a number (waiting for the row of the fiscal year's series),
writes, takes the advisory lock of the audit log, appends, and commits or rolls back. A hash
is the sequence of everything said before: two rows share one only if all before them is the
same. `Verified` is the verification as code; `ChangesNoticed` compares it with rows altered,
removed or moved.

`ComplianceCalendar`: months and fiscal years of a short calendar; due dates, the list of
returns and deposits, ages of invoices, backdated entries.

`ReportDelivery`: a request in a turn, its dispatch after the reply, the queries, the
document or the refusal, the audit entry.

`TallyAnswers` is the promise of the Tally bridge: a question is open, then answered, failed
or expired, for good. `TallyJobs` is the queue: `Dispatch` and the poll of a tool call, the
connector's register, claim, post and restart, the setup codes of `tally_connect`, and
revocation. Its refinement to the promise is a property of the run.

`BooksMC` holds these six side by side, with sample bills, a sample ledger and a
calendar of short months.

### Conversation

`InboundTurns`: from Meta's delivery to the end of the turn. `claims` is `wa_events`; `line`
is one queue per sender; the head of a line is answered at once or put to the session, whose
stream every listening turn hears. `Hold` sends a corrective input, `Terminal` decides which
idle ends the turn. `Timeout`, `Fail`, `Crash` and `Terminate` may strike at any point; a send
that throws may have gone out (`GoneOut`), which the sender knows and the code does not. The
session is external: it takes its inputs in order, says up to `MaxSays` things to each, and
rests. `InboundTurnsMC` fixes who sent the first message, by symmetry.

`FigureGate` opens the audit inside one turn: a text is the set of figures found in it, a
number its digits and the power of ten they stand for, evidence what tools and the owner said
in the turn. A result is made into JSON twice on its way (`Stringified`): its numbers stand as
they were, the quotes around its verdict are escaped, and `VerdictFound` looks for bare ones. `UsageBudget` and `TurnBearers` are the gate before the turn and the tokens in it.

### What the system says by itself

`DailyReminders`: a pass works its tenants off one by one: figures from the ledger, the same
figures added up again, the claim of the row in `reminder_log`, the send, the row given back
if it fails. `missed` keeps the tenants whose row a tick left behind with nothing sent. `NotificationOutbox`: a drain sends a locked batch inside a transaction.
`TemplateGuard`: the category of each template as Meta last told it. `AdminDesk`: the
operator's sign-in and settings. `NoticesMC` holds these and `FigureGate`.

### Identity

`TeamAccess` is who may act for which business; `SignupPairing` EXTENDS it, because pairing
makes the first row of a team and both read the same tenants. `OnboardingDelivery` is how a
code reaches its number: retriers claim the rows that are due, while resubmissions of the website's
form and the operator's clicks (`Click` of them at once) send without a claim. `TenantPurge` is "delete my data". `IdentityMC` EXTENDS
`SignupPairing` and holds `OnboardingDelivery`, `TurnBearers`, `UsageBudget` and `TenantPurge`
beside it.

### Lab

`LabEpisodes` is an episode as one list of batches with one decision each and a final end.
`LabWorker` is the pool of workers: `Claim` bumps the lease token, `Commit` writes events and
checkpoint if the token is still its own (`Owns`), `ExpireLease` may happen at any moment,
`Restore` resumes from a checkpoint and refuses a damaged one, `GiveUp` quarantines; `Promise`
maps the tables to the list. `RehearsalEpisode` is one conversation: owner, sandbox, harness,
gate, judge, with the hand-written rules or any policy. `ReleaseReview` goes from runs to a
decision. `LabMC` EXTENDS `LabWorker` and holds the other two.

### Proofs

A module named `...Proofs` EXTENDS the module it is about, or the one that composes it for its
run, and holds its inductive invariant, lemmas and theorems (section 4).

## 3. Runs

| Run | Instance | What it shows |
|---|---|---|
| `ledger` | 1 payment, 2 requests, 3 sale ids, 2 amounts; days 0 to 4; 3 members (owner, clerk, auditor), 3 entries, 5 transactions, 4 where returns are prepared | collections with every interleaving of two requests; a subscription with two overlapping requests, and with one request beside the dunning pass; one live version, no draft confirmed on the yes of its own turn, settled entries stay, the return counts what is confirmed |
| `collection_overlap` | 1 payment, 2 requests | `AtMostOneSale` fails |
| `subscription_overlap` | 1 subscription payment, 2 requests | `ExtendedOnce` fails |
| `books` | 2 calls, 3 invoices, 2 payments, 2 keys; 3 rows of audit, 2 documents, 2 entries of 6 bills, 2 reports of 5 ledger rows, 2 connectors, 2 jobs | entries, balances, numbers, hashes, dates and reports stay in agreement; the Tally queue implements its promise and every question ends |
| `party_payments_twice` | 1 invoice, 1 payment, 2 calls | `AppliedOnce` fails |
| `inbound_turns` | 2 members, 2 messages, 2 deliveries | a message is taken up again only if all that was sent for it threw, every message in hand is done with, stray answers only after a cut, an overlap or a double hold |
| `inbound_tenant` | the same, one answer each | `OneTurnPerTenant` fails |
| `notices` | 1 tenant, 2 workers; 2 notices, 2 drains; 2 accounts, 2 calls; 2 settings, 2 forms; 2 digits, 3 messages | a kind of reminder arrives twice only by a lost answer, a notice only by a kill or a lost answer; a registered tenant is reminded unless a tick died between claim and send; what is queued is settled, MARKETING stays refused, figures have sources, settings arrive whole |
| `identity` | 3 numbers, 2 businesses, 5 inputs; 2 retriers, 2 clicks, 4 sends; 2 members, 3 turns; 2 purges | who may act for whom, what is sent how often, what a month may cost, what is left of a deleted business |
| `lab_worker` | 2 workers, 2 episodes, 3 batches; every scenario family; 2 runs, 2 scenarios | checkpoints tell the events, nothing is asked twice, the refinement, every episode ends; conversations pass under the rules; an approval stands |
| `lab_summary` | 1 worker, 1 episode | `LastEpisodeFinalises` fails |
| `lab_release` | 2 runs, 2 scenarios | `OneRule` fails |

The properties of a composed run are conjunctions named for the question they answer, each
guarded by the part a behaviour follows; the module that defines a conjunct says what it
states and which code it is about. Components are only put side by side in one run when they
share no state that one changes and another reads; those that do share it are one module or
extend one another.

**Bounds.** Two requests, calls, workers or drains are enough for every race in which one acts
on what another has changed; a third repeats the same pairs. Three sale ids leave room for the
second sale an overlap records and one more. Two amounts tell a matching total from a wrong
one. Four days hold a one-day trial, a two-day month and its grace day. Three invoices let a
payment clear one, part of a second and miss a third. Three entries are the least in which one
draft is corrected twice, five transactions the least in which two corrections, the draft, a
yes and a confirmation follow each other, four those of a draft, a yes, a confirmation and a
return. Two batches after the reset let a worker be
overtaken in the middle of an episode. Three audit rows have a first, a middle and a last. Five
years of two months have a fiscal year that begins inside a year. `MaxHolds` is 1 in
`inbound_turns` where the code has 2: the fallback is reached one hold earlier; `notices` has
the code's 2 in front of the gate itself. Three numbers are an owner, a member and a stranger;
five inputs are a form, an approval, a code, an invitation and a message. A budget of one turn
and a half is passed by the second. Two purges of businesses that share a member cross.

Most models may stop: requests, messages and calls come from outside and are bounded, so
those configurations switch the deadlock check off and say why. `lab_release` has its review
counted, and its workers end.

**Fairness.**
- `ledger`: where one request at a time is followed ("cycle"), weak fairness of its next
  step, because a request that does not proceed fails; strong fairness of reading a bill and of
  the steps of its settlement, because the gateway may fail one attempt but the owner or the
  redirect verifies again, and one of the attempts gets through. Nothing is assumed of the
  gateway.
- `books`: weak fairness of the tool call of the Tally bridge only, which is a timer in a
  living server. The connector and the owner owe nothing.
- `lab_worker`: weak fairness of each worker's step and claim and of leases running out,
  because workers are loops and leases are clock time. Kills and failures are bounded by
  `MaxToken` and are possible until then.
- `inbound_turns`: weak fairness of a turn's next step, because a living process runs its
  tasks, and the deadline in `runTurn` makes some next step possible at all times. Nothing
  is assumed of Meta, of the session or of the agent.
- `notices`: the steady worker ticks and works (weak), and each call of a tenant's VAT pass
  gets through if it is tried for ever (strong): the queue comes back daily. A drain that is
  alive works; the panel's timer ticks and its loads end.

## 4. Proofs

TLC checks the instances of section 3; TLAPS proves the theorems below for every value of
the constants. A theorem about a composed run (`PaymentsProofs`, `BooksProofs`, `LabProofs`,
`IdentityProofs`, `NoticesProofs`) is about the specification of the module that composes it.
`PaymentsProofs` is about `PaymentsMC` and `DraftLedgerProofs` about `DraftLedger`, whose steps
are the strands of `LedgerMC`: it adds a choice between them and takes no step of its own.
`SumTheorems` has what sums over finite sets do, for the modules that add up. Each inductive invariant was checked with TLC on the instance of its run before
it was proved.

| Module | Theorem | States | Assumes |
|---|---|---|---|
| `PaymentsProofs` | `TypeCorrect` | the type invariant | |
| | `SalesAreBacked` | every confirmed gateway sale is for money the gateway collected, in the amount initiated | |
| | `LatchIsSound` | a completed payment carries its own sale, and no latch dangles | |
| | `TrailIsComplete` | the audit trail names exactly the sales that exist | |
| | `RefundsAreReal` | a payment is marked refunded only after the gateway refunded it | |
| | `RequestsStayInSync` | what a request read and was told is still true of the row's identity and the money when it writes | |
| | `LatchWrittenOnce` | `sale_id` is written at most once | |
| | `ReplaysRecordNothing` | a linked payment never has more sales than there are concurrent requests | `Request` is finite |
| | `BillingTypes` | the type invariant of the subscription | |
| | `CreditIsBacked` | a period is extended for collected money only, with a receipt, and at most once per concurrent request | `Request` is finite |
| | `NoNudgeOrDayIsWrong` | where one request and one dunning pass at a time are followed, no nudge is early or repeated and no paid day is lost | `OneAtATime` |
| `DraftLedgerProofs` | `TypeCorrect` | the type invariant | |
| | `OneVersionLives` | of the versions of a bill at most one is live | |
| | `YesFollowsDraft` | an entry is confirmed on a yes younger than its draft, for the author's own yes younger than its commit | |
| | `SettledStaysAndCounts` | confirmed and superseded entries never change; a return counts what was confirmed when its preparation began and nothing unconfirmed | |
| `InboundTurnsProofs` | `TypeCorrect` | the type invariant; the hold counter never passes `MaxHolds` | |
| | `AnsweredKeepsItsClaim` | what is in hand is claimed and in one line, once; a message with an answer that was acknowledged keeps its claim | |
| | `AnsweredOnce` | a message the sender has had an answer to is taken up again only if all that was sent for it threw although it had gone out | |
| | `StrayNeedsACut` | an answer is heard in another message's turn only after a cut, an overlap or a double hold | |
| `LabProofs` | `ProgressSurvives`, `RecordsAlwaysStand` | an undamaged checkpoint carries on where the events end; a run summed up has no episode that may still change; an approval stands on a finished, comparable run that blocks nothing | |
| | `AsksOnce` | a decision that is in the checkpoint is never asked for again | |
| | `WorkersKeepThePromise`, `EpisodesArePlayedOnce` | the pool of workers implements `LabEpisodes` | |
| `BooksProofs` | `FiguresFromTheLiveLink` | a figure is told from the job's own connector, no job is in two hands, a device token outlives its setup code | |
| | `BridgeKeepsThePromise` | the queue implements `TallyAnswers` | |
| | `PaymentsAreAsAsked` | one payment row per key, and its plan clears the oldest open invoices first | |
| | `BooksAlwaysAgree` | balances are what confirmed payments left, statements, ageing and PDF reports add up to them, and the year's VAT roll-up loses no credit | |
| | `EntriesAreAsShown` | a stored entry adds up to its bill; odd VAT and visible doubles carry a warning; a name has one party but for `upsert_party` and overlaps | |
| | `FilingsAreRight` | a return is listed, once and on its day, from the first day of its month; the earliest deadline heads the list; an unflagged entry is in time; invoices age by the limits | |
| | `PaperTrailIsComplete` | a year's numbers are 1 to n, each on one document; the audit log is one chain and shows every change but a cut at its end; a PDF request has one answer, on record | |
| `IdentityProofs` | `IdentityTyped` | the type invariants of the five parts | |
| | `AccessIsSound` | a business keeps exactly its owner, no more people are at work than its plan has seats, a number acts for one business unless another was suspended meanwhile; alone with the agent a member acts with the own role | `Number` is finite |
| | `OnboardingAlwaysSound` | an application is not opened before somebody approved it; a row is sent again by one retrier, once; retriers that do not overlap and had claimed nothing before the account broke have one probe out | `Customer` is finite |
| | `SpendingAndDeletionSound` | counters and losses add up to what turns cost, the overshoot is bounded, one note a month; of a deleted business nothing is left | |
| `NoticesProofs` | `NoticesTyped` | the type invariants of the five parts | |
| | `EverythingSaidIsLogged` | a reminder is sent once but for a lost answer and says what its row says; a notice arrives twice only by a kill or a lost answer; guesses are bounded; the trail tells what is saved; figures have sources | `Worker` is finite |
| | `RefusedAlways` | MARKETING once seen stays refused through an outage | |

Apart from the column on the right the proofs use the named assumptions of the modules and
nothing else: bounds are natural numbers, `NoSale` and `NoMessage` are no sale and no
message, there are amounts and episodes, recorders and reporters are members, a confirmer is
both.

**Settlement.** None of the invariants of `CollectionSettlement` is inductive alone. That a
recorded sale is backed depends on what the request was told *earlier*: the gateway's answer
may be old, but money once collected stays collected or is refunded, and the amount of a
payment never changes. `IInv` is the type invariant with `RowsIssued` (a row exists only for a
payment the gateway issued), `RequestsInSync` (the row a request holds differs from the stored
one only in what may have moved on, and its answer is one the gateway could still give or has
outgrown), `SaleBacked`, `LatchPointsAtOwnSale`, `TrailMatchesSales`, `NoOpenRowWithSale` (a
payment with a latch is not open, which makes the second settlement of a linked row harmless)
and `RefundedAtGateway`. `ReplaysRecordNothing` needs a count: the sales of a linked payment,
with the requests that still hold its unlinked row, are never more than the requests
(`OverlapBound`); a settlement moves one request from the second number to the first.

**Subscription.** `BillingInv` joins the types with what a request and a dunning pass hold
against the stored rows (`MoneySound`, `NudgesSound`). The bound on extensions is again a count
(`ExtensionsBound`). `CycleInv` is what holds when nothing overlaps: the row a pass works on is
the stored one in what it latches, and the request's prior period end is the current one.
Both fail with two requests, which is why `OneAtATime` is assumed: the run checks the same
statement on the part with one request, and the observations of section 5 show it false of two.

**Drafts.** `IInv` is the type invariant with `LocksHeld` (the draft a call is to replace stays
a draft until the call commits, and no other call is to replace it), `Lineage` (what is replaced
is superseded, by one entry, and what is superseded is replaced), `SavedAhead` (nothing was saved
or approved after now, and while a call of a living turn writes, its member has said no younger
yes) and `CountSound` (the sales a preparation has added up are confirmed, and with the confirmed
expenses make up all that was confirmed when it began).

**Conversation.** `AnsweredOnce` says nothing of claims, but rests on them: a message in a
line is claimed, so a redelivery does not put it there twice (`LinesSound`), and a claim is
only released by a turn in which no send returned: what was acknowledged stays claimed
(`SpokenIsClaimed`). An answer that went out in a call that threw is the case left over. `StrayNeedsACut` follows the
session instead: as long as nothing was cut, what the stream carries belongs to the one turn
that listens (`Orderly`).

**Lab.** `WorkerInv` says that whoever owns an episode holds the checkpoint and the events of
one moment, that tokens only grow, and that a run is summed up only when its episodes are
final. The refinement maps the tables to a list of batches; every step of a worker that lost
its lease maps to a stutter, because the fence makes it change nothing.

**Tally.** `TallyInv` ties a job to the connector that claimed it, the hand that holds it to
the installation that polled, and a token to the code it came from. An answer is written under
the row's guard, so a late report maps to a stutter of the promise.

**Payments and reports.** `PartyInv` joins the types with what a call holds: its key is claimed
in its name (`KeysSound`), its plan gives out the payment's amount to confirmed invoices and,
without instructions, fills them in order (`PlansSound`), two calls that apply one payment began
together (`ApplySound`). `BalanceSound` is the heart: the balance of an invoice is its total
less the payments taken off it, each as often as it was applied. It mentions no call, yet is
kept only because a confirmation writes all its balances under the row locks. `ReportInv` says
that a statement's queries see growing sets of confirmed rows, so that what is found is the
ledger of one moment unless something was confirmed in between.

Balances are sums, plans and roll-ups are computed by recursion, and induction over data is not
open to the prover. `SumTheorems` and `BooksProofs` get it from the library's theorem that
strict inclusion is well-founded on finite sets: a claim that fails of some subset fails of a
minimal one (`MinimalSubset`). With it the recursion behind the folds of the library is shown
to have a solution (`AddsExists`, `RollsExists`), and sums to behave as sums do.

**Entries, numbers and the audit log.** `EntryInv`: what a call saw of entries and parties is
still there when it saves, with the figures it was shown, so a warning it gave holds and one it
did not give was not due. The figures are those of the bills and rates of `BooksMC`, for any
number of entries, calls and days. `TaxInv`: whoever holds the lock of the log carries the hash
of the last row and the highest id (`ChainSound`); hashes grow with each row, so none can stand
in for another and a row moved or repeated shows. One call at a time takes a number of a year,
and the documents of a year and 1 to n correspond one to one (`NumbersSound`). `MailInv`: a job
answers a request once, and refuses only after it has logged the refusal.

**Calendar.** The lengths of months, the years, the filing day, the horizon and the limits of
the ageing report are parameters; every month has its filing day. A month begins at the sum of
the lengths before it (`StartIsSum`), so a day has one month, and a return is due on the day the
code computes from the month after. The list of next deadlines is a sequence in order, which is
shown to exist.

**Reviews.** `ReviewInv`: what the release form has read of a run that was settled when it was
read is still so when the decision is written, since the row of a settled run changes no more
(`SettledStays`); a gate that passes has read two settled runs.

**Identity.** Of `AccessSound` nothing is inductive alone. `AccessInv` adds what a row is
(`RowSound`: it stands in the order of creation exactly while it lives, a row with the owner's
role is the owner's, and the owner's row is active and never ends), what a message has looked up
and not yet used (`MessageSound`) and what a form, a review and the operator's desk know of a
business (`SignupSound`). That nothing under review is opened rests on the last: an applicant's
business has a code only after its approval (`ReviewSound`). `BearersInv` follows the tokens: as
long as there is one vault, a turn that is alone has put its own tokens into it as far as the
rotation has come (`OwnTokens`). `DeliveryInv`: a row in a
retrier's hand, or sent again from one, is superseded, so it is in one hand and nobody takes it
up again (`RowsTaken`), whatever the website and the operator send beside; and a retrier alone
that probes found no probe out (`ProbeAlone`). `BudgetInv` keeps the equation of
what was spent with what is counted, lost or still in a turn's hands, by the theorems on sums,
and leaves room for the turns past the gate. `DeletionInv`: what a purge nobody crosses has
deleted so far is all there was of it (`PurgeSees`), a person it deletes is with no other business
(`PersonsFree`), and a live session of a business is the registered one or one a turn is about to
register (`SessionsKnown`). Budgets, plans and tables are those `IdentityMC` has; numbers,
businesses, members, messages, retriers and turns are any.

**Notices.** `RemindersInv`: a row a worker has claimed is in the log and claimed by nobody else
(`ClaimsSound`), and a reminder more than the answers lost has a row that nobody holds, so it
cannot be given back (`Arrived`). `OutboxInv`: a locked row is pending and locked once, and a
notice that went out more often than kills lost it is marked as sent, in its row or in the copy
of the drain that holds it (`NoticeSound`). `FormsInv`: the event of a form that holds its row
comes after all kept events of the key, because the lock lasts until the commit (`HeldLast`).
`SignInInv`: failures and guesses under way together are never more than the guesses that can
overlap. `GateInv`: whatever the validators may accept was said by a tool or the owner, up to the
factor of a hundred between rupees and paisa (`Traced`).

**Only model-checked.** Liveness, which needs ENABLED (`PaidIsCredited`, `EpisodesEnd`,
`EveryCallEnds`, `EveryTurnEnds`, `SettlesInTheEnd`).
Of the books, the type invariant of the six parts together. Of the Lab, `RehearsalSound`,
which holds of the scripts and the numbers of steps the Lab has and not of any others, and the
type invariant.

## 5. What the models showed

Runs that end in a violation state something the repository says, and the trace is a
behaviour of the code:

1. `collection_overlap`: a payment settled by the redirect and by `verify_payment` at
   once is recorded as two sales. Both read the row before either links a sale to it; the
   update of the row is guarded by its status, the insert of the sale is not, so the
   second sale stays in the books without a payment that points at it.
2. `subscription_overlap`: two overlapping settlements of one subscription payment extend the
   period twice. Whether the payment was credited is read before the gateway is asked, and the
   period is written whether or not the guarded update of the payment matched a row
   (`billing.ts:6-8`, `mcp-payments/src/tools.ts:526`: exactly once).
3. `party_payments_twice`: `confirmPayment` reads the payment without a lock; two
   overlapping calls take it off the balances twice if they suffice.
4. `lab_summary`: `finalizeRunIfDone` is called after a completion only. A run whose last
   episode is quarantined stays `queued` without a summary.
5. `inbound_tenant`: the queue key is the sender, so the messages of two members of one
   business are not serialized.
6. `lab_release`: a report the budget cut short is BLOCKED on the command line; saved, it
   is a completed run like any other, and the panel says PASS.

Further observations: behaviours the models have and no run of its own shows. Where a text of
the repository says otherwise, it is named.

*Money.*
- Two payments settled at once may buy the same month, since the renewal is computed from an
  unlocked read.
- A dunning pass that selected the row before a cancellation writes its own status over
  it. With a second pass running, both send a nudge before either latches it
  (`scheduler/dunning-job.ts:15` says replicas never double-send).
- `hasAccess` is false for a cancelled subscription inside its paid period, which
  `mcp-payments/src/tools.ts:432` promises access for; it only feeds a field the agent
  reads. A payment whose owner cancels the subscription while the payer is paying is
  collected, and every verify of it throws.
- If the gateway completed a payment after reporting it "User canceled", each verify
  would extend the period again: the row never becomes completed.

*Books.*
- A preparation of the VAT return that read earlier may write later, and one made after
  the return is marked filed writes over the filed figures.
- A yes belongs to the business: it allows every draft begun before it to be confirmed,
  those of another member's turn that nobody was shown included. The classifier takes "Oh,
  you are right, I already sent that one. Skip it." for an explicit yes.
- Several notes against one invoice are not bounded together; an invoice confirmed on credit
  is compared with no existing entry and not checked for a future date.
- The search for duplicates in SQL folds case only, the engine also collapses spaces.
  `record_expense` never passes the TDS threshold; `checkVatMath` warns of the VAT of 0
  of an unregistered vendor.
- Verification of the audit chain does not notice that the last rows are missing
  (`hash-chain.ts:15` says any delete is caught).
- An overdue return disappears from the calendar when the next month begins.
- `as_of` changes only the ageing of a report. A statement read while a confirmation commits
  between its queries still passes its checks. A delivered report may have no audit entry,
  since the log is written after the send; an error outside the job leaves the owner without
  the promised PDF and unheard. Report jobs read the ledger with a token without a role, which
  counts as owner.

*Conversation.*
- A process killed after the claim of a message loses it: Meta has its 200 and a
  redelivery would be a duplicate. A reply that throws although Meta took it does not count as
  delivered (`router.ts:172-186`): the claim is released, and a redelivery is answered again
  ("dedupe (exactly-once)", `router.ts:3`; "A message that produced deliveries keeps its claim",
  `router.ts:169`). A turn that times out or whose session ends before an
  answer says nothing and keeps its claim.
- Two answers held before the first idle end the turn while a correction is pending
  (`awaitingRetry` is a flag); the correction's answer is heard in the next turn, as is the
  late answer of a turn whose interrupt failed.
- The failure reply says nothing was saved, while the agent's tools may have saved drafts.
- A number of a tool verifies figures a hundred times too large or too small, since paisa
  and rupees are both accepted. After the fallback each further held message sends the fallback
  again. Evidence is also
  taken from another member's overlapping turn. A preview cut at 500 units may end in half a
  character, which jsonb refuses.
- The gate never sees that a validation failed. A tool's result is text with JSON in it, which
  `session/client.ts:242` makes into JSON again; the quotes around `"overall":"fail"` are then
  escaped, and `gate.ts:103` looks for bare ones. A verified figure of a rejected bill is
  delivered, where `gate.ts:122-130` and `gate.test.ts:83-89` hold it; the test feeds a text encoded
  once. `SilentOnceRejected` in `FigureGate` states what is meant; TLC refutes it in five steps:
  a turn starts, a result fails, the agent tells its figure, it is logged, it is delivered.
- Calls of overlapping or abandoned turns run with the role that was rotated last. Two first
  turns that overlap make two vaults; a session that uses the first is never rotated again.
- Overlapping turns overshoot the budget together. The note at the warning line is lost when
  the session fails after the latch.

*Notices and identity.*
- A reminder row claimed before a kill, or not given back after a failed send, skips the month
  for its tenant ("recovers the next day instead of skipping the whole month",
  `scheduler/queue.ts:9-10`; "the whole point of exactly-once is "sent", not "attempted"",
  `reminder-job.ts:136-137`). The row is for the kind of reminder: a tenant told that the VAT is
  due hears again when the return is prepared ("every tenant already nudged this BS month ...
  sends nothing", `queue.ts:11-13`).
- Attempt 1 of a code goes out with every resubmission of the website's form and every resend by
  the operator; two clicks on Retry send the same attempt, since a request takes no claim. A
  retrier looks at the breaker before it claims, so a batch it holds when the account breaks goes
  out whole, and two retriers that look at once send two probes ("sends ONE probe at a time,
  never a burst into a broken account", `onboarding/delivery.ts:10-13`).
- A killed drain sends up to twenty
  notices again. A refresh of the template guard joins a request of the account before.
- Overlapping sign-ins pass the lock together. A reset of a key whose first save is not
  committed deletes nothing, and the event says it did.
- Two crossing purges of businesses that share a member both keep the person's row. A purge
  cut off after its commit leaves no proof, and the proof of a second try counts no rows. A
  session opened by a crossing turn survives at the provider. Parties, invoices, bills,
  payments, keys, series and notes are not among the tables purged, so a business that has one
  of them cannot be deleted ("every tenant-scoped row, in FK order", `data-deletion.ts:6`).

*Lab.*
- The model is asked again if a worker dies between its answer and the commit of the
  decision. The gate does not compare versions of environment and judge; a run made with a
  limit shares the hash of the whole set. The simulated owner takes the apology for a held
  message for a question.

## 6. Not modelled

- Texts: formatting, prompts, rendering, XML; a text that matters is the set of figures or
  facts its readers find in it. What counts as a yes, and what the agent says, are choices.
- Row-level security. Every module but the identity ones has one tenant; all keys are
  tenant-scoped.
- The conversion tables of the Nepali calendar, which are data of a library.
- Wall-clock time beyond days, months and the order of transactions: deadlines, leases,
  expiries and the freshness of a cache pass at any moment instead.
- Merging parties, importing old books, uploads and downloads of media, training of a policy,
  checks run by hand against a language model (`verify-bills.ts`), the landing site.

## 7. Plan

Done: money, books, conversation, what the system says by itself, identity and the lab are
modelled, and their invariants proved but for those named at the end of section 4. What would
come next, in this order:

1. What of `RehearsalEpisode` holds for every script: what is told as saved is saved.
2. Merging parties and the import of old books, which are not modelled.
