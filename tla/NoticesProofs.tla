----------------------------- MODULE NoticesProofs ----------------------------
(***************************************************************************)
(* Theorems about what the system says by itself (NoticesMC): the daily    *)
(* reminders, the outbox of notices, the operator's desk, the gate in      *)
(* front of the agent and the guard in front of templates.  Each has an    *)
(* invariant of its own; its step lemmas follow in the order of its        *)
(* actions, and the last section puts the parts together.                  *)
(***************************************************************************)
EXTENDS NoticesMC, SequenceTheorems, FiniteSetTheorems, TLAPS
-------------------------------------------------------------------------------
(* The invariant of the reminders *)

\* A figure is stated when two computations agreed, and only then.
Stated(r) == r.kind # "deadline_digest" => (r.figure # {} <=> r.verdict = "PASS")

\* A worker has one row in hand at most.
InHand(q) ==
  /\ \A r, p \in q.row : r = p
  /\ \A r \in q.row : Stated(r) /\ (q.step = "verify" => r.figure # {})

\* It has claimed the row, and not sent the reminder yet.
Holds(q, r) == q.step \in {"send", "release"} /\ r \in q.row

SameRow(r, q) == r.tenant = q.tenant /\ r.kind = q.kind

LogSound == \A r \in log : Stated(r) /\ \A q \in log : SameRow(r, q) => r = q

\* The row a worker has claimed is in the log, and nobody else has claimed it.
ClaimsSound ==
  \A w \in Worker, r \in Reminders!Row : Holds(tick[w], r) =>
    r \in log /\ \A v \in Worker : Holds(tick[v], r) => v = w

\* A reminder more than the answers that were lost is on record, and nobody has its row.
Arrived(t, k) ==
  /\ got[<<t, k>>].copies <= 1 + got[<<t, k>>].unanswered
  /\ got[<<t, k>>].copies > got[<<t, k>>].unanswered =>
       \E r \in log :
         /\ r.tenant = t /\ r.kind = k /\ r.figure = got[<<t, k>>].figure
         /\ \A w \in Worker : ~Holds(tick[w], r)

RemindersInv ==
  /\ Reminders!TypeOK /\ (\A w \in Worker : InHand(tick[w])) /\ LogSound /\ ClaimsSound
  /\ \A t \in Tenant, k \in Reminders!Kind : Arrived(t, k)
-------------------------------------------------------------------------------
(* The invariant of the outbox *)

\* What a drain has written of a row it locked; a row it has not come to is as it was.
CopySound(c) ==
  /\ c \in Outbox!Copy
  /\ ~c.done => c.status = "pending"
  /\ c.status = "sent" <=> c.out
  /\ c.status = "pending" => c.attempts < 3
  /\ c.status # "absent"

\* Locked rows are pending, and locked once.
LocksSound ==
  /\ DOMAIN drain = Drainer
  /\ \A d \in Drainer, e \in Event : e \in DOMAIN drain[d] =>
       /\ CopySound(drain[d][e]) /\ rows[e].status = "pending"
       /\ \A c \in Drainer : e \in DOMAIN drain[c] => c = d

\* Has this notice gone out, as far as the system knows?
GoneOut(e) ==
  \/ rows[e].status = "sent"
  \/ \E d \in Drainer : e \in DOMAIN drain[d] /\ drain[d][e].out

NoticeSound(e) ==
  /\ delivered[e] <= 1 + lost[e]
  /\ delivered[e] > lost[e] => GoneOut(e)
  /\ GoneOut(e) => delivered[e] > 0
  /\ lost[e] <= 1 + deaths
  /\ rows[e].status \in {"absent", "pending"} => rows[e].attempts < 3

OutboxInv ==
  /\ Outbox!TypeOK /\ LocksSound /\ \A e \in Event : NoticeSound(e)
-------------------------------------------------------------------------------
(* The invariant of the operator's desk *)

Setting == {"origin", "secret"}
FormRow == [at: {"idle", "row", "event", "commit", "load"}, key: Setting,
            value: {"dev", "prod"} \cup {"unset"}, holds: BOOLEAN]

FormsTyped ==
  /\ saved \in Desk!Map /\ events \in Seq(Desk!EventRow)
  /\ form \in [Drainer -> FormRow] /\ blind \subseteq Setting

\* In its transaction, past the row.
Writes(q) == q.at \in {"event", "commit"}

\* Who holds a row has it for itself; who found nothing to reset leaves nothing.
HolderAlone(f) ==
  /\ form[f].holds => Writes(form[f])
  /\ Writes(form[f]) /\ form[f].key \notin blind =>
       IF form[f].holds
       THEN \A g \in Drainer : Writes(form[g]) /\ form[g].key = form[f].key => g = f
       ELSE form[f].value = "unset" /\ saved[form[f].key] = "unset"

Open(e) == e.state = "open"

\* An open event is the one of a form about to commit.
OpenEvent(i) ==
  Open(events[i]) =>
    /\ form[events[i].by].at = "commit" /\ events[i].key = form[events[i].by].key
    /\ events[i].value = Desk!Told(events[i].key, form[events[i].by].value)
    /\ \A j \in DOMAIN events : Open(events[j]) /\ events[j].by = events[i].by => j = i

HasEvent(f) ==
  form[f].at = "commit" => \E i \in DOMAIN events : Open(events[i]) /\ events[i].by = f

\* The event of a form that holds its row comes after all that are kept of the key.
HeldLast ==
  \A i, j \in DOMAIN events :
    /\ Open(events[i]) /\ form[events[i].by].holds /\ events[i].key \notin blind
    /\ events[j].state = "kept" /\ events[j].key = events[i].key
    => j < i

FormsInv ==
  /\ FormsTyped /\ (\A f \in Drainer : HolderAlone(f) /\ HasEvent(f))
  /\ (\A i \in DOMAIN events : OpenEvent(i)) /\ HeldLast /\ Desk!TrailTells

\* What a process works with has been in the table.
ServersInv ==
  /\ past \subseteq Desk!Map /\ saved \in past
  /\ snapshot \in [{"panel"} -> Desk!Map] /\ ready \in [{"panel"} -> BOOLEAN]
  /\ loads \in [{"panel"} -> SUBSET Desk!Map] /\ loads["panel"] \subseteq past
  /\ ready["panel"] => snapshot["panel"] \in past

Guessing == {g \in Worker : guess[g] = "verify"}

SignInInv ==
  /\ guess \in [Worker -> {"idle", "verify"}] /\ failures \in Nat /\ signedIn \in BOOLEAN
  /\ failures + Cardinality(Guessing) <= Cardinality(Worker)

DeskInv ==
  /\ FormsInv /\ ServersInv /\ SignInInv /\ asked \in 0..2 /\ breaks \in 0..1
-------------------------------------------------------------------------------
(* The invariant of the gate *)

Traced(x) ==
  \E s \in sources :
    /\ s.number[1] = x[1]
    /\ \/ s.number[2] = x[2]
       \/ s.by = "tool" /\ x[2] - s.number[2] \in {-2, 2}

GateInv ==
  /\ Gate!TypeOK
  /\ turn \in [at: Gate!Stage, holds: 0..3, said: 0..3, text: Gate!Texts \cup {Gate!NoText}]
  /\ \A x \in evidence.numbers : Traced(x)
  /\ turn.at = "act" /\ Gate!Passes(turn.text) => turn.text \in passed
  /\ turn.holds <= turn.said
  /\ turn.at \in {"log", "act"} => turn.holds < turn.said
  /\ Gate!FiguresTraced /\ Gate!PassedOnRecord
-------------------------------------------------------------------------------
(* The daily reminders *)

LEMMA RemindersTyped ==
  ASSUME Reminders!TypeOK
  PROVE  /\ tick \in [Worker -> Reminders!Tick] /\ log \subseteq Reminders!Row
         /\ \A w \in Worker : /\ tick[w] \in Reminders!Tick
                              /\ tick[w].step \in Reminders!Step /\ tick[w].pass \in Reminders!Pass
                              /\ tick[w].todo \subseteq Tenant /\ tick[w].row \subseteq Reminders!Row
         /\ \A t \in Tenant, k \in Reminders!Kind :
              /\ got[<<t, k>>] \in Reminders!Got
              /\ got[<<t, k>>].copies \in 0..2 /\ got[<<t, k>>].unanswered \in 0..1
         /\ \A r \in Reminders!Row : /\ r.tenant \in Tenant /\ r.kind \in Reminders!Kind
                                     /\ r.verdict \in Reminders!Verdict /\ r.figure \in Reminders!Figure
  BY DEF Reminders!TypeOK, Reminders!Tick, Reminders!Got, Reminders!Row

LEMMA FiguresOf ==
  ASSUME Reminders!TypeOK, NEW t \in Tenant
  PROVE  {books[t].net} \in Reminders!Figure /\ {books[t].tds} \in Reminders!Figure /\ {} \in Reminders!Figure
  BY DEF Reminders!TypeOK, Reminders!Figure

\* The worker w alone has moved.
Alone(w, ticks) == ticks \in [Worker -> Reminders!Tick] /\ \A v \in Worker : v # w => ticks[v] = tick[v]

LEMMA OnToNextMoves ==
  ASSUME Reminders!TypeOK, NEW w \in Worker, NEW t, Reminders!OnToNext(w, t)
  PROVE  Alone(w, tick') /\ tick'[w].step = "next" /\ tick'[w].row = {}
  BY DEF Reminders!OnToNext, Reminders!TypeOK, Reminders!Tick, Reminders!Step, Alone

LEMMA HoldMoves ==
  ASSUME Reminders!TypeOK, NEW w \in Worker, NEW r \in Reminders!Row, NEW step \in Reminders!Step,
         Reminders!Hold(w, step, r)
  PROVE  Alone(w, tick') /\ tick'[w].step = step /\ tick'[w].row = {r}
  BY DEF Reminders!Hold, Reminders!TypeOK, Reminders!Tick, Alone

LEMMA IdleTyped == Reminders!Idle \in Reminders!Tick /\ Reminders!Idle.row = {} /\ Reminders!Idle.step = "idle"
  BY DEF Reminders!Idle, Reminders!Tick, Reminders!Step, Reminders!Pass

LEMMA IdleMoves ==
  ASSUME Reminders!TypeOK, NEW w \in Worker, NEW q \in Reminders!Tick, tick' = [tick EXCEPT ![w] = q]
  PROVE  Alone(w, tick') /\ tick'[w] = q
  BY DEF Reminders!TypeOK, Alone

\* A step that claims nothing and delivers nothing.
LEMMA QuietTick ==
  ASSUME RemindersInv, missed' \subseteq Tenant, NEW w \in Worker, Alone(w, tick'), UNCHANGED <<log, got>>,
         books' \in [Tenant -> {Month(0, 0, FALSE, FALSE), Month(1, 1, TRUE, TRUE)}],
         tick'[w].step \notin {"send", "release"}, InHand(tick'[w])
  PROVE  RemindersInv'
  <1>1. Reminders!TypeOK'
    BY DEF RemindersInv, Reminders!TypeOK, Alone
  <1>2. \A v \in Worker : InHand(tick'[v])
    BY DEF RemindersInv, Alone
  <1>3. \A v \in Worker, r \in Reminders!Row : Holds(tick'[v], r) => Holds(tick[v], r)
    BY DEF Alone, Holds
  <1>4. LogSound'
    BY DEF RemindersInv, LogSound
  <1>5. ClaimsSound'
    BY <1>3 DEF RemindersInv, ClaimsSound
  <1>6. ASSUME NEW t \in Tenant, NEW k \in Reminders!Kind PROVE Arrived(t, k)'
    <2>1. Arrived(t, k) /\ log \subseteq Reminders!Row
      BY DEF RemindersInv, Reminders!TypeOK
    <2> QED BY <1>3, <2>1 DEF Arrived
  <1> QED BY <1>1, <1>2, <1>4, <1>5, <1>6 DEF RemindersInv

LEMMA BooksTyped ==
  ASSUME RemindersInv, UNCHANGED books
  PROVE  books' \in [Tenant -> {Month(0, 0, FALSE, FALSE), Month(1, 1, TRUE, TRUE)}]
  BY DEF RemindersInv, Reminders!TypeOK

LEMMA EmptyHanded == ASSUME NEW q, q.row = {} PROVE InHand(q)
  BY DEF InHand

LEMMA WithOneRow ==
  ASSUME NEW q, NEW r, q.row = {r}, Stated(r), q.step # "verify" \/ r.figure # {}
  PROVE  InHand(q)
  BY DEF InHand

LEMMA GoesOnQuietly ==
  ASSUME RemindersInv, missed' \subseteq Tenant, NEW w \in Worker, NEW t,
         Reminders!OnToNext(w, t), UNCHANGED <<books, log, got>>
  PROVE  RemindersInv'
  <1>1. Alone(w, tick') /\ tick'[w].step = "next" /\ tick'[w].row = {}
    BY OnToNextMoves DEF RemindersInv
  <1> QED BY <1>1, EmptyHanded, BooksTyped, QuietTick

LEMMA StartsTick ==
  ASSUME RemindersInv, missed' \subseteq Tenant, NEW w \in Worker, Reminders!Start(w)
  PROVE  RemindersInv'
  <1>1. Alone(w, tick') /\ tick'[w].step = "select" /\ tick'[w].row = tick[w].row
    BY DEF RemindersInv, Reminders!TypeOK, Reminders!Start, Reminders!Tick, Reminders!Step, Alone
  <1>2. InHand(tick'[w])
    BY <1>1 DEF RemindersInv, InHand
  <1> QED BY <1>1, <1>2, BooksTyped, QuietTick DEF Reminders!Start

LEMMA SelectsTenants ==
  ASSUME RemindersInv, missed' \subseteq Tenant, NEW w \in Worker, Reminders!Select(w)
  PROVE  RemindersInv'
  <1> DEFINE all == IF tick[w].pass = "vat" THEN Tenant ELSE Tenant
  <1>1. tick' = [tick EXCEPT ![w].step = "next", ![w].todo = all]
    BY DEF Reminders!Select
  <1>2. all \subseteq Tenant
    OBVIOUS
  <1>3. Alone(w, tick') /\ tick'[w].step = "next" /\ tick'[w].row = tick[w].row
    <2> HIDE DEF all
    <2> QED BY <1>1, <1>2 DEF RemindersInv, Reminders!TypeOK, Reminders!Tick, Reminders!Step, Alone
  <1>4. InHand(tick'[w])
    BY <1>3 DEF RemindersInv, InHand
  <1> QED BY <1>3, <1>4, BooksTyped, QuietTick DEF Reminders!Select

LEMMA EndsPass ==
  ASSUME RemindersInv, missed' \subseteq Tenant, NEW w \in Worker, Reminders!EndPass(w)
  PROVE  RemindersInv'
  <1> DEFINE on == [Reminders!Idle EXCEPT !.step = "select", !.pass = Reminders!After(tick[w].pass)]
             q == IF tick[w].pass = "digest" THEN Reminders!Idle ELSE on
  <1>1. on \in Reminders!Tick /\ on.step = "select" /\ on.row = {}
    BY DEF Reminders!Idle, Reminders!Tick, Reminders!Step, Reminders!Pass, Reminders!After
  <1>2. q \in Reminders!Tick /\ q.step \in {"idle", "select"} /\ q.row = {}
    <2> HIDE DEF on
    <2> QED BY <1>1, IdleTyped
  <1>3. tick' = [tick EXCEPT ![w] = q]
    BY DEF Reminders!EndPass
  <1>4. Alone(w, tick') /\ tick'[w] = q
    <2> HIDE DEF q
    <2> QED BY <1>2, <1>3, IdleMoves DEF RemindersInv
  <1>5. InHand(tick'[w]) /\ tick'[w].step \notin {"send", "release"}
    <2> HIDE DEF q
    <2> QED BY <1>2, <1>4, EmptyHanded
  <1>6. UNCHANGED <<books, log, got>>
    BY DEF Reminders!EndPass
  <1> HIDE DEF q, on
  <1> QED BY <1>4, <1>5, <1>6, BooksTyped, QuietTick

LEMMA TickDies ==
  ASSUME RemindersInv, missed' \subseteq Tenant, NEW w \in Worker, Reminders!Dies(w)
  PROVE  RemindersInv'
  <1>1. Alone(w, tick') /\ tick'[w] = Reminders!Idle
    BY IdleTyped, IdleMoves DEF RemindersInv, Reminders!Dies
  <1>2. InHand(tick'[w]) /\ tick'[w].step \notin {"send", "release"}
    BY <1>1, IdleTyped, EmptyHanded
  <1> QED BY <1>1, <1>2, BooksTyped, QuietTick DEF Reminders!Dies

LEMMA PreparesRow ==
  ASSUME RemindersInv, missed' \subseteq Tenant, NEW w \in Worker, NEW t \in Tenant, Reminders!Prepare(w, t)
  PROVE  RemindersInv'
  <1> DEFINE pass == tick[w].pass
             r == [tenant |-> t, kind |-> Reminders!KindOf(pass, "PASS"), verdict |-> "PASS",
                   figure |-> Reminders!Prepared(pass, books[t])]
             step == IF pass = "digest" THEN "claim" ELSE "verify"
  <1>1. UNCHANGED <<books, log, got>>
    BY DEF Reminders!Prepare
  <1>2. CASE Reminders!OnToNext(w, t)
    BY <1>1, <1>2, GoesOnQuietly
  <1>3. CASE Reminders!Hold(w, step, r)
    <2>1. pass \in {"vat", "tds", "digest"}
      BY RemindersTyped DEF RemindersInv, Reminders!Pass
    <2>2. Reminders!KindOf(pass, "PASS") \in Reminders!Kind
          /\ (Reminders!KindOf(pass, "PASS") # "deadline_digest" <=> pass # "digest")
      BY <2>1 DEF Reminders!KindOf, Reminders!Kind, Reminders!VatKind
    <2>3. Reminders!Prepared(pass, books[t]) \in Reminders!Figure
          /\ (pass # "digest" => Reminders!Prepared(pass, books[t]) # {})
      BY <2>1, FiguresOf DEF RemindersInv, Reminders!Prepared
    <2>4. r \in Reminders!Row /\ r.kind = Reminders!KindOf(pass, "PASS") /\ r.verdict = "PASS"
          /\ r.figure = Reminders!Prepared(pass, books[t])
      BY <2>2, <2>3 DEF Reminders!Row, Reminders!Verdict
    <2>5. step \in Reminders!Step /\ step \notin {"send", "release"} /\ (step = "verify" => pass # "digest")
      BY DEF Reminders!Step
    <2> HIDE DEF r, step, pass
    <2>6. Stated(r) /\ (step = "verify" => r.figure # {})
      BY <2>2, <2>3, <2>4, <2>5 DEF Stated
    <2>7. Alone(w, tick') /\ tick'[w].step = step /\ tick'[w].row = {r}
      BY <1>3, <2>4, <2>5, HoldMoves DEF RemindersInv
    <2>8. InHand(tick'[w])
      BY <2>6, <2>7, WithOneRow
    <2> QED BY <1>1, <2>5, <2>7, <2>8, BooksTyped, QuietTick
  <1> QED BY <1>2, <1>3 DEF Reminders!Prepare

LEMMA VerifiesRow ==
  ASSUME RemindersInv, missed' \subseteq Tenant, NEW w \in Worker, Reminders!Verify(w)
  PROVE  RemindersInv'
  <1> DEFINE pass == tick[w].pass
  <1>1. PICK r \in tick[w].row :
          \E verdict \in {Reminders!Recomputed(pass, books[r.tenant], r.figure), "BLOCKED"} :
            /\ Reminders!At(w, "verify")
            /\ Reminders!Hold(w, "claim",
                 [r EXCEPT !.verdict = verdict, !.kind = Reminders!KindOf(pass, verdict),
                           !.figure = IF verdict = "PASS" THEN r.figure ELSE {}])
            /\ UNCHANGED <<books, log, got>>
    BY DEF Reminders!Verify
  <1>2. PICK verdict \in {"PASS", "FAIL", "BLOCKED"} :
          /\ Reminders!Hold(w, "claim",
                 [r EXCEPT !.verdict = verdict, !.kind = Reminders!KindOf(pass, verdict),
                           !.figure = IF verdict = "PASS" THEN r.figure ELSE {}])
          /\ UNCHANGED <<books, log, got>>
    BY <1>1 DEF Reminders!Recomputed
  <1>3. r \in Reminders!Row /\ r.figure \in Reminders!Figure /\ r.figure # {} /\ Stated(r)
    BY <1>1, RemindersTyped DEF RemindersInv, InHand, Reminders!At
  <1> DEFINE figure == IF verdict = "PASS" THEN r.figure ELSE {}
             kind == Reminders!KindOf(pass, verdict)
             q == [r EXCEPT !.verdict = verdict, !.kind = kind, !.figure = figure]
  <1>4. kind \in Reminders!Kind
    <2>1. pass \in {"vat", "tds", "digest"}
      BY RemindersTyped DEF RemindersInv, Reminders!Pass
    <2> QED BY <2>1 DEF Reminders!KindOf, Reminders!Kind, Reminders!VatKind
  <1>5. figure \in Reminders!Figure /\ (figure # {} <=> verdict = "PASS")
    BY <1>3 DEF Reminders!Figure
  <1>6. q \in Reminders!Row /\ q.figure = figure /\ q.verdict = verdict
    <2> HIDE DEF figure, kind
    <2> QED BY <1>3, <1>4, <1>5 DEF Reminders!Row, Reminders!Verdict
  <1>7. Reminders!Hold(w, "claim", q)
    BY <1>2
  <1> HIDE DEF q, figure, kind
  <1>8. Stated(q)
    BY <1>5, <1>6 DEF Stated
  <1>9. "claim" \in Reminders!Step
    BY DEF Reminders!Step
  <1>10. Alone(w, tick') /\ tick'[w].step = "claim" /\ tick'[w].row = {q}
    BY <1>6, <1>7, <1>9, HoldMoves DEF RemindersInv
  <1>11. InHand(tick'[w])
    BY <1>8, <1>10, WithOneRow
  <1> QED BY <1>2, <1>10, <1>11, BooksTyped, QuietTick

LEMMA TenantFailsQuietly ==
  ASSUME RemindersInv, missed' \subseteq Tenant, NEW w \in Worker, Reminders!TenantFails(w)
  PROVE  RemindersInv'
  BY GoesOnQuietly DEF Reminders!TenantFails

LEMMA BooksChangeQuietly ==
  ASSUME RemindersInv, missed' \subseteq Tenant, NEW t \in Tenant, Reminders!BooksChange(t)
  PROVE  RemindersInv'
  <1>1. UNCHANGED <<log, got, tick>>
    BY DEF Reminders!BooksChange
  <1>2. Reminders!TypeOK'
    BY DEF Reminders!BooksChange, RemindersInv, Reminders!TypeOK
  <1>3. LogSound' /\ ClaimsSound' /\ \A w \in Worker : InHand(tick'[w])
    BY <1>1 DEF RemindersInv, LogSound, ClaimsSound
  <1>4. ASSUME NEW x \in Tenant, NEW k \in Reminders!Kind PROVE Arrived(x, k)'
    <2>1. Arrived(x, k)
      BY DEF RemindersInv
    <2> QED BY <1>1, <2>1 DEF Arrived
  <1> QED BY <1>2, <1>3, <1>4 DEF RemindersInv
LEMMA ClaimsRow ==
  ASSUME RemindersInv, missed' \subseteq Tenant, NEW w \in Worker, Reminders!Claim(w)
  PROVE  RemindersInv'
  <1>1. PICK r \in tick[w].row :
          /\ Reminders!At(w, "claim")
          /\ IF Reminders!Taken(r)
               THEN Reminders!OnToNext(w, r.tenant) /\ UNCHANGED log
               ELSE Reminders!Hold(w, "send", r) /\ log' = log \cup {r}
          /\ UNCHANGED <<books, got>>
    BY DEF Reminders!Claim
  <1>2. CASE Reminders!Taken(r)
    BY <1>1, <1>2, GoesOnQuietly
  <1>3. CASE ~Reminders!Taken(r)
    <2>1. r \in Reminders!Row /\ Stated(r)
      BY RemindersTyped DEF RemindersInv, InHand
    <2>2. log' = log \cup {r} /\ Reminders!Hold(w, "send", r) /\ UNCHANGED <<books, got>>
      BY <1>1, <1>3
    <2>3. \A q \in log : ~SameRow(r, q)
      BY <1>3 DEF Reminders!Taken, SameRow
    <2>4. "send" \in Reminders!Step
      BY DEF Reminders!Step
    <2>5. Alone(w, tick') /\ tick'[w].step = "send" /\ tick'[w].row = {r}
      BY <2>1, <2>2, <2>4, HoldMoves DEF RemindersInv
    <2>6. r \notin log
      BY <2>3 DEF SameRow
    <2>7. \A v \in Worker, q \in Reminders!Row : Holds(tick'[v], q) => (v = w /\ q = r) \/ (v # w /\ Holds(tick[v], q))
      BY <2>5 DEF Alone, Holds
    <2>8. Reminders!TypeOK'
      BY <2>1, <2>2, <2>5 DEF RemindersInv, Reminders!TypeOK, Alone
    <2>9. \A v \in Worker : InHand(tick'[v])
      <3>1. InHand(tick'[w])
        BY <2>1, <2>5, WithOneRow
      <3> QED BY <3>1, <2>5 DEF RemindersInv, Alone
    <2>10. LogSound'
      BY <2>1, <2>2, <2>3 DEF RemindersInv, LogSound, SameRow
    <2>11. ClaimsSound'
      BY <2>2, <2>6, <2>7 DEF RemindersInv, ClaimsSound
    <2>12. ASSUME NEW t \in Tenant, NEW k \in Reminders!Kind PROVE Arrived(t, k)'
      <3>1. Arrived(t, k) /\ log \subseteq Reminders!Row
        BY DEF RemindersInv, Reminders!TypeOK
      <3> QED BY <3>1, <2>2, <2>6, <2>7 DEF Arrived
    <2> QED BY <2>8, <2>9, <2>10, <2>11, <2>12 DEF RemindersInv
  <1> QED BY <1>2, <1>3

LEMMA ReleasesRow ==
  ASSUME RemindersInv, missed' \subseteq Tenant, NEW w \in Worker, Reminders!Release(w)
  PROVE  RemindersInv'
  <1>1. PICK r \in tick[w].row :
          /\ Reminders!At(w, "release")
          /\ log' = log \ {r}
          /\ Reminders!OnToNext(w, r.tenant)
          /\ UNCHANGED <<books, got>>
    BY DEF Reminders!Release, Reminders!GivenBack
  <1>2. r \in Reminders!Row /\ Holds(tick[w], r)
    BY <1>1, RemindersTyped DEF RemindersInv, Reminders!At, Holds
  <1>3. Alone(w, tick') /\ tick'[w].step = "next" /\ tick'[w].row = {}
    BY <1>1, OnToNextMoves DEF RemindersInv
  <1>4. \A v \in Worker, q \in Reminders!Row : Holds(tick'[v], q) => v # w /\ Holds(tick[v], q)
    BY <1>3 DEF Alone, Holds
  <1>5. Reminders!TypeOK'
    BY <1>1, <1>3 DEF RemindersInv, Reminders!TypeOK, Alone
  <1>6. \A v \in Worker : InHand(tick'[v])
    <2>1. InHand(tick'[w])
      BY <1>3, EmptyHanded
    <2> QED BY <2>1, <1>3 DEF RemindersInv, Alone
  <1>7. LogSound'
    BY <1>1 DEF RemindersInv, LogSound
  <1>8. ClaimsSound'
    BY <1>1, <1>2, <1>4 DEF RemindersInv, ClaimsSound
  <1>9. ASSUME NEW t \in Tenant, NEW k \in Reminders!Kind PROVE Arrived(t, k)'
    <2>1. Arrived(t, k) /\ log \subseteq Reminders!Row
      BY DEF RemindersInv, Reminders!TypeOK
    <2> QED BY <2>1, <1>1, <1>2, <1>4 DEF Arrived
  <1> QED BY <1>5, <1>6, <1>7, <1>8, <1>9 DEF RemindersInv

\* What one more delivery makes of what the tenant got.
Delivered(g, unanswered, figure) ==
  [copies |-> g.copies + 1, unanswered |-> g.unanswered + unanswered, figure |-> figure]

LEMMA DeliverMoves ==
  ASSUME RemindersInv, NEW r \in Reminders!Row, NEW u \in {0, 1}, Reminders!Deliver(r, u)
  PROVE  /\ got' = [got EXCEPT ![<<r.tenant, r.kind>>] = Delivered(got[<<r.tenant, r.kind>>], u, r.figure)]
         /\ got'[<<r.tenant, r.kind>>] = Delivered(got[<<r.tenant, r.kind>>], u, r.figure)
         /\ \A t \in Tenant, k \in Reminders!Kind :
              t # r.tenant \/ k # r.kind => got'[<<t, k>>] = got[<<t, k>>]
  <1>1. got' = [got EXCEPT ![<<r.tenant, r.kind>>] = Delivered(got[<<r.tenant, r.kind>>], u, r.figure)]
    BY DEF Reminders!Deliver, Delivered
  <1>2. got \in [Tenant \X Reminders!Kind -> Reminders!Got] /\ <<r.tenant, r.kind>> \in Tenant \X Reminders!Kind
    BY RemindersTyped DEF RemindersInv, Reminders!TypeOK
  <1> QED BY <1>1, <1>2

\* Who holds a row has not seen its reminder arrive.
LEMMA NotArrived ==
  ASSUME RemindersInv, NEW w \in Worker, NEW r \in Reminders!Row, Holds(tick[w], r)
  PROVE  /\ r \in log
         /\ got[<<r.tenant, r.kind>>].copies <= got[<<r.tenant, r.kind>>].unanswered
  <1>1. r \in log
    BY DEF RemindersInv, ClaimsSound
  <1>2. r.tenant \in Tenant /\ r.kind \in Reminders!Kind
    BY RemindersTyped DEF RemindersInv
  <1>3. Arrived(r.tenant, r.kind)
    BY <1>2 DEF RemindersInv
  <1>4. got[<<r.tenant, r.kind>>].copies \in 0..2 /\ got[<<r.tenant, r.kind>>].unanswered \in 0..1
    BY <1>2, RemindersTyped DEF RemindersInv
  <1>5. ASSUME NEW q \in log, q.tenant = r.tenant, q.kind = r.kind PROVE q = r
    BY <1>1, <1>5 DEF RemindersInv, LogSound, SameRow
  <1> QED BY <1>1, <1>3, <1>4, <1>5 DEF Arrived

LEMMA DeliveredTyped ==
  ASSUME NEW g \in Reminders!Got, NEW u \in {0, 1}, NEW figure \in Reminders!Figure,
         g.copies <= g.unanswered, g.unanswered + u <= 1
  PROVE  /\ Delivered(g, u, figure) \in Reminders!Got
         /\ Delivered(g, u, figure).copies = g.copies + 1
         /\ Delivered(g, u, figure).unanswered = g.unanswered + u
         /\ Delivered(g, u, figure).figure = figure
  <1>1. g.copies \in 0..2 /\ g.unanswered \in 0..1
    BY DEF Reminders!Got
  <1>2. g.copies + 1 \in 0..2 /\ g.unanswered + u \in 0..1
    BY <1>1
  <1> DEFINE c == g.copies + 1
             n == g.unanswered + u
  <1>3. [copies |-> c, unanswered |-> n, figure |-> figure] \in Reminders!Got
    <2>1. c \in 0..2 /\ n \in 0..1
      BY <1>2
    <2> HIDE DEF c, n
    <2> QED BY <2>1 DEF Reminders!Got
  <1> QED BY <1>3 DEF Delivered

\* A delivery by who holds the row: it goes on to the next tenant if the answer came.
LEMMA DeliversRow ==
  ASSUME RemindersInv, missed' \subseteq Tenant, NEW w \in Worker, NEW r \in Reminders!Row, Holds(tick[w], r),
         NEW u \in {0, 1}, Reminders!Deliver(r, u), UNCHANGED <<books, log>>,
         got[<<r.tenant, r.kind>>].unanswered + u <= 1,
         Alone(w, tick'), InHand(tick'[w]), \A q \in Reminders!Row : Holds(tick'[w], q) => q = r,
         u = 0 => tick'[w].row = {}
  PROVE  RemindersInv'
  <1> DEFINE g == got[<<r.tenant, r.kind>>]
  <1>1. r \in log /\ g.copies <= g.unanswered /\ r.tenant \in Tenant /\ r.kind \in Reminders!Kind
        /\ g \in Reminders!Got /\ r.figure \in Reminders!Figure /\ g.copies \in 0..2 /\ g.unanswered \in 0..1
    BY NotArrived, RemindersTyped DEF RemindersInv
  <1>2. /\ got' = [got EXCEPT ![<<r.tenant, r.kind>>] = Delivered(g, u, r.figure)]
        /\ got'[<<r.tenant, r.kind>>] = Delivered(g, u, r.figure)
        /\ \A t \in Tenant, k \in Reminders!Kind : t # r.tenant \/ k # r.kind => got'[<<t, k>>] = got[<<t, k>>]
    BY DeliverMoves
  <1> HIDE DEF g
  <1>3. /\ Delivered(g, u, r.figure) \in Reminders!Got
        /\ Delivered(g, u, r.figure).copies = g.copies + 1
        /\ Delivered(g, u, r.figure).unanswered = g.unanswered + u
        /\ Delivered(g, u, r.figure).figure = r.figure
    BY <1>1, DeliveredTyped DEF g
  <1>4. \A v \in Worker, q \in Reminders!Row : Holds(tick'[v], q) => Holds(tick[v], q)
    BY DEF Alone, Holds
  <1>5. Reminders!TypeOK'
    <2>1. got' \in [Tenant \X Reminders!Kind -> Reminders!Got]
      BY <1>2, <1>3 DEF RemindersInv, Reminders!TypeOK
    <2> QED BY <2>1 DEF RemindersInv, Reminders!TypeOK, Alone
  <1>6. \A v \in Worker : InHand(tick'[v])
    BY DEF RemindersInv, Alone
  <1>7. LogSound'
    BY DEF RemindersInv, LogSound
  <1>8. ClaimsSound'
    BY <1>4 DEF RemindersInv, ClaimsSound
  <1>9. ASSUME NEW t \in Tenant, NEW k \in Reminders!Kind PROVE Arrived(t, k)'
    <2>1. Arrived(t, k) /\ log \subseteq Reminders!Row
      BY DEF RemindersInv, Reminders!TypeOK
    <2>2. CASE t # r.tenant \/ k # r.kind
      <3>1. got'[<<t, k>>] = got[<<t, k>>]
        BY <1>2, <2>2
      <3> QED BY <1>4, <2>1, <3>1 DEF Arrived
    <2>3. CASE t = r.tenant /\ k = r.kind
      <3>1. /\ got'[<<t, k>>].copies = g.copies + 1 /\ got'[<<t, k>>].unanswered = g.unanswered + u
            /\ got'[<<t, k>>].figure = r.figure
        BY <1>2, <1>3, <2>3
      <3>2. g.copies + 1 <= 1 + (g.unanswered + u)
        BY <1>1
      <3>3. CASE u = 1
        <4>1. ~(g.copies + 1 > g.unanswered + u)
          BY <1>1, <3>3
        <4> QED BY <3>1, <3>2, <4>1 DEF Arrived
      <3>4. CASE u = 0
        <4>1. \A v \in Worker : ~Holds(tick'[v], r)
          <5>1. ~Holds(tick'[w], r)
            BY <3>4 DEF Holds
          <5>2. \A v \in Worker : Holds(tick[v], r) => v = w
            BY DEF RemindersInv, ClaimsSound
          <5> QED BY <1>4, <5>1, <5>2
        <4> QED BY <3>1, <3>2, <4>1, <1>1, <2>3 DEF Arrived
      <3> QED BY <3>3, <3>4
    <2> QED BY <2>2, <2>3
  <1> QED BY <1>5, <1>6, <1>7, <1>8, <1>9 DEF RemindersInv

LEMMA SendsRow ==
  ASSUME RemindersInv, missed' \subseteq Tenant, NEW w \in Worker, Reminders!Send(w)
  PROVE  RemindersInv'
  <1>1. PICK r \in tick[w].row :
          /\ Reminders!At(w, "send") /\ Reminders!Deliver(r, 0)
          /\ Reminders!OnToNext(w, r.tenant) /\ UNCHANGED <<books, log>>
    BY DEF Reminders!Send
  <1>2. r \in Reminders!Row /\ Holds(tick[w], r)
    BY <1>1, RemindersTyped DEF RemindersInv, Reminders!At, Holds
  <1>3. Alone(w, tick') /\ tick'[w].step = "next" /\ tick'[w].row = {}
    BY <1>1, OnToNextMoves DEF RemindersInv
  <1>4. InHand(tick'[w]) /\ \A q \in Reminders!Row : Holds(tick'[w], q) => q = r
    BY <1>3, EmptyHanded DEF Holds
  <1>5. got[<<r.tenant, r.kind>>].unanswered + 0 <= 1
    BY <1>2, RemindersTyped DEF RemindersInv
  <1> QED BY <1>1, <1>2, <1>3, <1>4, <1>5, DeliversRow

LEMMA RetriesRow ==
  ASSUME RemindersInv, missed' \subseteq Tenant, NEW w \in Worker, Reminders!Retry(w)
  PROVE  RemindersInv'
  <1>1. PICK r \in tick[w].row :
          /\ Reminders!At(w, "send") /\ Reminders!Deliver(r, 1)
          /\ got[<<r.tenant, r.kind>>].unanswered < 1 /\ UNCHANGED <<books, log, tick>>
    BY DEF Reminders!Retry
  <1>2. r \in Reminders!Row /\ Holds(tick[w], r)
    BY <1>1, RemindersTyped DEF RemindersInv, Reminders!At, Holds
  <1>3. Alone(w, tick')
    BY <1>1 DEF RemindersInv, Reminders!TypeOK, Alone
  <1>4. InHand(tick'[w]) /\ \A q \in Reminders!Row : Holds(tick'[w], q) => q = r
    BY <1>1 DEF RemindersInv, InHand, Holds
  <1>5. got[<<r.tenant, r.kind>>].unanswered + 1 <= 1
    BY <1>1, <1>2, RemindersTyped DEF RemindersInv
  <1> QED BY <1>1, <1>2, <1>3, <1>4, <1>5, DeliversRow

LEMMA SendFailsRow ==
  ASSUME RemindersInv, missed' \subseteq Tenant, NEW w \in Worker, Reminders!SendFails(w)
  PROVE  RemindersInv'
  <1>1. PICK r \in tick[w].row :
          /\ Reminders!At(w, "send")
          /\ \/ UNCHANGED got
             \/ got[<<r.tenant, r.kind>>].unanswered < 1 /\ Reminders!Deliver(r, 1)
          /\ Reminders!Hold(w, "release", r) /\ UNCHANGED <<books, log>>
    BY DEF Reminders!SendFails
  <1>2. r \in Reminders!Row /\ Holds(tick[w], r) /\ Stated(r)
    BY <1>1, RemindersTyped DEF RemindersInv, Reminders!At, Holds, InHand
  <1>3. "release" \in Reminders!Step
    BY DEF Reminders!Step
  <1>4. Alone(w, tick') /\ tick'[w].step = "release" /\ tick'[w].row = {r}
    BY <1>1, <1>2, <1>3, HoldMoves DEF RemindersInv
  <1>5. InHand(tick'[w]) /\ \A q \in Reminders!Row : Holds(tick'[w], q) => q = r
    BY <1>2, <1>4, WithOneRow DEF Holds
  <1>6. CASE got[<<r.tenant, r.kind>>].unanswered < 1 /\ Reminders!Deliver(r, 1)
    <2>1. got[<<r.tenant, r.kind>>].unanswered + 1 <= 1
      BY <1>2, <1>6, RemindersTyped DEF RemindersInv
    <2> QED BY <1>1, <1>2, <1>4, <1>5, <1>6, <2>1, DeliversRow
  <1>7. CASE UNCHANGED got
    <2>1. \A v \in Worker, q \in Reminders!Row : Holds(tick'[v], q) => Holds(tick[v], q)
      BY <1>2, <1>4, <1>5 DEF Alone, Holds
    <2>2. Reminders!TypeOK'
      BY <1>1, <1>4, <1>7 DEF RemindersInv, Reminders!TypeOK, Alone
    <2>3. \A v \in Worker : InHand(tick'[v])
      BY <1>4, <1>5 DEF RemindersInv, Alone
    <2>4. LogSound' /\ ClaimsSound'
      BY <1>1, <2>1 DEF RemindersInv, LogSound, ClaimsSound
    <2>5. ASSUME NEW t \in Tenant, NEW k \in Reminders!Kind PROVE Arrived(t, k)'
      <3>1. Arrived(t, k) /\ log \subseteq Reminders!Row
        BY DEF RemindersInv, Reminders!TypeOK
      <3> QED BY <1>1, <1>7, <2>1, <3>1 DEF Arrived
    <2> QED BY <2>2, <2>3, <2>4, <2>5 DEF RemindersInv
  <1> QED BY <1>1, <1>6, <1>7

LEMMA RemindersStart == ASSUME Reminders!Init PROVE RemindersInv
  <1>1. Reminders!TypeOK
    <2>1. [copies |-> 0, unanswered |-> 0, figure |-> {}] \in Reminders!Got
      BY DEF Reminders!Got, Reminders!Figure
    <2> QED BY <2>1, IdleTyped DEF Reminders!Init, Reminders!TypeOK
  <1>2. \A w \in Worker : InHand(tick[w]) /\ \A r : ~Holds(tick[w], r)
    BY IdleTyped, EmptyHanded DEF Reminders!Init, Holds
  <1>3. LogSound /\ ClaimsSound
    BY <1>2 DEF LogSound, ClaimsSound, Reminders!Init
  <1>4. \A t \in Tenant, k \in Reminders!Kind : Arrived(t, k)
    <2>1. \A t \in Tenant, k \in Reminders!Kind : got[<<t, k>>].copies = 0 /\ got[<<t, k>>].unanswered = 0
      BY DEF Reminders!Init
    <2>2. ASSUME NEW t \in Tenant, NEW k \in Reminders!Kind PROVE Arrived(t, k)
      <3>1. got[<<t, k>>].copies = 0 /\ got[<<t, k>>].unanswered = 0
        BY <2>1
      <3>2. 0 <= 1 + 0 /\ ~(0 > 0)
        OBVIOUS
      <3> QED BY <3>1, <3>2 DEF Arrived
    <2> QED BY <2>2
  <1> QED BY <1>1, <1>2, <1>3, <1>4 DEF RemindersInv

\* What a tick leaves behind is a row of some tenant.
LEMMA MissedTyped ==
  ASSUME RemindersInv, Reminders!Next \/ UNCHANGED reminderVars
  PROVE  missed' \subseteq Tenant
  <1>1. missed \subseteq Tenant
    BY DEF RemindersInv, Reminders!TypeOK
  <1>2. ASSUME NEW w \in Worker, Reminders!LetGo(w) PROVE missed' \subseteq Tenant
    <2>1. \A r \in tick[w].row : r.tenant \in Tenant
      BY RemindersTyped DEF RemindersInv
    <2> QED BY <1>1, <1>2, <2>1 DEF Reminders!LetGo
  <1>3. ASSUME NEW w \in Worker, Reminders!TenantFails(w) \/ Reminders!Dies(w) PROVE missed' \subseteq Tenant
    BY <1>2, <1>3 DEF Reminders!TenantFails, Reminders!Dies
  <1>4. ASSUME NEW w \in Worker, Reminders!Work(w) PROVE missed' = missed
    BY <1>4 DEF Reminders!Work, Reminders!Select, Reminders!EndPass, Reminders!Prepare, Reminders!Verify,
                Reminders!Claim, Reminders!Send, Reminders!Release
  <1>5. ASSUME NEW w \in Worker, Reminders!Start(w) \/ Reminders!Retry(w) \/ Reminders!SendFails(w)
        PROVE  missed' = missed
    BY <1>5 DEF Reminders!Start, Reminders!Retry, Reminders!SendFails
  <1>6. ASSUME NEW t \in Tenant, Reminders!BooksChange(t) PROVE missed' = missed
    BY <1>6 DEF Reminders!BooksChange
  <1>7. CASE UNCHANGED reminderVars
    BY <1>1, <1>7 DEF reminderVars
  <1>8. CASE Reminders!Next
    BY <1>1, <1>3, <1>4, <1>5, <1>6, <1>8 DEF Reminders!Next
  <1> QED BY <1>7, <1>8

LEMMA RemindersStep ==
  ASSUME RemindersInv, Reminders!Next \/ UNCHANGED reminderVars
  PROVE  RemindersInv'
  <1>0. missed' \subseteq Tenant
    BY MissedTyped
  <1>1. CASE UNCHANGED reminderVars
    <2>1. UNCHANGED <<books, log, got, tick>>
      BY <1>1 DEF reminderVars
    <2>2. Reminders!TypeOK'
      BY <1>0, <2>1 DEF RemindersInv, Reminders!TypeOK
    <2>3. LogSound' /\ ClaimsSound' /\ \A w \in Worker : InHand(tick'[w])
      BY <2>1 DEF RemindersInv, LogSound, ClaimsSound
    <2>4. ASSUME NEW x \in Tenant, NEW k \in Reminders!Kind PROVE Arrived(x, k)'
      <3>1. Arrived(x, k)
        BY DEF RemindersInv
      <3> QED BY <2>1, <3>1 DEF Arrived
    <2> QED BY <2>2, <2>3, <2>4 DEF RemindersInv
  <1>2. ASSUME NEW w \in Worker, Reminders!Work(w) PROVE RemindersInv'
    BY <1>0, <1>2, SelectsTenants, EndsPass, PreparesRow, VerifiesRow, ClaimsRow, SendsRow, ReleasesRow DEF Reminders!Work
  <1>3. CASE Reminders!Next
    BY <1>0, <1>2, <1>3, StartsTick, RetriesRow, SendFailsRow, TenantFailsQuietly, TickDies, BooksChangeQuietly DEF Reminders!Next
  <1> QED BY <1>1, <1>3
-------------------------------------------------------------------------------
(* The outbox of notices *)

LEMMA OutboxTyped ==
  ASSUME Outbox!TypeOK, NEW e \in Event
  PROVE  /\ rows[e] \in Outbox!Row /\ rows[e].status \in Outbox!Status /\ rows[e].attempts \in 0..3
         /\ delivered[e] \in Nat /\ lost[e] \in 0..3 /\ deaths \in 0..2
  BY DEF Outbox!TypeOK, Outbox!Row

LEMMA DrainTyped ==
  ASSUME Outbox!TypeOK, NEW d \in Drainer
  PROVE  /\ DOMAIN drain[d] \subseteq Event
         /\ drain[d] = [e \in DOMAIN drain[d] |-> drain[d][e]]
         /\ \A e \in DOMAIN drain[d] : drain[d][e] \in Outbox!Copy
  BY DEF Outbox!TypeOK

LEMMA DrainOfType ==
  ASSUME NEW f, NEW L \in SUBSET Event, f \in [L -> Outbox!Copy]
  PROVE  \E locked \in SUBSET Event : f \in [locked -> Outbox!Copy]
  OBVIOUS

LEMMA CopyTyped ==
  ASSUME NEW c \in Outbox!Copy
  PROVE  c.status \in Outbox!Status /\ c.attempts \in 0..3 /\ c.done \in BOOLEAN /\ c.out \in BOOLEAN
  BY DEF Outbox!Copy

\* The type of the outbox after a step of one drain.
LEMMA OutboxTypedNext ==
  ASSUME Outbox!TypeOK, NEW d \in Drainer, NEW L \in SUBSET Event, drain'[d] \in [L -> Outbox!Copy],
         \A c \in Drainer : c # d => drain'[c] = drain[c],
         rows' \in [Event -> Outbox!Row], delivered' \in [Event -> Nat], lost' \in [Event -> 0..3],
         deaths' \in 0..2
  PROVE  Outbox!TypeOK'
  <1>1. ASSUME NEW c \in Drainer PROVE \E locked \in SUBSET Event : drain'[c] \in [locked -> Outbox!Copy]
    <2>1. CASE c = d
      BY <2>1
    <2>2. CASE c # d
      BY <2>2 DEF Outbox!TypeOK
    <2> QED BY <2>1, <2>2
  <1>2. 3 = 1 + 2
    OBVIOUS
  <1> QED BY <1>1, <1>2 DEF Outbox!TypeOK

LEMMA Unlocked ==
  ASSUME OutboxInv, NEW d \in Drainer, NEW e \in Event, e \in DOMAIN drain[d]
  PROVE  /\ CopySound(drain[d][e]) /\ rows[e].status = "pending"
         /\ \A c \in Drainer : e \in DOMAIN drain[c] => c = d
         /\ GoneOut(e) <=> drain[d][e].out
  BY DEF OutboxInv, LocksSound, GoneOut

LEMMA QueuesNotice ==
  ASSUME OutboxInv, NEW e \in Event, Outbox!Commit(e)
  PROVE  OutboxInv'
  <1>1. UNCHANGED <<delivered, drain, lost, deaths>>
    BY DEF Outbox!Commit
  <1>2. CASE rows[e].status # "absent"
    <2>1. UNCHANGED rows
      BY <1>2 DEF Outbox!Commit, Outbox!Queue
    <2> QED BY <1>1, <2>1 DEF OutboxInv, Outbox!TypeOK, LocksSound, NoticeSound, GoneOut
  <1>3. CASE rows[e].status = "absent"
    <2>1. rows' = [rows EXCEPT ![e].status = "pending"]
      BY <1>3 DEF Outbox!Commit, Outbox!Queue
    <2>2. /\ rows' \in [Event -> Outbox!Row] /\ rows'[e].status = "pending" /\ rows'[e].attempts = rows[e].attempts
          /\ \A x \in Event : x # e => rows'[x] = rows[x]
      BY <2>1 DEF OutboxInv, Outbox!TypeOK, Outbox!Row, Outbox!Status
    <2>3. Outbox!TypeOK'
      BY <1>1, <2>2 DEF OutboxInv, Outbox!TypeOK
    <2>4. \A d \in Drainer : e \notin DOMAIN drain[d]
      BY <1>3 DEF OutboxInv, LocksSound
    <2>5. LocksSound'
      BY <1>1, <2>2, <2>4 DEF OutboxInv, LocksSound
    <2>6. ASSUME NEW x \in Event PROVE NoticeSound(x)'
      <3>1. NoticeSound(x)
        BY DEF OutboxInv
      <3>2. GoneOut(x)' <=> GoneOut(x)
        BY <1>1, <1>3, <2>2 DEF GoneOut
      <3>3. CASE x = e
        BY <1>1, <1>3, <2>2, <3>1, <3>2, <3>3 DEF NoticeSound
      <3>4. CASE x # e
        BY <1>1, <2>2, <3>1, <3>2, <3>4 DEF NoticeSound
      <3> QED BY <3>3, <3>4
    <2> QED BY <2>3, <2>5, <2>6 DEF OutboxInv
  <1> QED BY <1>2, <1>3

LEMMA ClaimsBatch ==
  ASSUME OutboxInv, NEW d \in Drainer, Outbox!Claim(d)
  PROVE  OutboxInv'
  <1> DEFINE free == {e \in Outbox!Pending : Outbox!Free(e)}
             Fresh(e) == [status |-> rows[e].status, attempts |-> rows[e].attempts, done |-> FALSE, out |-> FALSE]
  <1>1. PICK batch \in SUBSET free :
          /\ drain[d] = Outbox!NoRows
          /\ drain' = [drain EXCEPT ![d] = [e \in batch |-> Fresh(e)]]
          /\ UNCHANGED <<rows, delivered, lost, deaths>>
    BY DEF Outbox!Claim
  <1>2. ASSUME NEW e \in batch
        PROVE  e \in Event /\ rows[e].status = "pending" /\ \A c \in Drainer : e \notin DOMAIN drain[c]
    BY <1>1 DEF Outbox!Pending, Outbox!Free, Outbox!Locked
  <1>3. DOMAIN drain[d] = {}
    BY <1>1 DEF Outbox!NoRows
  <1>4. ASSUME NEW e \in batch
        PROVE  CopySound(Fresh(e)) /\ Fresh(e) \in Outbox!Copy /\ ~Fresh(e).out
    <2>1. e \in Event /\ rows[e].status = "pending" /\ rows[e].attempts \in 0..3 /\ rows[e].attempts < 3
      BY <1>2, OutboxTyped DEF OutboxInv, NoticeSound
    <2>2. Fresh(e) \in Outbox!Copy
      BY <2>1 DEF Outbox!Copy, Outbox!Status
    <2> QED BY <2>1, <2>2 DEF CopySound
  <1> HIDE DEF Fresh
  <1>5. DOMAIN drain = Drainer
    BY DEF OutboxInv, LocksSound
  <1>6. /\ drain'[d] = [e \in batch |-> Fresh(e)] /\ DOMAIN drain' = Drainer
        /\ \A c \in Drainer : c # d => drain'[c] = drain[c]
    BY <1>1, <1>5
  <1>7. batch \subseteq Event
    BY <1>2
  <1>8. Outbox!TypeOK'
    <2>1. drain'[d] \in [batch -> Outbox!Copy]
      BY <1>4, <1>6
    <2>2. rows' \in [Event -> Outbox!Row] /\ delivered' \in [Event -> Nat] /\ lost' \in [Event -> 0..3] /\ deaths' \in 0..2
      BY <1>1 DEF OutboxInv, Outbox!TypeOK
    <2> QED BY <1>6, <1>7, <2>1, <2>2, OutboxTypedNext DEF OutboxInv
  <1>9. LocksSound'
    <2> SUFFICES ASSUME NEW c \in Drainer, NEW e \in Event, e \in DOMAIN drain'[c]
                 PROVE  /\ CopySound(drain'[c][e]) /\ rows[e].status = "pending"
                        /\ \A b \in Drainer : e \in DOMAIN drain'[b] => b = c
      BY <1>1, <1>6 DEF LocksSound
    <2>1. CASE c = d
      BY <1>2, <1>4, <1>6, <2>1
    <2>2. CASE c # d
      BY <1>2, <1>6, <2>2 DEF OutboxInv, LocksSound
    <2> QED BY <2>1, <2>2
  <1>10. ASSUME NEW x \in Event PROVE NoticeSound(x)'
    <2>1. GoneOut(x)' <=> GoneOut(x)
      BY <1>1, <1>2, <1>3, <1>4, <1>6 DEF GoneOut
    <2>2. NoticeSound(x)
      BY DEF OutboxInv
    <2> QED BY <1>1, <2>1, <2>2 DEF NoticeSound
  <1> QED BY <1>8, <1>9, <1>10 DEF OutboxInv

\* A row a drain works on: what it writes, and what reached WhatsApp.
LEMMA WorksOnRow ==
  ASSUME OutboxInv, NEW d \in Drainer, NEW e \in Event, e \in DOMAIN drain[d],
         NEW c, CopySound(c), drain' = [drain EXCEPT ![d][e] = c], UNCHANGED <<rows, deaths>>,
         delivered' \in [Event -> Nat], lost' \in [Event -> 0..3],
         \A x \in Event : x # e => delivered'[x] = delivered[x] /\ lost'[x] = lost[x],
         lost'[e] <= 1 + deaths, delivered'[e] <= 1 + lost'[e],
         delivered'[e] > lost'[e] => c.out, c.out => delivered'[e] > 0
  PROVE  OutboxInv'
  <1>1. DOMAIN drain = Drainer /\ drain[d] = [x \in DOMAIN drain[d] |-> drain[d][x]] /\ DOMAIN drain[d] \subseteq Event
    BY DrainTyped DEF OutboxInv, LocksSound
  <1>2. /\ drain'[d] = [drain[d] EXCEPT ![e] = c] /\ DOMAIN drain' = Drainer
        /\ \A b \in Drainer : b # d => drain'[b] = drain[b]
    BY <1>1
  <1>3. /\ DOMAIN drain'[d] = DOMAIN drain[d] /\ drain'[d][e] = c
        /\ \A x \in DOMAIN drain[d] : x # e => drain'[d][x] = drain[d][x]
    BY <1>1, <1>2
  <1>4. c \in Outbox!Copy
    BY DEF CopySound
  <1>5. Outbox!TypeOK'
    <2>1. drain'[d] \in [DOMAIN drain[d] -> Outbox!Copy]
      BY <1>1, <1>2, <1>4, DrainTyped DEF OutboxInv
    <2>2. rows' \in [Event -> Outbox!Row] /\ deaths' \in 0..2
      BY DEF OutboxInv, Outbox!TypeOK
    <2> QED BY <1>1, <1>2, <2>1, <2>2, OutboxTypedNext DEF OutboxInv
  <1>6. LocksSound'
    <2> SUFFICES ASSUME NEW b \in Drainer, NEW x \in Event, x \in DOMAIN drain'[b]
                 PROVE  /\ CopySound(drain'[b][x]) /\ rows[x].status = "pending"
                        /\ \A a \in Drainer : x \in DOMAIN drain'[a] => a = b
      BY <1>2 DEF LocksSound
    <2>1. \A a \in Drainer : DOMAIN drain'[a] = DOMAIN drain[a]
      BY <1>2, <1>3
    <2>2. rows[x].status = "pending" /\ CopySound(drain[b][x]) /\ \A a \in Drainer : x \in DOMAIN drain[a] => a = b
      BY <2>1, Unlocked
    <2>3. CopySound(drain'[b][x])
      BY <1>2, <1>3, <2>1, <2>2
    <2> QED BY <2>1, <2>2, <2>3
  <1>7. ASSUME NEW x \in Event PROVE NoticeSound(x)'
    <2>1. NoticeSound(x)
      BY DEF OutboxInv
    <2>2. CASE x # e
      <3>1. GoneOut(x)' <=> GoneOut(x)
        BY <1>2, <1>3, <2>2 DEF GoneOut
      <3> QED BY <2>1, <2>2, <3>1 DEF NoticeSound
    <2>3. CASE x = e
      <3>1. rows[e].status = "pending" /\ \A b \in Drainer : e \in DOMAIN drain[b] => b = d
        BY Unlocked
      <3>2. GoneOut(e)' <=> c.out
        BY <1>2, <1>3, <3>1 DEF GoneOut
      <3> QED BY <2>1, <2>3, <3>1, <3>2 DEF NoticeSound
    <2> QED BY <2>2, <2>3
  <1> QED BY <1>5, <1>6, <1>7 DEF OutboxInv

\* A row not done yet has not gone out.
LEMMA NotDone ==
  ASSUME OutboxInv, NEW d \in Drainer, NEW e \in Event, e \in DOMAIN drain[d], ~drain[d][e].done
  PROVE  /\ ~drain[d][e].out /\ drain[d][e].attempts \in 0..2 /\ drain[d][e].status = "pending"
         /\ delivered[e] <= lost[e] /\ delivered[e] \in Nat /\ lost[e] \in 0..3 /\ deaths \in 0..2
         /\ lost[e] <= 1 + deaths
  <1>1. CopySound(drain[d][e]) /\ ~GoneOut(e)
    BY Unlocked DEF CopySound
  <1>2. ~drain[d][e].out /\ drain[d][e].attempts \in 0..2 /\ drain[d][e].status = "pending"
    BY <1>1, CopyTyped DEF CopySound
  <1>3. delivered[e] \in Nat /\ lost[e] \in 0..3 /\ deaths \in 0..2 /\ NoticeSound(e)
    BY OutboxTyped DEF OutboxInv
  <1> QED BY <1>1, <1>2, <1>3 DEF NoticeSound

\* The copy a drain leaves of a row it is done with.
Done(status, n, out) == [status |-> status, attempts |-> n, done |-> TRUE, out |-> out]

LEMMA DoneSound ==
  ASSUME NEW status \in {"pending", "sent", "failed"}, NEW n \in 0..3, NEW out \in BOOLEAN,
         status = "sent" <=> out, status = "pending" => n < 3
  PROVE  CopySound(Done(status, n, out)) /\ (Done(status, n, out).out <=> out)
  BY DEF CopySound, Done, Outbox!Copy, Outbox!Status

LEMMA SendsNotice ==
  ASSUME OutboxInv, NEW d \in Drainer, NEW e \in Event, Outbox!Send(d, e)
  PROVE  OutboxInv'
  <1>1. e \in DOMAIN drain[d] /\ ~drain[d][e].done /\ UNCHANGED <<rows, lost, deaths>>
    BY DEF Outbox!Send
  <1> DEFINE n == drain[d][e].attempts + 1
             c == Done("sent", n, TRUE)
  <1>2. drain' = [drain EXCEPT ![d][e] = c]
    BY DEF Outbox!Send, Outbox!Written, Outbox!Counted, Done
  <1>3. delivered' = [delivered EXCEPT ![e] = @ + 1]
    BY DEF Outbox!Send
  <1>4. n \in 0..3
    BY <1>1, NotDone
  <1>5. CopySound(c) /\ c.out
    <2> HIDE DEF n
    <2> QED BY <1>4, DoneSound
  <1>6. delivered'[e] = delivered[e] + 1 /\ delivered' \in [Event -> Nat]
        /\ \A x \in Event : x # e => delivered'[x] = delivered[x]
    BY <1>3 DEF OutboxInv, Outbox!TypeOK
  <1>7. lost' = lost /\ lost \in [Event -> 0..3]
    BY <1>1 DEF OutboxInv, Outbox!TypeOK
  <1>8. lost'[e] <= 1 + deaths /\ delivered'[e] <= 1 + lost'[e] /\ delivered'[e] > 0
    BY <1>1, <1>6, <1>7, NotDone
  <1> HIDE DEF c
  <1> QED BY <1>1, <1>2, <1>5, <1>6, <1>7, <1>8, WorksOnRow

LEMMA RetriesNotice ==
  ASSUME OutboxInv, NEW d \in Drainer, NEW e \in Event, Outbox!Retry(d, e)
  PROVE  OutboxInv'
  <1>1. e \in DOMAIN drain[d] /\ ~drain[d][e].done /\ lost[e] < 1 /\ UNCHANGED <<rows, drain, deaths>>
    BY DEF Outbox!Retry
  <1>2. lost' = [lost EXCEPT ![e] = @ + 1] /\ delivered' = [delivered EXCEPT ![e] = @ + 1]
    BY DEF Outbox!Retry
  <1>3. delivered'[e] = delivered[e] + 1 /\ delivered' \in [Event -> Nat]
        /\ \A x \in Event : x # e => delivered'[x] = delivered[x]
    BY <1>2 DEF OutboxInv, Outbox!TypeOK
  <1>4. lost'[e] = lost[e] + 1 /\ lost[e] + 1 \in 0..3
    BY <1>1, <1>2, OutboxTyped DEF OutboxInv, Outbox!TypeOK
  <1>5. lost' \in [Event -> 0..3] /\ \A x \in Event : x # e => lost'[x] = lost[x]
    <2> DEFINE n == lost[e] + 1
    <2>1. lost' = [lost EXCEPT ![e] = n] /\ n \in 0..3
      BY <1>2, <1>4
    <2> HIDE DEF n
    <2> QED BY <2>1 DEF OutboxInv, Outbox!TypeOK
  <1>6. Outbox!TypeOK'
    BY <1>1, <1>3, <1>5 DEF OutboxInv, Outbox!TypeOK
  <1>7. LocksSound'
    BY <1>1 DEF OutboxInv, LocksSound
  <1>8. ASSUME NEW x \in Event PROVE NoticeSound(x)'
    <2>1. NoticeSound(x) /\ (GoneOut(x)' <=> GoneOut(x))
      BY <1>1 DEF OutboxInv, GoneOut
    <2>2. CASE x # e
      BY <1>1, <1>3, <1>5, <2>1, <2>2 DEF NoticeSound
    <2>3. CASE x = e
      <3>1. delivered[e] \in Nat /\ lost[e] \in 0..3 /\ deaths \in 0..2
        BY OutboxTyped DEF OutboxInv
      <3> QED BY <1>1, <1>3, <1>4, <2>1, <2>3, <3>1 DEF NoticeSound
    <2> QED BY <2>2, <2>3
  <1> QED BY <1>6, <1>7, <1>8 DEF OutboxInv

LEMMA SendNoticeFails ==
  ASSUME OutboxInv, NEW d \in Drainer, NEW e \in Event, Outbox!SendFails(d, e)
  PROVE  OutboxInv'
  <1>1. e \in DOMAIN drain[d] /\ ~drain[d][e].done /\ UNCHANGED <<rows, deaths>>
    BY DEF Outbox!SendFails
  <1> DEFINE n == drain[d][e].attempts + 1
             status == IF n >= 3 THEN "failed" ELSE "pending"
             c == Done(status, n, FALSE)
  <1>2. drain' = [drain EXCEPT ![d][e] = c]
    BY DEF Outbox!SendFails, Outbox!Written, Outbox!Counted, Done
  <1>3. n \in 0..3
    BY <1>1, NotDone
  <1>4. status \in {"pending", "sent", "failed"} /\ status # "sent" /\ (status = "pending" => n < 3)
    BY <1>3
  <1>5. CopySound(c) /\ ~c.out
    <2> HIDE DEF n, status
    <2> QED BY <1>3, <1>4, DoneSound
  <1> HIDE DEF c, status, n
  <1>6. delivered \in [Event -> Nat] /\ lost \in [Event -> 0..3]
    BY DEF OutboxInv, Outbox!TypeOK
  <1>7. delivered[e] <= lost[e] /\ delivered[e] \in Nat /\ lost[e] \in 0..3 /\ deaths \in 0..2 /\ lost[e] <= 1 + deaths
    BY <1>1, NotDone
  <1>8. CASE UNCHANGED <<delivered, lost>>
    <2>1. lost'[e] <= 1 + deaths /\ delivered'[e] <= 1 + lost'[e] /\ ~(delivered'[e] > lost'[e])
      BY <1>7, <1>8
    <2> QED BY <1>1, <1>2, <1>5, <1>6, <1>8, <2>1, WorksOnRow
  <1>9. CASE /\ lost[e] < 1
             /\ lost' = [lost EXCEPT ![e] = @ + 1]
             /\ delivered' = [delivered EXCEPT ![e] = @ + 1]
    <2>1. delivered'[e] = delivered[e] + 1 /\ delivered' \in [Event -> Nat]
          /\ \A x \in Event : x # e => delivered'[x] = delivered[x]
      BY <1>6, <1>9
    <2>2. lost'[e] = lost[e] + 1 /\ lost[e] + 1 \in 0..3
      BY <1>6, <1>7, <1>9
    <2>3. lost' \in [Event -> 0..3] /\ \A x \in Event : x # e => lost'[x] = lost[x]
      <3> DEFINE m == lost[e] + 1
      <3>1. lost' = [lost EXCEPT ![e] = m] /\ m \in 0..3
        BY <1>9, <2>2
      <3> HIDE DEF m
      <3> QED BY <1>6, <3>1
    <2>4. lost'[e] <= 1 + deaths /\ delivered'[e] <= 1 + lost'[e] /\ ~(delivered'[e] > lost'[e])
      BY <1>7, <1>9, <2>1, <2>2
    <2> QED BY <1>1, <1>2, <1>5, <2>1, <2>3, <2>4, WorksOnRow
  <1> QED BY <1>8, <1>9 DEF Outbox!SendFails

LEMMA DrainEnds ==
  ASSUME OutboxInv, NEW d \in Drainer, Outbox!EndDrain(d)
  PROVE  OutboxInv'
  <1> DEFINE locked == DOMAIN drain[d]
             Kept(e) == [status |-> drain[d][e].status, attempts |-> drain[d][e].attempts]
  <1>1. /\ rows' = [e \in Event |-> IF e \in locked THEN Kept(e) ELSE rows[e]]
        /\ drain' = [drain EXCEPT ![d] = Outbox!NoRows] /\ UNCHANGED <<delivered, lost, deaths>>
    BY DEF Outbox!EndDrain
  <1>2. /\ drain'[d] = Outbox!NoRows /\ DOMAIN drain' = Drainer
        /\ \A c \in Drainer : c # d => drain'[c] = drain[c]
    BY <1>1 DEF OutboxInv, LocksSound
  <1>3. DOMAIN Outbox!NoRows = {} /\ Outbox!NoRows \in [{} -> Outbox!Copy]
    BY DEF Outbox!NoRows
  <1>4. ASSUME NEW e \in locked, e \in Event
        PROVE  /\ Kept(e) \in Outbox!Row /\ Kept(e).status = drain[d][e].status
               /\ Kept(e).attempts = drain[d][e].attempts /\ CopySound(drain[d][e])
               /\ Kept(e).status \in {"absent", "pending"} => Kept(e).attempts < 3
    <2>1. CopySound(drain[d][e])
      BY <1>4, Unlocked
    <2> QED BY <2>1, CopyTyped DEF CopySound, Outbox!Row
  <1> HIDE DEF Kept
  <1>5. Outbox!TypeOK'
    <2>1. rows' \in [Event -> Outbox!Row]
      BY <1>1, <1>4 DEF OutboxInv, Outbox!TypeOK
    <2>2. delivered' \in [Event -> Nat] /\ lost' \in [Event -> 0..3] /\ deaths' \in 0..2
      BY <1>1 DEF OutboxInv, Outbox!TypeOK
    <2> QED BY <1>2, <1>3, <2>1, <2>2, OutboxTypedNext DEF OutboxInv
  <1>6. LocksSound'
    <2> SUFFICES ASSUME NEW b \in Drainer, NEW x \in Event, x \in DOMAIN drain'[b]
                 PROVE  /\ CopySound(drain'[b][x]) /\ rows'[x].status = "pending"
                        /\ \A a \in Drainer : x \in DOMAIN drain'[a] => a = b
      BY <1>2 DEF LocksSound
    <2>1. b # d /\ x \in DOMAIN drain[b]
      BY <1>2, <1>3
    <2>2. /\ CopySound(drain[b][x]) /\ rows[x].status = "pending"
          /\ \A a \in Drainer : x \in DOMAIN drain[a] => a = b
      BY <2>1, Unlocked
    <2>3. rows'[x] = rows[x]
      BY <1>1, <2>1, <2>2
    <2> QED BY <1>2, <1>3, <2>1, <2>2, <2>3
  <1>7. ASSUME NEW x \in Event PROVE NoticeSound(x)'
    <2>1. NoticeSound(x)
      BY DEF OutboxInv
    <2>2. CASE x \in locked
      <3>1. rows'[x] = Kept(x) /\ CopySound(drain[d][x])
        BY <1>1, <1>4, <2>2
      <3>2. GoneOut(x) <=> drain[d][x].out
        BY <2>2, Unlocked
      <3>3. rows'[x].status = "sent" <=> drain[d][x].out
        BY <3>1, <2>2, <1>4 DEF CopySound
      <3>4. \A c \in Drainer : x \notin DOMAIN drain'[c]
        BY <1>2, <1>3, <2>2, Unlocked
      <3>5. GoneOut(x)' <=> GoneOut(x)
        BY <3>2, <3>3, <3>4 DEF GoneOut
      <3> QED BY <1>1, <1>4, <2>1, <2>2, <3>1, <3>5 DEF NoticeSound
    <2>3. CASE x \notin locked
      <3>1. rows'[x] = rows[x]
        BY <1>1, <2>3
      <3>2. GoneOut(x)' <=> GoneOut(x)
        BY <1>2, <1>3, <2>3, <3>1 DEF GoneOut
      <3> QED BY <1>1, <2>1, <3>1, <3>2 DEF NoticeSound
    <2> QED BY <2>2, <2>3
  <1> QED BY <1>5, <1>6, <1>7 DEF OutboxInv

LEMMA DrainCut ==
  ASSUME OutboxInv, NEW d \in Drainer, Outbox!Cut(d)
  PROVE  OutboxInv'
  <1> DEFINE Vain(e) == e \in DOMAIN drain[d] /\ drain[d][e].out
  <1>1. /\ lost' = [e \in Event |-> IF Vain(e) THEN lost[e] + 1 ELSE lost[e]]
        /\ drain' = [drain EXCEPT ![d] = Outbox!NoRows] /\ UNCHANGED <<rows, delivered>>
        /\ deaths' = deaths + 1 /\ deaths < 2
    BY DEF Outbox!Cut
  <1>2. /\ drain'[d] = Outbox!NoRows /\ DOMAIN drain' = Drainer
        /\ \A c \in Drainer : c # d => drain'[c] = drain[c]
    BY <1>1 DEF OutboxInv, LocksSound
  <1>3. DOMAIN Outbox!NoRows = {} /\ Outbox!NoRows \in [{} -> Outbox!Copy]
    BY DEF Outbox!NoRows
  <1> HIDE DEF Vain
  <1>4. \A e \in Event : /\ lost'[e] = IF Vain(e) THEN lost[e] + 1 ELSE lost[e]
                         /\ lost'[e] \in 0..3 /\ lost'[e] <= 1 + deaths'
    <2> SUFFICES ASSUME NEW e \in Event PROVE /\ lost'[e] = IF Vain(e) THEN lost[e] + 1 ELSE lost[e]
                                              /\ lost'[e] \in 0..3 /\ lost'[e] <= 1 + deaths'
      OBVIOUS
    <2>1. lost[e] \in 0..3 /\ deaths \in 0..2 /\ lost[e] <= 1 + deaths
      BY OutboxTyped DEF OutboxInv, NoticeSound
    <2> QED BY <1>1, <2>1
  <1>5. Outbox!TypeOK'
    <2>1. lost' \in [Event -> 0..3]
      BY <1>1, <1>4
    <2>2. deaths' \in 0..2
      BY <1>1 DEF OutboxInv, Outbox!TypeOK
    <2>3. rows' \in [Event -> Outbox!Row] /\ delivered' \in [Event -> Nat]
      BY <1>1 DEF OutboxInv, Outbox!TypeOK
    <2> QED BY <1>2, <1>3, <2>1, <2>2, <2>3, OutboxTypedNext DEF OutboxInv
  <1>6. LocksSound'
    <2> SUFFICES ASSUME NEW b \in Drainer, NEW x \in Event, x \in DOMAIN drain'[b]
                 PROVE  /\ CopySound(drain'[b][x]) /\ rows'[x].status = "pending"
                        /\ \A a \in Drainer : x \in DOMAIN drain'[a] => a = b
      BY <1>2 DEF LocksSound
    <2>1. b # d /\ x \in DOMAIN drain[b]
      BY <1>2, <1>3
    <2>2. /\ CopySound(drain[b][x]) /\ rows[x].status = "pending"
          /\ \A a \in Drainer : x \in DOMAIN drain[a] => a = b
      BY <2>1, Unlocked
    <2> QED BY <1>1, <1>2, <1>3, <2>1, <2>2
  <1>7. ASSUME NEW x \in Event PROVE NoticeSound(x)'
    <2>1. NoticeSound(x) /\ lost[x] \in 0..3 /\ delivered[x] \in Nat
      BY OutboxTyped DEF OutboxInv
    <2>2. CASE Vain(x)
      <3>1. rows[x].status = "pending" /\ \A c \in Drainer : x \notin DOMAIN drain'[c]
        BY <1>2, <1>3, <2>2, Unlocked DEF Vain
      <3>2. ~GoneOut(x)'
        BY <1>1, <3>1 DEF GoneOut
      <3>3. lost'[x] = lost[x] + 1 /\ delivered'[x] = delivered[x] /\ lost'[x] <= 1 + deaths'
        BY <1>1, <1>4, <2>2
      <3> QED BY <1>1, <2>1, <3>1, <3>2, <3>3 DEF NoticeSound
    <2>3. CASE ~Vain(x)
      <3>1. GoneOut(x)' <=> GoneOut(x)
        BY <1>1, <1>2, <1>3, <2>3 DEF GoneOut, Vain
      <3>2. lost'[x] = lost[x] /\ lost'[x] <= 1 + deaths'
        BY <1>4, <2>3
      <3> QED BY <1>1, <2>1, <3>1, <3>2 DEF NoticeSound
    <2> QED BY <2>2, <2>3
  <1> QED BY <1>5, <1>6, <1>7 DEF OutboxInv

LEMMA OutboxStarts == ASSUME Outbox!Init PROVE OutboxInv
  <1>1. \A d \in Drainer : DOMAIN drain[d] = {} /\ drain[d] \in [{} -> Outbox!Copy]
    BY DEF Outbox!Init, Outbox!NoRows
  <1>2. Outbox!NoRow \in Outbox!Row /\ Outbox!NoRow.status = "absent" /\ Outbox!NoRow.attempts = 0
    BY DEF Outbox!NoRow, Outbox!Row, Outbox!Status
  <1>3. Outbox!TypeOK
    <2>1. rows \in [Event -> Outbox!Row] /\ delivered \in [Event -> Nat] /\ lost \in [Event -> 0..3] /\ deaths \in 0..2
      BY <1>2 DEF Outbox!Init
    <2>2. ASSUME NEW d \in Drainer PROVE \E locked \in SUBSET Event : drain[d] \in [locked -> Outbox!Copy]
      <3>1. drain[d] \in [{} -> Outbox!Copy] /\ {} \in SUBSET Event
        BY <1>1
      <3> QED BY <3>1, DrainOfType
    <2>3. 3 = 1 + 2
      OBVIOUS
    <2> QED BY <2>1, <2>2, <2>3 DEF Outbox!TypeOK
  <1>4. LocksSound
    BY <1>1 DEF LocksSound, Outbox!Init
  <1>5. ASSUME NEW e \in Event PROVE NoticeSound(e)
    <2>1. delivered[e] = 0 /\ lost[e] = 0 /\ deaths = 0 /\ rows[e] = Outbox!NoRow
      BY DEF Outbox!Init
    <2>2. ~GoneOut(e)
      BY <1>1, <1>2, <2>1 DEF GoneOut
    <2> QED BY <1>2, <2>1, <2>2 DEF NoticeSound
  <1> QED BY <1>3, <1>4, <1>5 DEF OutboxInv

LEMMA OutboxStep ==
  ASSUME OutboxInv, Outbox!Next \/ UNCHANGED outboxVars
  PROVE  OutboxInv'
  <1>1. CASE UNCHANGED outboxVars
    <2>1. UNCHANGED <<rows, delivered, drain, lost, deaths>>
      BY <1>1 DEF outboxVars
    <2> QED BY <2>1 DEF OutboxInv, Outbox!TypeOK, LocksSound, NoticeSound, GoneOut
  <1>2. ASSUME NEW d \in Drainer, Outbox!Work(d) PROVE OutboxInv'
    BY <1>2, ClaimsBatch, DrainEnds, SendsNotice, SendNoticeFails DEF Outbox!Work
  <1>3. CASE Outbox!Next
    BY <1>2, <1>3, QueuesNotice, DrainCut, RetriesNotice DEF Outbox!Next
  <1> QED BY <1>1, <1>3
-------------------------------------------------------------------------------
(* The operator's desk: the events *)

LEMMA EventTyped ==
  ASSUME FormsTyped
  PROVE  /\ Len(events) \in Nat /\ DOMAIN events = 1..Len(events)
         /\ \A i \in DOMAIN events :
              /\ events[i] \in Desk!EventRow /\ events[i].by \in Drainer /\ events[i].key \in Setting
              /\ events[i].state \in {"open", "kept", "undone"}
  <1>1. events \in Seq(Desk!EventRow)
    BY DEF FormsTyped
  <1>2. Len(events) \in Nat /\ DOMAIN events = 1..Len(events)
    BY <1>1, LenProperties
  <1>3. ASSUME NEW i \in DOMAIN events PROVE events[i] \in Desk!EventRow
    BY <1>1, <1>2, ElementOfSeq
  <1>4. \A e \in Desk!EventRow : e.by \in Drainer /\ e.key \in Setting /\ e.state \in {"open", "kept", "undone"}
    BY DEF Desk!EventRow, Setting
  <1> QED BY <1>2, <1>3, <1>4

LEMMA FormTyped ==
  ASSUME FormsTyped, NEW f \in Drainer
  PROVE  /\ form[f] \in FormRow /\ form[f].key \in Setting /\ form[f].value \in {"dev", "prod", "unset"}
         /\ form[f].holds \in BOOLEAN
         /\ form[f].at \in {"idle", "row", "event", "commit", "load"}
         /\ saved[form[f].key] \in {"dev", "prod", "unset"}
  BY DEF FormsTyped, FormRow, Desk!Map, Setting

\* What becomes of an event.
SettledEvent(e, f, outcome) ==
  IF e.by = f /\ e.state = "open" THEN [e EXCEPT !.state = outcome] ELSE e

LEMMA SettledEventTyped ==
  ASSUME NEW e \in Desk!EventRow, NEW f, NEW outcome \in {"kept", "undone"}
  PROVE  /\ SettledEvent(e, f, outcome) \in Desk!EventRow
         /\ SettledEvent(e, f, outcome).by = e.by /\ SettledEvent(e, f, outcome).key = e.key
         /\ SettledEvent(e, f, outcome).value = e.value
         /\ SettledEvent(e, f, outcome).state = IF e.by = f /\ Open(e) THEN outcome ELSE e.state
  BY DEF SettledEvent, Desk!EventRow, Open

LEMMA SettledEvents ==
  ASSUME FormsTyped, NEW f \in Drainer, NEW outcome \in {"kept", "undone"},
         events' = Desk!Settled(f, outcome)
  PROVE  /\ events' \in Seq(Desk!EventRow) /\ DOMAIN events' = DOMAIN events
         /\ \A i \in DOMAIN events :
              /\ events'[i].by = events[i].by /\ events'[i].key = events[i].key
              /\ events'[i].value = events[i].value
              /\ events'[i].state = IF events[i].by = f /\ Open(events[i]) THEN outcome ELSE events[i].state
  <1>1. events' = [i \in DOMAIN events |-> SettledEvent(events[i], f, outcome)]
    BY DEF Desk!Settled, SettledEvent
  <1>2. \A i \in DOMAIN events : events[i] \in Desk!EventRow
    BY EventTyped
  <1>3. \A i \in DOMAIN events :
          /\ SettledEvent(events[i], f, outcome) \in Desk!EventRow
          /\ SettledEvent(events[i], f, outcome).by = events[i].by
          /\ SettledEvent(events[i], f, outcome).key = events[i].key
          /\ SettledEvent(events[i], f, outcome).value = events[i].value
          /\ SettledEvent(events[i], f, outcome).state
               = IF events[i].by = f /\ Open(events[i]) THEN outcome ELSE events[i].state
    BY <1>2, SettledEventTyped
  <1>4. events' \in [1..Len(events) -> Desk!EventRow] /\ Len(events) \in Nat
    BY <1>1, <1>3, EventTyped
  <1>5. events' \in Seq(Desk!EventRow)
    BY <1>4, SeqDef
  <1> QED BY <1>1, <1>3, <1>5

\* The form f alone has moved.
FormAlone(f, forms) == forms \in [Drainer -> FormRow] /\ \A g \in Drainer : g # f => forms[g] = form[g]

LEMMA FormIdle == Desk!Idle \in FormRow /\ Desk!Idle.at = "idle" /\ ~Desk!Idle.holds
  BY DEF Desk!Idle, FormRow, Setting

LEMMA FormPut ==
  ASSUME FormsTyped, NEW f \in Drainer, NEW q \in FormRow, form' = [form EXCEPT ![f] = q]
  PROVE  FormAlone(f, form') /\ form'[f] = q
  BY DEF FormsTyped, FormAlone

\* A form outside its transaction, before and after.
LEMMA FormOutside ==
  ASSUME FormsInv, NEW f \in Drainer, FormAlone(f, form'), UNCHANGED <<saved, events, blind>>,
         ~Writes(form[f]), ~Writes(form'[f]), ~form'[f].holds
  PROVE  FormsInv'
  <1>1. FormsTyped'
    BY DEF FormsInv, FormsTyped, FormAlone
  <1>2. ASSUME NEW g \in Drainer PROVE HolderAlone(g)'
    <2>1. HolderAlone(g)
      BY DEF FormsInv
    <2> QED BY <2>1 DEF HolderAlone, FormAlone
  <1>3. ASSUME NEW g \in Drainer PROVE HasEvent(g)'
    <2>1. HasEvent(g)
      BY DEF FormsInv
    <2> QED BY <2>1 DEF HasEvent, FormAlone, Writes
  <1>4. \A i \in DOMAIN events : Open(events[i]) => events[i].by # f /\ events[i].by \in Drainer
    BY EventTyped DEF FormsInv, OpenEvent, Writes
  <1>5. ASSUME NEW i \in DOMAIN events PROVE OpenEvent(i)'
    <2>1. OpenEvent(i)
      BY DEF FormsInv
    <2> QED BY <1>4, <2>1 DEF OpenEvent, FormAlone
  <1>6. HeldLast'
    BY <1>4 DEF FormsInv, HeldLast, FormAlone
  <1>7. Desk!TrailTells'
    BY DEF FormsInv, Desk!TrailTells
  <1> QED BY <1>1, <1>2, <1>3, <1>5, <1>6, <1>7 DEF FormsInv

LEMMA SubmitsForm ==
  ASSUME FormsInv, NEW f \in Drainer, NEW k \in Setting, NEW v \in {"dev", "prod", "unset"},
         Desk!Submit(f, k, v)
  PROVE  FormsInv'
  <1> DEFINE q == [at |-> "row", key |-> k, value |-> v, holds |-> FALSE]
  <1>1. q \in FormRow /\ ~Writes(q) /\ ~q.holds
    BY DEF FormRow, Writes
  <1>2. form' = [form EXCEPT ![f] = q] /\ form[f].at = "idle" /\ UNCHANGED <<saved, events, blind>>
    BY DEF Desk!Submit
  <1> HIDE DEF q
  <1>3. FormAlone(f, form') /\ form'[f] = q
    BY <1>1, <1>2, FormPut DEF FormsInv
  <1> QED BY <1>1, <1>2, <1>3, FormOutside DEF Writes

LEMMA BeginsRefresh ==
  ASSUME FormsInv, NEW f \in Drainer, Desk!BeginRefresh(f)
  PROVE  FormsInv'
  <1>1. form' = [form EXCEPT ![f] = Desk!Idle] /\ form[f].at = "load" /\ UNCHANGED <<saved, events, blind>>
    BY DEF Desk!BeginRefresh
  <1>2. FormAlone(f, form') /\ form'[f] = Desk!Idle
    BY <1>1, FormIdle, FormPut DEF FormsInv
  <1> QED BY <1>1, <1>2, FormIdle, FormOutside DEF Writes

LEMMA WritesRow ==
  ASSUME FormsInv, NEW f \in Drainer, Desk!WriteRow(f)
  PROVE  FormsInv'
  <1> DEFINE k == form[f].key
             nothing == form[f].value = "unset" /\ saved[k] = "unset"
  <1>1. /\ form[f].at = "row" /\ (nothing \/ ~Desk!Held(k)) /\ UNCHANGED <<saved, events>>
        /\ form' = [form EXCEPT ![f].at = "event", ![f].holds = ~nothing]
    BY DEF Desk!WriteRow
  <1>2. blind' = IF IF nothing THEN Desk!Held(k) ELSE Desk!ResetUnderWay(k) THEN blind \cup {k} ELSE blind
    BY DEF Desk!WriteRow
  <1>3. k \in Setting /\ FormsTyped
    BY FormTyped DEF FormsInv
  <1>4. PICK b \in BOOLEAN : b <=> ~nothing
    OBVIOUS
  <1>5. /\ FormAlone(f, form') /\ form'[f].at = "event" /\ form'[f].key = k /\ form'[f].value = form[f].value
        /\ form'[f].holds = b
    <2>1. form' = [form EXCEPT ![f].at = "event", ![f].holds = b]
      BY <1>1, <1>4
    <2> QED BY <2>1, <1>3 DEF FormsTyped, FormRow, FormAlone
  <1>6. blind \subseteq blind' /\ blind' \subseteq Setting
    BY <1>2, <1>3 DEF FormsTyped
  <1>7. nothing /\ k \notin blind' => \A g \in Drainer : ~(form[g].holds /\ form[g].key = k)
    BY <1>2 DEF Desk!Held
  <1>8. ~nothing => \A g \in Drainer : ~(form[g].holds /\ form[g].key = k)
    BY <1>1 DEF Desk!Held
  <1>9. ~nothing /\ k \notin blind' => \A g \in Drainer : ~(Writes(form[g]) /\ form[g].key = k)
    BY <1>2, <1>8 DEF Desk!ResetUnderWay, Writes
  <1> HIDE DEF k
  <1>10. FormsTyped'
    BY <1>1, <1>3, <1>5, <1>6 DEF FormsTyped, FormAlone
  <1>11. ASSUME NEW g \in Drainer PROVE HolderAlone(g)'
    <2>1. HolderAlone(g)
      BY DEF FormsInv
    <2>2. CASE g = f
      <3>1. CASE nothing
        <4>1. ~form'[f].holds /\ form'[f].value = "unset" /\ saved'[form'[f].key] = "unset" /\ Writes(form'[f])
          BY <1>1, <1>4, <1>5, <3>1 DEF Writes
        <4> QED BY <2>2, <4>1 DEF HolderAlone
      <3>2. CASE ~nothing
        <4>1. form'[f].holds /\ Writes(form'[f]) /\ form'[f].key = k
          BY <1>4, <1>5, <3>2 DEF Writes
        <4>2. k \notin blind' => \A h \in Drainer : Writes(form'[h]) /\ form'[h].key = k => h = f
          BY <1>5, <1>9, <3>2 DEF FormAlone
        <4> QED BY <2>2, <4>1, <4>2 DEF HolderAlone
      <3> QED BY <3>1, <3>2
    <2>3. CASE g # f
      <3>1. form'[g] = form[g]
        BY <1>5, <2>3 DEF FormAlone
      <3>2. form[g].holds /\ form[g].key = k => k \in blind'
        BY <1>7, <1>8
      <3>3. CASE form[g].holds
        <4>1. form[g].key = k => k \in blind'
          BY <3>2, <3>3
        <4>2. Writes(form[g])
          BY <2>1, <3>3 DEF HolderAlone
        <4>3. form[g].key \notin blind' => \A h \in Drainer : Writes(form'[h]) /\ form'[h].key = form[g].key => h = g
          BY <1>5, <1>6, <2>1, <3>3, <4>1, <4>2 DEF HolderAlone, FormAlone
        <4> QED BY <3>1, <3>3, <4>2, <4>3 DEF HolderAlone
      <3>4. CASE ~form[g].holds
        BY <1>1, <1>6, <2>1, <3>1, <3>4 DEF HolderAlone
      <3> QED BY <3>3, <3>4
    <2> QED BY <2>2, <2>3
  <1>12. ASSUME NEW g \in Drainer PROVE HasEvent(g)'
    <2>1. HasEvent(g)
      BY DEF FormsInv
    <2> QED BY <1>1, <1>5, <2>1 DEF HasEvent, FormAlone
  <1>13. \A i \in DOMAIN events : Open(events[i]) => events[i].by # f /\ events[i].by \in Drainer
    BY <1>1, <1>3, EventTyped DEF FormsInv, OpenEvent
  <1>14. ASSUME NEW i \in DOMAIN events PROVE OpenEvent(i)'
    <2>1. OpenEvent(i)
      BY DEF FormsInv
    <2> QED BY <1>1, <1>5, <1>13, <2>1 DEF OpenEvent, FormAlone
  <1>15. HeldLast'
    BY <1>1, <1>5, <1>6, <1>13 DEF FormsInv, HeldLast, FormAlone
  <1>16. Desk!TrailTells'
    BY <1>1, <1>6 DEF FormsInv, Desk!TrailTells
  <1> QED BY <1>1, <1>10, <1>11, <1>12, <1>14, <1>15, <1>16 DEF FormsInv
LEMMA ToldTyped ==
  ASSUME NEW k \in Setting, NEW v \in {"dev", "prod", "unset"}
  PROVE  /\ Desk!Told(k, v) \in {"dev", "prod", "unset", "secret"}
         /\ Desk!Told(k, "unset") = "unset"
  BY DEF Desk!Told

LEMMA WritesEvent ==
  ASSUME FormsInv, NEW f \in Drainer, Desk!WriteEvent(f)
  PROVE  FormsInv'
  <1> DEFINE n == Len(events) + 1
             e == [by |-> f, key |-> form[f].key, value |-> Desk!Told(form[f].key, form[f].value), state |-> "open"]
  <1>1. /\ form[f].at = "event" /\ form' = [form EXCEPT ![f].at = "commit"]
        /\ events' = Append(events, e) /\ UNCHANGED <<saved, blind>>
    BY DEF Desk!WriteEvent
  <1>2. FormsTyped /\ form[f].key \in Setting /\ form[f].value \in {"dev", "prod", "unset"}
    BY FormTyped DEF FormsInv
  <1>3. e \in Desk!EventRow /\ e.by = f /\ e.key = form[f].key
        /\ e.value = Desk!Told(form[f].key, form[f].value) /\ e.state = "open"
    BY <1>2, ToldTyped DEF Desk!EventRow, Setting
  <1> HIDE DEF e
  <1>4. /\ FormAlone(f, form') /\ form'[f].at = "commit" /\ form'[f].key = form[f].key
        /\ form'[f].value = form[f].value
    BY <1>1, <1>2 DEF FormsTyped, FormRow, FormAlone
  <1>5. form'[f].holds = form[f].holds
    BY <1>1, <1>2 DEF FormsTyped, FormRow
  <1>6. Len(events) \in Nat /\ DOMAIN events = 1..Len(events)
    BY <1>2, EventTyped
  <1>7. /\ events' \in Seq(Desk!EventRow) /\ Len(events') = n /\ events'[n] = e
        /\ \A i \in DOMAIN events : events'[i] = events[i]
    BY <1>1, <1>2, <1>3, <1>6, AppendProperties DEF FormsTyped
  <1>8. DOMAIN events' = DOMAIN events \cup {n} /\ n \notin DOMAIN events /\ \A j \in DOMAIN events : j < n
    <2>1. DOMAIN events' = 1..n
      BY <1>7, LenProperties
    <2> QED BY <1>6, <2>1
  <1> HIDE DEF n
  <1>9. FormsTyped'
    BY <1>1, <1>2, <1>4, <1>7 DEF FormsTyped, FormAlone
  <1>10. ASSUME NEW g \in Drainer PROVE HolderAlone(g)'
    <2>1. HolderAlone(g)
      BY DEF FormsInv
    <2>2. \A h \in Drainer : /\ Writes(form'[h]) <=> Writes(form[h])
                             /\ form'[h].key = form[h].key /\ form'[h].value = form[h].value
      BY <1>1, <1>4 DEF Writes, FormAlone
    <2>3. \A h \in Drainer : form'[h].holds = form[h].holds
      BY <1>4, <1>5 DEF FormAlone
    <2> QED BY <1>1, <2>1, <2>2, <2>3 DEF HolderAlone
  <1>11. ASSUME NEW g \in Drainer PROVE HasEvent(g)'
    <2>1. HasEvent(g)
      BY DEF FormsInv
    <2>2. CASE g = f
      BY <1>3, <1>7, <1>8, <2>2 DEF HasEvent, Open
    <2>3. CASE g # f
      BY <1>4, <1>7, <1>8, <2>1, <2>3 DEF HasEvent, FormAlone
    <2> QED BY <2>2, <2>3
  <1>12. \A i \in DOMAIN events : Open(events[i]) => events[i].by # f /\ events[i].by \in Drainer
    BY <1>1, <1>2, EventTyped DEF FormsInv, OpenEvent
  <1>13. ASSUME NEW i \in DOMAIN events' PROVE OpenEvent(i)'
    <2>1. CASE i = n
      <3>1. \A j \in DOMAIN events' : Open(events'[j]) /\ events'[j].by = f => j = n
        BY <1>7, <1>8, <1>12
      <3> QED BY <1>3, <1>4, <1>7, <2>1, <3>1 DEF OpenEvent
    <2>2. CASE i # n
      <3>1. i \in DOMAIN events /\ OpenEvent(i) /\ events'[i] = events[i]
        BY <1>7, <1>8, <2>2 DEF FormsInv
      <3>2. Open(events[i]) => form'[events[i].by] = form[events[i].by]
        BY <1>4, <1>12, <3>1 DEF FormAlone
      <3>3. Open(events[i]) => \A j \in DOMAIN events' : Open(events'[j]) /\ events'[j].by = events[i].by => j = i
        BY <1>3, <1>7, <1>8, <1>12, <3>1 DEF OpenEvent
      <3> QED BY <3>1, <3>2, <3>3 DEF OpenEvent
    <2> QED BY <2>1, <2>2
  <1>14. HeldLast'
    <2> SUFFICES ASSUME NEW i \in DOMAIN events', NEW j \in DOMAIN events',
                        Open(events'[i]), form'[events'[i].by].holds, events'[i].key \notin blind,
                        events'[j].state = "kept", events'[j].key = events'[i].key
                 PROVE  j < i
      BY <1>1 DEF HeldLast
    <2>1. j \in DOMAIN events /\ events'[j] = events[j]
      BY <1>3, <1>7, <1>8
    <2>2. CASE i = n
      BY <1>8, <2>1, <2>2
    <2>3. CASE i # n
      <3>1. i \in DOMAIN events /\ events'[i] = events[i]
        BY <1>7, <1>8, <2>3
      <3>2. form'[events[i].by] = form[events[i].by]
        BY <1>4, <1>12, <3>1 DEF FormAlone
      <3> QED BY <2>1, <3>1, <3>2 DEF FormsInv, HeldLast
    <2> QED BY <2>2, <2>3
  <1>15. Desk!TrailTells'
    <2>1. \A i \in DOMAIN events' : events'[i].state = "kept" => i \in DOMAIN events
      BY <1>3, <1>7, <1>8
    <2>2. \A i \in DOMAIN events : i \in DOMAIN events' /\ events'[i] = events[i]
      BY <1>7, <1>8
    <2> QED BY <1>1, <2>1, <2>2 DEF FormsInv, Desk!TrailTells
  <1> QED BY <1>9, <1>10, <1>11, <1>13, <1>14, <1>15 DEF FormsInv

LEMMA RollsBack ==
  ASSUME FormsInv, NEW f \in Drainer, Desk!RollBack(f)
  PROVE  FormsInv'
  <1>1. form' = [form EXCEPT ![f] = Desk!Idle] /\ events' = Desk!Settled(f, "undone") /\ UNCHANGED <<saved, blind>>
    BY DEF Desk!RollBack, Desk!Undone
  <1>2. FormsTyped
    BY DEF FormsInv
  <1>3. FormAlone(f, form') /\ form'[f] = Desk!Idle
    BY <1>1, <1>2, FormIdle, FormPut
  <1>4. ~Writes(form'[f]) /\ ~form'[f].holds /\ form'[f].at # "commit"
    BY <1>3, FormIdle DEF Writes
  <1>5. /\ events' \in Seq(Desk!EventRow) /\ DOMAIN events' = DOMAIN events
        /\ \A i \in DOMAIN events :
              /\ events'[i].by = events[i].by /\ events'[i].key = events[i].key
              /\ events'[i].value = events[i].value
              /\ events'[i].state = IF events[i].by = f /\ Open(events[i]) THEN "undone" ELSE events[i].state
    BY <1>1, <1>2, SettledEvents
  <1>6. \A i \in DOMAIN events :
          /\ Open(events'[i]) <=> Open(events[i]) /\ events[i].by # f
          /\ events'[i].state = "kept" <=> events[i].state = "kept"
          /\ events[i].by \in Drainer
    BY <1>2, <1>5, EventTyped DEF Open
  <1>7. FormsTyped'
    BY <1>1, <1>2, <1>3, <1>5 DEF FormsTyped, FormAlone
  <1>8. ASSUME NEW g \in Drainer PROVE HolderAlone(g)'
    <2>1. HolderAlone(g)
      BY DEF FormsInv
    <2> QED BY <1>1, <1>3, <1>4, <2>1 DEF HolderAlone, FormAlone
  <1>9. ASSUME NEW g \in Drainer PROVE HasEvent(g)'
    <2>1. HasEvent(g)
      BY DEF FormsInv
    <2> QED BY <1>3, <1>4, <1>5, <1>6, <2>1 DEF HasEvent, FormAlone
  <1>10. ASSUME NEW i \in DOMAIN events PROVE OpenEvent(i)'
    <2>1. OpenEvent(i)
      BY DEF FormsInv
    <2>2. Open(events'[i]) => Open(events[i]) /\ form'[events[i].by] = form[events[i].by]
      BY <1>3, <1>6 DEF FormAlone
    <2> QED BY <1>5, <1>6, <2>1, <2>2 DEF OpenEvent
  <1>11. HeldLast'
    <2> SUFFICES ASSUME NEW i \in DOMAIN events, NEW j \in DOMAIN events,
                        Open(events'[i]), form'[events'[i].by].holds, events'[i].key \notin blind,
                        events'[j].state = "kept", events'[j].key = events'[i].key
                 PROVE  j < i
      BY <1>1, <1>5 DEF HeldLast
    <2>1. Open(events[i]) /\ form'[events[i].by] = form[events[i].by]
      BY <1>3, <1>6 DEF FormAlone
    <2> QED BY <1>5, <1>6, <2>1 DEF FormsInv, HeldLast
  <1>12. Desk!TrailTells'
    BY <1>1, <1>5, <1>6 DEF FormsInv, Desk!TrailTells
  <1> QED BY <1>5, <1>7, <1>8, <1>9, <1>10, <1>11, <1>12 DEF FormsInv

LEMMA CommitsForm ==
  ASSUME FormsInv, NEW f \in Drainer, Desk!Commit(f)
  PROVE  FormsInv'
  <1> DEFINE k == form[f].key
             v == form[f].value
  <1>1. /\ form[f].at = "commit" /\ events' = Desk!Settled(f, "kept") /\ UNCHANGED blind
        /\ form' = [form EXCEPT ![f].at = "load", ![f].holds = FALSE]
        /\ saved' = IF form[f].holds THEN [saved EXCEPT ![k] = v] ELSE saved
    BY DEF Desk!Commit
  <1>2. FormsTyped /\ k \in Setting /\ v \in {"dev", "prod", "unset"}
    BY FormTyped DEF FormsInv
  <1> HIDE DEF v
  <1>3. /\ FormAlone(f, form') /\ form'[f].at = "load" /\ ~form'[f].holds
    BY <1>1, <1>2 DEF FormsTyped, FormRow, FormAlone
  <1>4. ~Writes(form'[f]) /\ Writes(form[f])
    BY <1>1, <1>3 DEF Writes
  <1>5. /\ events' \in Seq(Desk!EventRow) /\ DOMAIN events' = DOMAIN events
        /\ \A i \in DOMAIN events :
              /\ events'[i].by = events[i].by /\ events'[i].key = events[i].key
              /\ events'[i].value = events[i].value
              /\ events'[i].state = IF events[i].by = f /\ Open(events[i]) THEN "kept" ELSE events[i].state
    BY <1>1, <1>2, SettledEvents
  <1>6. \A i \in DOMAIN events :
          /\ Open(events'[i]) <=> Open(events[i]) /\ events[i].by # f
          /\ events[i].by \in Drainer
    BY <1>2, <1>5, EventTyped DEF Open
  <1>7. PICK e \in DOMAIN events : Open(events[e]) /\ events[e].by = f
    BY <1>1 DEF FormsInv, HasEvent
  <1>8. /\ events[e].key = k /\ events[e].value = Desk!Told(k, v)
        /\ \A i \in DOMAIN events : Open(events[i]) /\ events[i].by = f => i = e
    BY <1>7 DEF FormsInv, OpenEvent, v
  <1>9. \A i \in DOMAIN events : events'[i].state = "kept" <=> events[i].state = "kept" \/ i = e
    BY <1>5, <1>7, <1>8 DEF Open
  <1>10. saved' \in Desk!Map /\ \A x \in Setting : x # k => saved'[x] = saved[x]
    BY <1>1, <1>2 DEF FormsTyped, Desk!Map, Setting
  <1>11. form[f].holds => saved'[k] = v
    BY <1>1, <1>2 DEF FormsTyped, Desk!Map, Setting
  <1>12. HolderAlone(f)
    BY DEF FormsInv
  <1>13. ~form[f].holds /\ k \notin blind => v = "unset" /\ saved[k] = "unset" /\ saved' = saved
    BY <1>1, <1>4, <1>12 DEF HolderAlone, v
  <1>14. form[f].holds /\ k \notin blind => \A g \in Drainer : Writes(form[g]) /\ form[g].key = k => g = f
    BY <1>4, <1>12 DEF HolderAlone
  <1> HIDE DEF k
  <1>15. FormsTyped'
    BY <1>1, <1>2, <1>3, <1>5, <1>10 DEF FormsTyped, FormAlone
  <1>16. ASSUME NEW g \in Drainer PROVE HolderAlone(g)'
    <2>1. HolderAlone(g)
      BY DEF FormsInv
    <2>2. CASE g = f
      BY <1>3, <1>4, <2>2 DEF HolderAlone
    <2>3. CASE g # f
      <3>1. form'[g] = form[g] /\ form[g].key \in Setting
        BY <1>2, <1>3, <2>3, FormTyped DEF FormAlone
      <3>2. CASE form[g].holds
        BY <1>1, <1>3, <1>4, <2>1, <3>1, <3>2 DEF HolderAlone, FormAlone
      <3>3. CASE ~form[g].holds
        <4>1. Writes(form[g]) /\ form[g].key \notin blind => form[g].value = "unset" /\ saved[form[g].key] = "unset"
          BY <2>1, <3>3 DEF HolderAlone
        <4>2. Writes(form[g]) /\ form[g].key \notin blind => saved'[form[g].key] = saved[form[g].key]
          <5>1. CASE form[f].holds
            BY <1>10, <1>14, <2>3, <3>1, <5>1
          <5>2. CASE ~form[f].holds
            BY <1>1, <5>2
          <5> QED BY <5>1, <5>2
        <4> QED BY <1>1, <3>1, <3>3, <4>1, <4>2 DEF HolderAlone
      <3> QED BY <3>2, <3>3
    <2> QED BY <2>2, <2>3
  <1>17. ASSUME NEW g \in Drainer PROVE HasEvent(g)'
    <2>1. HasEvent(g)
      BY DEF FormsInv
    <2> QED BY <1>3, <1>5, <1>6, <2>1 DEF HasEvent, FormAlone
  <1>18. ASSUME NEW i \in DOMAIN events PROVE OpenEvent(i)'
    <2>1. OpenEvent(i)
      BY DEF FormsInv
    <2>2. Open(events'[i]) => Open(events[i]) /\ form'[events[i].by] = form[events[i].by]
      BY <1>3, <1>6 DEF FormAlone
    <2> QED BY <1>5, <1>6, <2>1, <2>2 DEF OpenEvent
  <1>19. HeldLast'
    <2> SUFFICES ASSUME NEW i \in DOMAIN events, NEW j \in DOMAIN events,
                        Open(events'[i]), form'[events'[i].by].holds, events'[i].key \notin blind,
                        events'[j].state = "kept", events'[j].key = events'[i].key
                 PROVE  j < i
      BY <1>1, <1>5 DEF HeldLast
    <2>1. Open(events[i]) /\ form'[events[i].by] = form[events[i].by] /\ events[i].by # f /\ events[i].by \in Drainer
      BY <1>3, <1>6 DEF FormAlone
    <2>2. CASE events[j].state = "kept"
      BY <1>5, <2>1, <2>2 DEF FormsInv, HeldLast
    <2>3. CASE j = e
      <3>1. events[i].key = k /\ form[events[i].by].key = k /\ Writes(form[events[i].by])
        BY <1>5, <1>8, <2>1, <2>3 DEF FormsInv, OpenEvent, Writes
      <3>2. HolderAlone(events[i].by) /\ form[events[i].by].holds
        BY <1>5, <2>1 DEF FormsInv
      <3>3. k \notin blind
        BY <1>5, <3>1
      <3>4. f = events[i].by
        BY <1>4, <3>1, <3>2, <3>3 DEF HolderAlone, k
      <3> QED BY <2>1, <3>4
    <2> QED BY <1>9, <2>2, <2>3
  <1>20. Desk!TrailTells'
    <2> SUFFICES ASSUME NEW x \in Setting \ blind, NEW i \in DOMAIN events, events'[i].state = "kept",
                        events'[i].key = x,
                        \A j \in DOMAIN events : events'[j].state = "kept" /\ events'[j].key = x => j <= i
                 PROVE  events'[i].value = Desk!Told(x, saved'[x])
      BY <1>1, <1>5 DEF Desk!TrailTells, Setting
    <2>1. events[i].state = "kept" => events[i].value = Desk!Told(x, saved[x])
      BY <1>5, <1>9 DEF FormsInv, Desk!TrailTells, Setting
    <2>2. CASE x # k
      <3>1. i # e
        BY <1>5, <1>8, <2>2
      <3> QED BY <1>5, <1>9, <1>10, <2>1, <2>2, <3>1
    <2>3. CASE x = k /\ ~form[f].holds
      <3>1. v = "unset" /\ saved[k] = "unset" /\ saved' = saved
        BY <1>13, <2>3
      <3> QED BY <1>5, <1>8, <1>9, <2>1, <2>3, <3>1
    <2>4. CASE x = k /\ form[f].holds
      <3>1. events'[e].state = "kept" /\ events'[e].key = x
        BY <1>5, <1>8, <1>9, <2>4
      <3>2. e <= i
        BY <3>1
      <3>3. i = e
        <4>1. CASE events[i].state = "kept"
          <5>1. i < e
            BY <1>5, <1>7, <1>8, <2>4, <4>1 DEF FormsInv, HeldLast
          <5>2. i \in 1..Len(events) /\ e \in 1..Len(events) /\ Len(events) \in Nat
            BY <1>2, EventTyped
          <5> QED BY <3>2, <5>1, <5>2
        <4> QED BY <1>9, <4>1
      <3> QED BY <1>5, <1>8, <1>11, <2>4, <3>3
    <2> QED BY <2>2, <2>3, <2>4
  <1> QED BY <1>5, <1>15, <1>16, <1>17, <1>18, <1>19, <1>20 DEF FormsInv
-------------------------------------------------------------------------------
(* The operator's desk: the snapshots, the guesses, and the desk as a whole *)

LEMMA FormsStay == ASSUME FormsInv, UNCHANGED <<saved, events, form, blind>> PROVE FormsInv'
  <1>1. FormsTyped'
    BY DEF FormsInv, FormsTyped
  <1>2. \A f \in Drainer : HolderAlone(f)'
    <2>1. \A f \in Drainer : HolderAlone(f)
      BY DEF FormsInv
    <2> QED BY <2>1 DEF HolderAlone
  <1>3. \A f \in Drainer : HasEvent(f)'
    <2>1. \A f \in Drainer : HasEvent(f)
      BY DEF FormsInv
    <2> QED BY <2>1 DEF HasEvent
  <1>4. \A i \in DOMAIN events' : OpenEvent(i)'
    <2>1. \A i \in DOMAIN events : OpenEvent(i)
      BY DEF FormsInv
    <2> QED BY <2>1 DEF OpenEvent
  <1>5. HeldLast'
    BY DEF FormsInv, HeldLast
  <1>6. Desk!TrailTells'
    BY DEF FormsInv, Desk!TrailTells
  <1> QED BY <1>1, <1>2, <1>3, <1>4, <1>5, <1>6 DEF FormsInv

LEMMA ServersStay ==
  ASSUME ServersInv, UNCHANGED <<saved, past, snapshot, ready, loads>> PROVE ServersInv'
  BY DEF ServersInv

LEMMA SignInStays == ASSUME SignInInv, UNCHANGED <<guess, failures, signedIn>> PROVE SignInInv'
  BY DEF SignInInv, Guessing

LEMMA CommitKeepsServers ==
  ASSUME FormsInv, ServersInv, NEW f \in Drainer, Desk!Commit(f)
  PROVE  ServersInv'
  <1>1. /\ saved' = IF form[f].holds THEN [saved EXCEPT ![form[f].key] = form[f].value] ELSE saved
        /\ past' = past \cup {saved'} /\ UNCHANGED <<snapshot, ready, loads>>
    BY DEF Desk!Commit
  <1>2. saved' \in Desk!Map
    BY <1>1, FormTyped DEF FormsInv, FormsTyped, Desk!Map, Setting
  <1> QED BY <1>1, <1>2 DEF ServersInv

LEMMA BeginRefreshKeepsServers ==
  ASSUME FormsInv, ServersInv, NEW f \in Drainer, Desk!BeginRefresh(f)
  PROVE  ServersInv'
  <1>1. loads' = [loads EXCEPT !["panel"] = loads["panel"] \cup {saved}] /\ UNCHANGED <<saved, past, snapshot, ready>>
    BY DEF Desk!BeginRefresh
  <1>2. loads["panel"] \cup {saved} \subseteq past /\ past \subseteq Desk!Map
    BY DEF ServersInv
  <1>3. loads' \in [{"panel"} -> SUBSET Desk!Map] /\ loads'["panel"] \subseteq past
    BY <1>1, <1>2 DEF ServersInv
  <1> QED BY <1>1, <1>3 DEF ServersInv

LEMMA TicksServer == ASSUME ServersInv, NEW s \in {"panel"}, Desk!Tick(s) PROVE ServersInv'
  <1>1. loads' = [loads EXCEPT !["panel"] = loads["panel"] \cup {saved}] /\ UNCHANGED <<saved, past, snapshot, ready>>
    BY DEF Desk!Tick
  <1>2. loads["panel"] \cup {saved} \subseteq past /\ past \subseteq Desk!Map
    BY DEF ServersInv
  <1>3. loads' \in [{"panel"} -> SUBSET Desk!Map] /\ loads'["panel"] \subseteq past
    BY <1>1, <1>2 DEF ServersInv
  <1> QED BY <1>1, <1>3 DEF ServersInv

LEMMA LoadsServer ==
  ASSUME ServersInv, NEW s \in {"panel"}, NEW m \in loads[s], Desk!Loaded(s, m)
  PROVE  ServersInv'
  <1>1. /\ loads' = [loads EXCEPT !["panel"] = loads["panel"] \ {m}] /\ UNCHANGED <<saved, past>>
        /\ snapshot' = [snapshot EXCEPT !["panel"] = m] /\ ready' = [ready EXCEPT !["panel"] = TRUE]
    BY DEF Desk!Loaded
  <1>2. m \in past /\ m \in Desk!Map /\ loads["panel"] \ {m} \subseteq past
    BY DEF ServersInv
  <1>3. loads' \in [{"panel"} -> SUBSET Desk!Map] /\ loads'["panel"] \subseteq past
    BY <1>1, <1>2 DEF ServersInv
  <1>4. snapshot' \in [{"panel"} -> Desk!Map] /\ snapshot'["panel"] = m /\ ready' \in [{"panel"} -> BOOLEAN]
    BY <1>1, <1>2 DEF ServersInv
  <1> QED BY <1>1, <1>2, <1>3, <1>4 DEF ServersInv

LEMMA LoadFailsServer ==
  ASSUME ServersInv, NEW s \in {"panel"}, NEW m \in loads[s], Desk!LoadFails(s, m)
  PROVE  ServersInv'
  <1>1. /\ loads' = [loads EXCEPT !["panel"] = loads["panel"] \ {m}] /\ UNCHANGED <<saved, past, ready>>
        /\ snapshot' = [snapshot EXCEPT !["panel"] = snapshot["panel"]]
    BY DEF Desk!LoadFails, Desk!LastGood
  <1>2. loads["panel"] \ {m} \subseteq past
    BY DEF ServersInv
  <1>3. loads' \in [{"panel"} -> SUBSET Desk!Map] /\ loads'["panel"] \subseteq past
    BY <1>1, <1>2 DEF ServersInv
  <1>4. snapshot' \in [{"panel"} -> Desk!Map] /\ snapshot'["panel"] = snapshot["panel"]
    BY <1>1 DEF ServersInv
  <1> QED BY <1>1, <1>3, <1>4 DEF ServersInv

LEMMA RestartsServer == ASSUME ServersInv, NEW s \in {"panel"}, Desk!Restart(s) PROVE ServersInv'
  <1> DEFINE none == [k \in Setting |-> "unset"]
  <1>1. /\ loads' = [loads EXCEPT !["panel"] = {}] /\ UNCHANGED <<saved, past>>
        /\ ready' = [ready EXCEPT !["panel"] = FALSE] /\ snapshot' = [snapshot EXCEPT !["panel"] = none]
    BY DEF Desk!Restart, Setting
  <1>2. none \in Desk!Map
    BY DEF Desk!Map, Setting
  <1> HIDE DEF none
  <1>3. loads' \in [{"panel"} -> SUBSET Desk!Map] /\ loads'["panel"] = {}
    BY <1>1 DEF ServersInv
  <1>4. snapshot' \in [{"panel"} -> Desk!Map] /\ ready' \in [{"panel"} -> BOOLEAN] /\ ~ready'["panel"]
    BY <1>1, <1>2 DEF ServersInv
  <1> QED BY <1>1, <1>3, <1>4 DEF ServersInv

LEMMA GuessFinite ==
  ASSUME SignInInv
  PROVE  /\ IsFiniteSet(Guessing) /\ Cardinality(Guessing) \in Nat
         /\ Cardinality(Guessing) <= Cardinality(Worker) /\ Cardinality(Worker) \in Nat
  <1>1. Guessing \subseteq Worker
    BY DEF Guessing
  <1> QED BY <1>1, WorkerAssumption, FS_Subset, FS_CardinalityType

LEMMA TriesPassword == ASSUME SignInInv, NEW g \in Worker, Desk!TryPassword(g) PROVE SignInInv'
  <1>1. /\ guess[g] = "idle" /\ UNCHANGED <<failures, signedIn>>
        /\ guess' = IF failures >= 1 THEN guess ELSE [guess EXCEPT ![g] = "verify"]
    BY DEF Desk!TryPassword, Desk!LockedOut
  <1>2. CASE failures >= 1
    BY <1>1, <1>2, SignInStays
  <1>3. CASE ~(failures >= 1)
    <2>1. failures = 0
      BY <1>3 DEF SignInInv
    <2>2. guess' \in [Worker -> {"idle", "verify"}]
      BY <1>1, <1>3 DEF SignInInv
    <2>3. Guessing' \subseteq Worker
      BY DEF Guessing
    <2>4. Cardinality(Guessing') \in Nat /\ Cardinality(Guessing') <= Cardinality(Worker) /\ Cardinality(Worker) \in Nat
      BY <2>3, WorkerAssumption, FS_Subset, FS_CardinalityType
    <2>5. failures' = 0 /\ signedIn' = signedIn
      BY <1>1, <2>1
    <2> QED BY <2>2, <2>4, <2>5 DEF SignInInv
  <1> QED BY <1>2, <1>3

LEMMA GuessOver ==
  ASSUME SignInInv, NEW g \in Worker, guess[g] = "verify", guess' = [guess EXCEPT ![g] = "idle"]
  PROVE  /\ guess' \in [Worker -> {"idle", "verify"}]
         /\ Cardinality(Guessing') = Cardinality(Guessing) - 1 /\ Cardinality(Guessing') \in Nat
  <1>1. guess' \in [Worker -> {"idle", "verify"}] /\ Guessing' = Guessing \ {g} /\ g \in Guessing
    BY DEF SignInInv, Guessing
  <1>2. IsFiniteSet(Guessing)
    BY GuessFinite
  <1>3. Cardinality(Guessing \ {g}) = Cardinality(Guessing) - 1 /\ IsFiniteSet(Guessing \ {g})
    BY <1>1, <1>2, FS_RemoveElement
  <1>4. Cardinality(Guessing \ {g}) \in Nat
    BY <1>3, FS_CardinalityType
  <1> QED BY <1>1, <1>3, <1>4

LEMMA GuessesWrong == ASSUME SignInInv, NEW g \in Worker, Desk!Wrong(g) PROVE SignInInv'
  <1>1. guess[g] = "verify" /\ guess' = [guess EXCEPT ![g] = "idle"] /\ failures' = failures + 1 /\ signedIn' = signedIn
    BY DEF Desk!Wrong
  <1>2. failures \in Nat /\ Cardinality(Guessing) \in Nat /\ Cardinality(Worker) \in Nat
        /\ failures + Cardinality(Guessing) <= Cardinality(Worker)
    BY GuessFinite DEF SignInInv
  <1>3. guess' \in [Worker -> {"idle", "verify"}] /\ Cardinality(Guessing') = Cardinality(Guessing) - 1
    BY <1>1, GuessOver
  <1> QED BY <1>1, <1>2, <1>3 DEF SignInInv

LEMMA GuessesRight == ASSUME SignInInv, NEW g \in Worker, Desk!Right(g) PROVE SignInInv'
  <1>1. guess[g] = "verify" /\ guess' = [guess EXCEPT ![g] = "idle"] /\ failures' = 0 /\ signedIn' = TRUE
    BY DEF Desk!Right
  <1>2. failures \in Nat /\ Cardinality(Guessing) \in Nat /\ Cardinality(Worker) \in Nat
        /\ failures + Cardinality(Guessing) <= Cardinality(Worker)
    BY GuessFinite DEF SignInInv
  <1>3. guess' \in [Worker -> {"idle", "verify"}] /\ Cardinality(Guessing') = Cardinality(Guessing) - 1
    BY <1>1, GuessOver
  <1> QED BY <1>1, <1>2, <1>3 DEF SignInInv

LEMMA SignInStep == ASSUME SignInInv, Desk!SignIn PROVE SignInInv'
  <1>1. ASSUME Desk!WindowOver PROVE SignInInv'
    <2>1. failures' = 0 /\ UNCHANGED <<guess, signedIn>>
      BY <1>1 DEF Desk!WindowOver
    <2>2. failures \in Nat /\ Cardinality(Guessing) \in Nat /\ Cardinality(Worker) \in Nat
          /\ failures + Cardinality(Guessing) <= Cardinality(Worker)
      BY GuessFinite DEF SignInInv
    <2>3. Guessing' = Guessing
      BY <2>1 DEF Guessing
    <2> QED BY <2>1, <2>2, <2>3 DEF SignInInv
  <1>2. ASSUME Desk!SessionOver PROVE SignInInv'
    BY <1>2 DEF Desk!SessionOver, SignInInv, Guessing
  <1> QED BY <1>1, <1>2, TriesPassword, GuessesWrong, GuessesRight DEF Desk!SignIn

LEMMA SignInFrame ==
  ASSUME Desk!SignIn
  PROVE  UNCHANGED <<saved, events, form, snapshot, ready, loads, asked, breaks, past, blind>>
  BY DEF Desk!SignIn, Desk!TryPassword, Desk!Wrong, Desk!Right, Desk!WindowOver, Desk!SessionOver

LEMMA CountsMove ==
  ASSUME asked \in 0..2, breaks \in 0..1,
         asked' = asked \/ Desk!Input, breaks' = breaks \/ Desk!Break
  PROVE  asked' \in 0..2 /\ breaks' \in 0..1
  BY DEF Desk!Input, Desk!Break

LEMMA FormStep ==
  ASSUME DeskInv, NEW f \in Drainer,
         \/ \E k \in Setting : \E v \in {"prod", "unset"} : Desk!Submit(f, k, v)
         \/ Desk!WriteRow(f) \/ Desk!WriteEvent(f) \/ Desk!Commit(f) \/ Desk!RollBack(f) \/ Desk!BeginRefresh(f)
  PROVE  DeskInv'
  <1>1. FormsInv'
    BY SubmitsForm, WritesRow, WritesEvent, CommitsForm, RollsBack, BeginsRefresh DEF DeskInv
  <1>2. ServersInv'
    BY CommitKeepsServers, BeginRefreshKeepsServers, ServersStay
       DEF DeskInv, Desk!Submit, Desk!WriteRow, Desk!WriteEvent, Desk!RollBack
  <1>3. UNCHANGED <<guess, failures, signedIn>>
    BY DEF Desk!Submit, Desk!WriteRow, Desk!WriteEvent, Desk!Commit, Desk!RollBack, Desk!BeginRefresh
  <1>4. (asked' = asked \/ Desk!Input) /\ (breaks' = breaks \/ Desk!Break)
    BY DEF Desk!Submit, Desk!WriteRow, Desk!WriteEvent, Desk!Commit, Desk!RollBack, Desk!BeginRefresh
  <1> QED BY <1>1, <1>2, <1>3, <1>4, SignInStays, CountsMove DEF DeskInv

LEMMA ServerStep ==
  ASSUME DeskInv, NEW s \in {"panel"},
         Desk!Tick(s) \/ Desk!Restart(s) \/ \E m \in loads[s] : Desk!Loaded(s, m) \/ Desk!LoadFails(s, m)
  PROVE  DeskInv'
  <1>1. ServersInv'
    BY TicksServer, RestartsServer, LoadsServer, LoadFailsServer DEF DeskInv
  <1>2. UNCHANGED <<saved, events, form, blind, guess, failures, signedIn, asked>>
    BY DEF Desk!Tick, Desk!Restart, Desk!Loaded, Desk!LoadFails
  <1>3. breaks' = breaks \/ Desk!Break
    BY DEF Desk!Tick, Desk!Restart, Desk!Loaded, Desk!LoadFails
  <1> QED BY <1>1, <1>2, <1>3, FormsStay, SignInStays, CountsMove DEF DeskInv

LEMMA DeskStep == ASSUME DeskInv, Desk!Next \/ UNCHANGED deskVars PROVE DeskInv'
  <1>1. CASE UNCHANGED deskVars
    BY <1>1, FormsStay, ServersStay, SignInStays DEF deskVars, DeskInv
  <1>2. CASE Desk!SignIn
    BY <1>2, SignInStep, SignInFrame, FormsStay, ServersStay DEF DeskInv
  <1>3. CASE Desk!Settings
    <2>1. ASSUME NEW f \in Drainer, NEW k \in {"origin", "secret"},
                 NEW v \in [origin |-> {"prod"}, secret |-> {"prod"}][k] \cup {"unset"}, Desk!Submit(f, k, v)
          PROVE  DeskInv'
      <3>1. k \in Setting /\ v \in {"prod", "unset"}
        BY DEF Setting
      <3> QED BY <2>1, <3>1, FormStep
    <2> QED BY <1>3, <2>1, FormStep, ServerStep DEF Desk!Settings
  <1> QED BY <1>1, <1>2, <1>3 DEF Desk!Next

LEMMA DeskStarts == ASSUME Desk!Init PROVE DeskInv
  <1>1. saved = [origin |-> "dev", secret |-> "unset"] /\ past = {saved} /\ blind = {} /\ events = <<>>
        /\ form = [f \in Drainer |-> Desk!Idle]
    BY DEF Desk!Init
  <1>2. saved \in Desk!Map
    <2>1. saved \in [{"origin", "secret"} -> {"dev", "prod"} \cup {"unset"}]
      BY <1>1
    <2> QED BY <2>1 DEF Desk!Map
  <1>3. FormsInv
    <2>1. FormsTyped
      BY <1>1, <1>2, FormIdle DEF FormsTyped
    <2>2. \A f \in Drainer : HolderAlone(f) /\ HasEvent(f)
      BY <1>1, FormIdle DEF HolderAlone, HasEvent, Writes
    <2>3. DOMAIN events = {}
      BY <1>1
    <2> QED BY <2>1, <2>2, <2>3 DEF FormsInv, OpenEvent, HeldLast, Desk!TrailTells
  <1>4. ServersInv
    <2>1. snapshot = [s \in {"panel"} |-> [k \in Setting |-> "unset"]] /\ ready = [s \in {"panel"} |-> FALSE]
          /\ loads = [s \in {"panel"} |-> {}]
      BY DEF Desk!Init, Setting
    <2>2. [k \in Setting |-> "unset"] \in Desk!Map
      BY DEF Desk!Map, Setting
    <2> QED BY <1>1, <1>2, <2>1, <2>2 DEF ServersInv
  <1>5. SignInInv
    <2>1. guess = [g \in Worker |-> "idle"] /\ failures = 0 /\ signedIn \in BOOLEAN
      BY DEF Desk!Init
    <2>2. Guessing = {} /\ Cardinality({}) = 0
      BY <2>1, FS_EmptySet DEF Guessing
    <2>3. Cardinality(Worker) \in Nat
      BY WorkerAssumption, FS_CardinalityType
    <2> QED BY <2>1, <2>2, <2>3 DEF SignInInv
  <1>6. asked = 0 /\ breaks = 0
    BY DEF Desk!Init
  <1> QED BY <1>3, <1>4, <1>5, <1>6 DEF DeskInv

\* What the desk promises follows from its invariant.
LEMMA DeskPromises ==
  ASSUME DeskInv
  PROVE  Desk!TypeOK /\ Desk!TrailTells /\ Desk!OneMoment /\ Desk!GuessesBounded
  <1>1. Desk!TypeOK
    BY DEF DeskInv, FormsInv, FormsTyped, ServersInv, SignInInv, Desk!TypeOK, FormRow, Setting
  <1>2. Desk!TrailTells
    BY DEF DeskInv, FormsInv
  <1>3. Desk!OneMoment
    BY DEF DeskInv, ServersInv, Desk!OneMoment, Desk!MayAct
  <1>4. Desk!GuessesBounded
    <2>1. failures \in Nat /\ Cardinality(Guessing) \in Nat /\ Cardinality(Worker) \in Nat
          /\ failures + Cardinality(Guessing) <= Cardinality(Worker)
      BY GuessFinite DEF DeskInv, SignInInv
    <2>2. failures <= 1 - 1 + Cardinality(Worker)
      BY <2>1
    <2>3. Desk!Cardinality(Worker) = Cardinality(Worker)
      BY DEF Desk!Cardinality, Cardinality
    <2> QED BY <2>2, <2>3 DEF Desk!GuessesBounded
  <1> QED BY <1>1, <1>2, <1>3, <1>4
-------------------------------------------------------------------------------
(* The gate in front of what the agent says *)

LEMMA ShiftedNumbers ==
  ASSUME NEW N, NEW x \in Gate!Shifted(N)
  PROVE  \E n \in N, by \in {-2, 0, 2} : x = <<n[1], n[2] + by>>
  BY DEF Gate!Shifted, Gate!ShiftDecimal

LEMMA PaisaOf ==
  ASSUME NEW result \in Gate!Results, NEW n \in Gate!NumbersOf(result)
  PROVE  /\ ~result.error
         /\ \E d \in result.amounts : n = <<d, 0>>
  BY DEF Gate!NumbersOf, Gate!Paisa

LEMMA AmountsAreDigits ==
  ASSUME NEW result \in Gate!Results
  PROVE  result.amounts \subseteq {"total", "vat"} /\ result.error \in BOOLEAN /\ result.fails \in BOOLEAN
  BY DEF Gate!Results

Turns == [at: Gate!Stage, holds: 0..3, said: 0..3, text: Gate!Texts \cup {Gate!NoText}]

\* Where the turn goes: with another text, after a hold, and with a message in hand.
Going(t, a, x) == [t EXCEPT !.at = a, !.text = x]
Held(t, a, x) == [[t EXCEPT !.at = a, !.text = x] EXCEPT !.holds = @ + 1]
Saying(t, a, x) == [t EXCEPT !.at = a, !.said = @ + 1, !.text = x]
Acting(t, a) == [t EXCEPT !.at = a]

LEMMA TurnMoves ==
  ASSUME NEW t \in Turns, NEW a \in Gate!Stage, NEW x \in Gate!Texts \cup {Gate!NoText}
  PROVE  /\ t.at \in Gate!Stage /\ t.holds \in 0..3 /\ t.said \in 0..3
         /\ t.text \in Gate!Texts \cup {Gate!NoText}
         /\ Acting(t, a) \in Turns /\ Acting(t, a).at = a /\ Acting(t, a).holds = t.holds
         /\ Acting(t, a).said = t.said /\ Acting(t, a).text = t.text
         /\ Going(t, a, x) \in Turns /\ Going(t, a, x).at = a /\ Going(t, a, x).holds = t.holds
         /\ Going(t, a, x).said = t.said /\ Going(t, a, x).text = x
         /\ Held(t, a, x).at = a /\ Held(t, a, x).holds = t.holds + 1
         /\ Held(t, a, x).said = t.said /\ Held(t, a, x).text = x
         /\ t.holds < t.said => Held(t, a, x) \in Turns
         /\ Saying(t, a, x).at = a /\ Saying(t, a, x).holds = t.holds
         /\ Saying(t, a, x).said = t.said + 1 /\ Saying(t, a, x).text = x
         /\ t.said < 3 => Saying(t, a, x) \in Turns
  <1> USE DEF Turns
  <1>1. /\ t.at \in Gate!Stage /\ t.holds \in 0..3 /\ t.said \in 0..3
        /\ t.text \in Gate!Texts \cup {Gate!NoText}
    OBVIOUS
  <1>2. /\ Acting(t, a) \in Turns /\ Acting(t, a).at = a /\ Acting(t, a).holds = t.holds
        /\ Acting(t, a).said = t.said /\ Acting(t, a).text = t.text
    BY DEF Acting
  <1>3. /\ Going(t, a, x) \in Turns /\ Going(t, a, x).at = a /\ Going(t, a, x).holds = t.holds
        /\ Going(t, a, x).said = t.said /\ Going(t, a, x).text = x
    BY DEF Going
  <1>4. /\ Held(t, a, x).at = a /\ Held(t, a, x).holds = t.holds + 1
        /\ Held(t, a, x).said = t.said /\ Held(t, a, x).text = x
        /\ t.holds < t.said => Held(t, a, x) \in Turns
    <2> DEFINE h == t.holds + 1
    <2>1. t.holds < t.said => h \in 0..3
      <3> HIDE DEF Turns
      <3> QED BY <1>1
    <2>2. [t EXCEPT !.at = a, !.text = x].holds = t.holds
      OBVIOUS
    <2> DEFINE v == [t EXCEPT !.at = a, !.text = x]
    <2>3. LET u == [v EXCEPT !.holds = h] IN
          /\ u.at = a /\ u.holds = h /\ u.said = t.said /\ u.text = x
          /\ h \in 0..3 => u \in Turns
      <3> HIDE DEF h
      <3> QED BY <1>1
    <2> QED BY <2>1, <2>2, <2>3 DEF Held
  <1>5. /\ Saying(t, a, x).at = a /\ Saying(t, a, x).holds = t.holds
        /\ Saying(t, a, x).said = t.said + 1 /\ Saying(t, a, x).text = x
        /\ t.said < 3 => Saying(t, a, x) \in Turns
    <2> DEFINE h == t.said + 1
    <2>1. t.said < 3 => h \in 0..3
      BY <1>1
    <2>2. LET u == [t EXCEPT !.at = a, !.said = h, !.text = x] IN
          /\ u.at = a /\ u.holds = t.holds /\ u.said = h /\ u.text = x
          /\ h \in 0..3 => u \in Turns
      <3> HIDE DEF h
      <3> QED BY <1>1
    <2> QED BY <2>1, <2>2 DEF Saying
  <1> HIDE DEF Turns
  <1> QED BY <1>1, <1>2, <1>3, <1>4, <1>5

LEMMA GateStarts == ASSUME Gate!Init PROVE GateInv
  <1> USE DEF Gate!Init
  <1>1. Gate!TypeOK
    <2>1. evidence.numbers \subseteq Gate!Number /\ evidence.failed \in BOOLEAN
      BY DEF Gate!NoEvidence
    <2>2. turn.at \in Gate!Stage /\ turn.holds \in 0..3 /\ turn.said \in 0..3
      BY DEF Gate!Stage
    <2>3. turn.text \in Gate!Texts \cup {Gate!NoText}
      OBVIOUS
    <2>4. heard.text \in Gate!Texts \cup {Gate!NoText, Gate!Fallback}
      BY DEF Gate!Silence
    <2> QED BY <2>1, <2>2, <2>3, <2>4 DEF Gate!TypeOK
  <1>2. turn \in [at: Gate!Stage, holds: 0..3, said: 0..3, text: Gate!Texts \cup {Gate!NoText}]
    BY DEF Gate!Stage
  <1>3. evidence.numbers = {} /\ evidence.failed = FALSE
    BY DEF Gate!NoEvidence
  <1>4. heard.text = Gate!NoText /\ heard.rejected = FALSE
    BY DEF Gate!Silence
  <1>5. turn.at = "none" /\ turn.holds = 0 /\ turn.said = 0
    OBVIOUS
  <1>6. Gate!FiguresTraced /\ Gate!PassedOnRecord
    BY <1>4 DEF Gate!FiguresTraced, Gate!PassedOnRecord
  <1>7. ~Gate!Passes(turn.text) \/ turn.at # "act"
    BY <1>5
  <1>10. \A x \in evidence.numbers : Traced(x)
    BY <1>3
  <1>8. /\ turn.at = "act" /\ Gate!Passes(turn.text) => turn.text \in passed
        /\ turn.holds <= turn.said
        /\ turn.at \in {"log", "act"} => turn.holds < turn.said
    <2> HIDE DEF Gate!Init
    <2> QED BY <1>5
  <1> QED BY <1>1, <1>2, <1>6, <1>8, <1>10 DEF GateInv

LEMMA GateParts ==
  ASSUME GateInv
  PROVE  /\ turn \in Turns /\ evidence.failed \in BOOLEAN /\ rejected \in BOOLEAN
         /\ evidence.numbers \subseteq Gate!Number /\ passed \subseteq Gate!Texts
         /\ heard.text \in Gate!Texts \cup {Gate!NoText, Gate!Fallback}
         /\ sources \subseteq [number : Gate!Number, by : {"tool", "owner"}]
         /\ Gate!FiguresTraced /\ Gate!PassedOnRecord
         /\ \A x \in evidence.numbers : Traced(x)
         /\ turn.holds <= turn.said
         /\ turn.at \in {"log", "act"} => turn.holds < turn.said
         /\ turn.at = "act" /\ Gate!Passes(turn.text) => turn.text \in passed
  BY DEF GateInv, Gate!TypeOK, Turns

\* What is heard and what counts stay as they are, or grow.
LEMMA GateHeardStays ==
  ASSUME GateInv, UNCHANGED heard, sources \subseteq sources', passed \subseteq passed'
  PROVE  (Gate!FiguresTraced /\ Gate!PassedOnRecord)'
  <1>1. Gate!FiguresTraced /\ Gate!PassedOnRecord
    BY DEF GateInv
  <1>2. Gate!FiguresTraced'
    BY <1>1 DEF Gate!FiguresTraced
  <1>3. Gate!PassedOnRecord'
    BY <1>1 DEF Gate!PassedOnRecord
  <1> QED BY <1>2, <1>3

LEMMA TracedStays ==
  ASSUME NEW x, Traced(x), sources \subseteq sources'
  PROVE  Traced(x)'
  BY DEF Traced

\* The turn moves; the evidence is as before.
LEMMA GateTurnMoves ==
  ASSUME GateInv, UNCHANGED <<evidence, passed, heard, sources, rejected>>,
         turn' \in Turns, turn'.holds <= turn'.said,
         turn'.at \in {"log", "act"} => turn'.holds < turn'.said,
         turn'.at # "act"
  PROVE  GateInv'
  <1>1. (Gate!FiguresTraced /\ Gate!PassedOnRecord)'
    BY GateHeardStays
  <1>2. Gate!TypeOK'
    BY GateParts DEF Gate!TypeOK, Turns
  <1>3. (\A x \in evidence.numbers : Traced(x))'
    BY GateParts, TracedStays
  <1> QED BY <1>1, <1>2, <1>3, GateParts DEF GateInv, Turns

LEMMA GateSay ==
  ASSUME GateInv, NEW text \in Gate!Texts, Gate!Say(text)
  PROVE  GateInv'
  <1>1. turn \in Turns /\ turn.holds <= turn.said /\ turn.said < 3
    BY GateParts DEF Gate!Say
  <1>2. turn' = Saying(turn, "log", text)
    BY DEF Gate!Say, Saying
  <1>3. turn' \in Turns /\ turn'.at = "log" /\ turn'.holds = turn.holds /\ turn'.said = turn.said + 1
    BY <1>1, <1>2, TurnMoves DEF Gate!Stage
  <1>4. turn.holds \in 0..3 /\ turn.said \in 0..3
    BY <1>1 DEF Turns
  <1> QED BY <1>1, <1>3, <1>4, GateTurnMoves DEF Gate!Say

LEMMA GateEnd ==
  ASSUME GateInv, Gate!End
  PROVE  GateInv'
  <1>1. turn \in Turns /\ turn.holds <= turn.said
    BY GateParts
  <1>3. turn' = Going(turn, "over", Gate!NoText)
    BY DEF Gate!End, Going
  <1>2. turn' \in Turns /\ turn'.at = "over" /\ turn'.holds = turn.holds /\ turn'.said = turn.said
    BY <1>1, <1>3, TurnMoves DEF Gate!Stage
  <1> QED BY <1>1, <1>2, GateTurnMoves DEF Gate!End

LEMMA GateHold ==
  ASSUME GateInv, Gate!Hold
  PROVE  GateInv'
  <1>1. turn \in Turns /\ turn.holds < turn.said
    BY GateParts DEF Gate!Hold
  <1>2. turn' = Held(turn, "listen", Gate!NoText)
    BY DEF Gate!Hold, Gate!Listen, Held
  <1>3. turn' \in Turns /\ turn'.at = "listen" /\ turn'.holds = turn.holds + 1 /\ turn'.said = turn.said
    BY <1>1, <1>2, TurnMoves DEF Gate!Stage
  <1>4. turn.holds \in 0..3 /\ turn.said \in 0..3
    BY <1>1 DEF Turns
  <1> QED BY <1>1, <1>3, <1>4, GateTurnMoves DEF Gate!Hold

LEMMA GateGiveUp ==
  ASSUME GateInv, Gate!GiveUp
  PROVE  GateInv'
  <1>1. turn \in Turns /\ turn.holds < turn.said
    BY GateParts DEF Gate!GiveUp
  <1>2. turn' = Held(turn, "listen", Gate!NoText)
    BY DEF Gate!GiveUp, Gate!Listen, Held
  <1>3. turn' \in Turns /\ turn'.at = "listen" /\ turn'.holds = turn.holds + 1 /\ turn'.said = turn.said
    BY <1>1, <1>2, TurnMoves DEF Gate!Stage
  <1>4. turn.holds \in 0..3 /\ turn.said \in 0..3
    BY <1>1 DEF Turns
  <1>5. heard'.text = Gate!Fallback
    BY DEF Gate!GiveUp
  <1>6. (Gate!FiguresTraced /\ Gate!PassedOnRecord)'
    BY <1>5 DEF Gate!FiguresTraced, Gate!PassedOnRecord
  <1>7. UNCHANGED <<evidence, passed, sources, rejected>>
    BY DEF Gate!GiveUp
  <1>8. Gate!TypeOK'
    BY <1>3, <1>5, <1>7, GateParts DEF Gate!TypeOK, Turns
  <1>9. (\A x \in evidence.numbers : Traced(x))'
    BY <1>7, GateParts, TracedStays
  <1>10. turn'.holds <= turn'.said
    BY <1>1, <1>3, <1>4
  <1> QED BY <1>3, <1>6, <1>7, <1>8, <1>9, <1>10, GateParts DEF GateInv, Turns

LEMMA GateDeliver ==
  ASSUME GateInv, NEW sent \in BOOLEAN, Gate!Deliver(sent)
  PROVE  GateInv'
  <1>1. turn \in Turns /\ turn.holds < turn.said /\ turn.at = "act" /\ Gate!Passes(turn.text)
        /\ turn.text \in passed /\ turn.holds \in 0..3 /\ turn.said \in 0..3
    BY GateParts DEF Gate!Deliver, Turns
  <1>2. UNCHANGED <<evidence, passed, sources, rejected>>
    BY DEF Gate!Deliver
  <1>3. CASE ~sent
    <2>1. UNCHANGED heard /\ turn' = Going(turn, "over", Gate!NoText)
      BY <1>3 DEF Gate!Deliver, Going
    <2>2. turn' \in Turns /\ turn'.at = "over" /\ turn'.holds = turn.holds /\ turn'.said = turn.said
      BY <1>1, <2>1, TurnMoves DEF Gate!Stage
    <2> QED BY <1>1, <1>2, <2>1, <2>2, GateTurnMoves
  <1>4. CASE sent
    <2>1. turn' = Going(turn, "listen", Gate!NoText)
      BY <1>4 DEF Gate!Deliver, Gate!Listen, Going
    <2>2. turn' \in Turns /\ turn'.at = "listen" /\ turn'.holds = turn.holds /\ turn'.said = turn.said
      BY <1>1, <2>1, TurnMoves DEF Gate!Stage
    <2>3. heard' = [text |-> turn.text, rejected |-> rejected]
      BY <1>4 DEF Gate!Deliver
    <2>4. heard'.text = turn.text
      BY <2>3
    <2>6. turn.text \in Gate!Texts /\ turn.text \subseteq evidence.numbers
      BY <1>1, GateParts DEF Gate!Passes, Gate!Verified
    <2>7. \A x \in turn.text : Traced(x)
      BY <2>6, GateParts
    <2>8. Gate!FiguresTraced'
      BY <2>4, <2>7, <1>2 DEF Gate!FiguresTraced, Traced
    <2>9. Gate!PassedOnRecord'
      BY <2>4, <1>1, <1>2 DEF Gate!PassedOnRecord
    <2>10. Gate!TypeOK'
      BY <2>2, <2>4, <2>6, <1>2, GateParts DEF Gate!TypeOK, Turns
    <2>11. (\A x \in evidence.numbers : Traced(x))'
      BY <1>2, GateParts, TracedStays
    <2>12. turn'.holds <= turn'.said
      BY <1>1, <2>2
    <2> QED BY <2>2, <2>8, <2>9, <2>10, <2>11, <2>12, <1>2, GateParts DEF GateInv, Turns
  <1> QED BY <1>3, <1>4

\* No number of the evidence is the empty text's, so a text that passes is one of the agent's.
LEMMA NoFigure == \A E \in SUBSET Gate!Number : ~(Gate!NoText \subseteq E)
  BY DEF Gate!Number, Gate!NoText

LEMMA GateLog ==
  ASSUME GateInv, NEW written \in BOOLEAN, Gate!Log(written)
  PROVE  GateInv'
  <1>1. turn \in Turns /\ turn.holds < turn.said /\ turn.holds \in 0..3 /\ turn.said \in 0..3
    BY GateParts DEF Gate!Log, Turns
  <1>2. UNCHANGED <<evidence, heard, sources, rejected>>
    BY DEF Gate!Log
  <1>3. CASE ~written
    <2>1. UNCHANGED passed /\ turn' = Going(turn, "over", Gate!NoText)
      BY <1>3 DEF Gate!Log, Going
    <2>2. turn' \in Turns /\ turn'.at = "over" /\ turn'.holds = turn.holds /\ turn'.said = turn.said
      BY <1>1, <2>1, TurnMoves DEF Gate!Stage
    <2> QED BY <1>1, <1>2, <2>1, <2>2, GateTurnMoves
  <1>4. CASE written
    <2>1. turn' = Acting(turn, "act")
      BY <1>4 DEF Gate!Log, Acting
    <2>2. turn' \in Turns /\ turn'.at = "act" /\ turn'.holds = turn.holds /\ turn'.said = turn.said
          /\ turn'.text = turn.text
      BY <1>1, <2>1, TurnMoves DEF Gate!Stage
    <2>3. passed' = (IF Gate!Passes(turn.text) THEN passed \cup {turn.text} ELSE passed)
      BY <1>4 DEF Gate!Log
    <2>4. passed' \subseteq Gate!Texts
      <3>1. Gate!Passes(turn.text) => turn.text \in Gate!Texts
        BY <1>1, GateParts, NoFigure DEF Gate!Passes, Gate!Verified, Turns
      <3> QED BY <2>3, <3>1, GateParts
    <2>5. (Gate!FiguresTraced /\ Gate!PassedOnRecord)'
      BY <1>2, <2>3, GateHeardStays
    <2>6. Gate!TypeOK'
      BY <2>2, <2>4, <1>2, GateParts DEF Gate!TypeOK, Turns
    <2>7. (\A x \in evidence.numbers : Traced(x))'
      BY <1>2, GateParts, TracedStays
    <2>8. Gate!Passes(turn.text)' => turn'.text \in passed'
      BY <2>2, <2>3, <1>2 DEF Gate!Passes, Gate!Verified
    <2> QED BY <2>2, <2>5, <2>6, <2>7, <2>8, <1>1, <1>2, GateParts DEF GateInv, Turns
  <1> QED BY <1>3, <1>4

LEMMA GateStart ==
  ASSUME GateInv, NEW typed \in SUBSET {"total", "vat"}, Gate!Start(typed)
  PROVE  GateInv'
  <1>1. turn' = [at |-> "listen", holds |-> 0, said |-> 0, text |-> Gate!NoText]
    BY DEF Gate!Start
  <1>2. turn' \in Turns /\ turn'.at = "listen" /\ turn'.holds = 0 /\ turn'.said = 0
    BY <1>1 DEF Turns, Gate!Stage
  <1>3. /\ evidence'.numbers = {Gate!Rupees(d) : d \in typed}
        /\ evidence'.failed = FALSE
    BY DEF Gate!Start, Gate!NoEvidence
  <1>4. sources' = {[number |-> Gate!Rupees(d), by |-> "owner"] : d \in typed} /\ rejected' = FALSE
        /\ passed' = {} /\ heard'.text = Gate!NoText /\ heard'.rejected = FALSE
    BY DEF Gate!Start, Gate!Silence
  <1>5. \A d \in typed : Gate!Rupees(d) \in Gate!Number
    BY DEF Gate!Rupees, Gate!Number, Gate!Power
  <1>6. (\A x \in evidence.numbers : Traced(x))'
    <2> SUFFICES ASSUME NEW d \in typed PROVE Traced(Gate!Rupees(d))'
      BY <1>3
    <2>1. [number |-> Gate!Rupees(d), by |-> "owner"] \in sources'
      BY <1>4
    <2> QED BY <2>1 DEF Traced
  <1>7. (Gate!FiguresTraced /\ Gate!PassedOnRecord)'
    BY <1>4 DEF Gate!FiguresTraced, Gate!PassedOnRecord
  <1>8. Gate!TypeOK'
    <2>1. sources' \subseteq [number : Gate!Number, by : {"tool", "owner"}]
      BY <1>4, <1>5
    <2>2. evidence'.numbers \subseteq Gate!Number /\ evidence'.failed \in BOOLEAN
      BY <1>3, <1>5
    <2>3. heard'.text \in Gate!Texts \cup {Gate!NoText, Gate!Fallback} /\ passed' \subseteq Gate!Texts /\ rejected' \in BOOLEAN
      BY <1>4
    <2> QED BY <1>2, <2>1, <2>2, <2>3 DEF Gate!TypeOK, Turns
  <1> QED BY <1>2, <1>6, <1>7, <1>8 DEF GateInv, Turns

LEMMA GateToolResult ==
  ASSUME GateInv, NEW result \in Gate!Results, Gate!ToolResult(result)
  PROVE  GateInv'
  <1>1. UNCHANGED <<turn, passed, heard>> /\ turn.at = "listen"
    BY DEF Gate!ToolResult
  <1>9. Gate!NumbersOf(Gate!Stringified(result)) = Gate!NumbersOf(result)
    BY DEF Gate!NumbersOf, Gate!Stringified, Gate!Results
  <1>2. /\ evidence'.numbers = evidence.numbers \cup Gate!Shifted(Gate!NumbersOf(result))
    BY <1>9 DEF Gate!ToolResult
  <1>3. evidence'.failed \in BOOLEAN
    BY GateParts DEF Gate!ToolResult
  <1>4. rejected' \in BOOLEAN
    BY DEF Gate!ToolResult
  <1>5. /\ sources \subseteq sources'
        /\ sources' \subseteq sources \cup {[number |-> Gate!Paisa(d), by |-> "tool"] : d \in result.amounts}
        /\ ~result.error => \A d \in result.amounts : [number |-> Gate!Paisa(d), by |-> "tool"] \in sources'
    BY DEF Gate!ToolResult
  <1>6. ASSUME NEW x \in Gate!Shifted(Gate!NumbersOf(result))
        PROVE  Traced(x)' /\ x \in Gate!Number
    <2>1. PICK n \in Gate!NumbersOf(result), by \in {-2, 0, 2} : x = <<n[1], n[2] + by>>
      BY ShiftedNumbers
    <2>2. ~result.error
      BY PaisaOf
    <2>3. PICK d \in result.amounts : n = <<d, 0>>
      BY PaisaOf
    <2>4. x = <<d, by>> /\ d \in {"total", "vat"}
      BY <2>1, <2>3, AmountsAreDigits
    <2>5. [number |-> <<d, 0>>, by |-> "tool"] \in sources'
      BY <1>5, <2>2 DEF Gate!Paisa
    <2>6. x[1] = d /\ x[2] = by /\ (by = 0 \/ by - 0 \in {-2, 2})
      BY <2>4
    <2>7. Traced(x)'
      <3> DEFINE s == [number |-> <<d, 0>>, by |-> "tool"]
      <3>1. s \in sources' /\ s.number[1] = x[1] /\ s.by = "tool" /\ s.number[2] = 0
        BY <2>5, <2>6
      <3>2. s.number[2] = x[2] \/ x[2] - s.number[2] \in {-2, 2}
        BY <2>6, <3>1
      <3> HIDE DEF s
      <3> QED BY <3>1, <3>2 DEF Traced
    <2>8. x \in Gate!Number
      BY <2>4 DEF Gate!Number, Gate!Power
    <2> QED BY <2>7, <2>8
  <1>7. (\A x \in evidence.numbers : Traced(x))'
    BY <1>2, <1>5, <1>6, GateParts, TracedStays
  <1>8. (Gate!FiguresTraced /\ Gate!PassedOnRecord)'
    BY <1>1, <1>5, GateHeardStays
  <1>10. Gate!TypeOK'
    <2>1. \A d \in result.amounts : [number |-> Gate!Paisa(d), by |-> "tool"] \in [number : Gate!Number, by : {"tool", "owner"}]
      BY AmountsAreDigits DEF Gate!Paisa, Gate!Number, Gate!Power
    <2>2. sources' \subseteq [number : Gate!Number, by : {"tool", "owner"}]
      BY <1>5, <2>1, GateParts
    <2>3. evidence'.numbers \subseteq Gate!Number /\ evidence'.failed \in BOOLEAN
      BY <1>2, <1>3, <1>4, <1>6, GateParts
    <2> QED BY <1>1, <1>4, <2>2, <2>3, GateParts DEF Gate!TypeOK, Turns
  <1> QED BY <1>1, <1>3, <1>7, <1>8, <1>10, GateParts DEF GateInv, Turns

LEMMA GateStep ==
  ASSUME GateInv, Gate!Next \/ UNCHANGED gateVars
  PROVE  GateInv'
  <1>1. CASE UNCHANGED gateVars
    BY <1>1 DEF gateVars, GateInv, Gate!TypeOK, Traced, Gate!FiguresTraced, Gate!PassedOnRecord, Gate!Passes, Gate!Verified
  <1>2. CASE Gate!Next
    BY <1>2, GateStart, GateToolResult, GateSay, GateLog, GateDeliver, GateHold, GateGiveUp, GateEnd DEF Gate!Next
  <1> QED BY <1>1, <1>2
-------------------------------------------------------------------------------
(* The guard in front of a template *)

LEMMA AnswerTyped ==
  ASSUME NEW map, NEW t \in Template
  PROVE  /\ Guard!Answer(map, t) \in Guard!Sender
         /\ Guard!Answer(map, t).template = t
         /\ Guard!Answer(map, t).state = "cleared" => t \notin map.marketing
  BY DEF Guard!Answer, Guard!Sender, Guard!Refuses

LEMMA GuardStarts == ASSUME Guard!Init PROVE Guard!TypeOK
  BY DEF Guard!Init, Guard!TypeOK, Guard!Unknown, Guard!Sender

LEMMA ResumeTyped ==
  ASSUME Guard!TypeOK, NEW map, Guard!Resume(map)
  PROVE  call' \in [Call -> Guard!Sender]
  BY AnswerTyped DEF Guard!TypeOK, Guard!Resume, Guard!Sender

LEMMA GuardAsk ==
  ASSUME Guard!TypeOK, NEW c \in Call, NEW t \in Template, Guard!Ask(c, t)
  PROVE  Guard!TypeOK'
  <1>1. [state |-> "waiting", template |-> t] \in Guard!Sender
    BY DEF Guard!Sender
  <1>2. call' \in [Call -> Guard!Sender]
    BY <1>1, AnswerTyped DEF Guard!Ask, Guard!TypeOK
  <1>3. known' \in [of: SUBSET Account, marketing: SUBSET Template]
    BY DEF Guard!Ask, Guard!TypeOK, Guard!Unknown
  <1>4. inflight' \subseteq Account /\ fresh' \in BOOLEAN /\ waits' \in BOOLEAN
    BY DEF Guard!Ask, Guard!TypeOK
  <1>5. scope' \in Account /\ live' = live /\ account' = account
    BY DEF Guard!Ask, Guard!TypeOK
  <1> QED BY <1>2, <1>3, <1>4, <1>5 DEF Guard!TypeOK

LEMMA GuardLoaded == ASSUME Guard!TypeOK, Guard!Loaded PROVE Guard!TypeOK'
  <1>1. call' \in [Call -> Guard!Sender]
    BY ResumeTyped DEF Guard!Loaded
  <1>2. UNION {live[a] : a \in inflight} \subseteq Template
    BY DEF Guard!TypeOK
  <1>3. known' \in [of: SUBSET Account, marketing: SUBSET Template]
    BY <1>2 DEF Guard!Loaded, Guard!TypeOK
  <1> QED BY <1>1, <1>3 DEF Guard!Loaded, Guard!TypeOK

LEMMA GuardLookupFails == ASSUME Guard!TypeOK, Guard!LookupFails PROVE Guard!TypeOK'
  <1>1. call' \in [Call -> Guard!Sender]
    BY ResumeTyped DEF Guard!LookupFails
  <1> QED BY <1>1 DEF Guard!LookupFails, Guard!LastKnown, Guard!TypeOK

LEMMA GuardReturn == ASSUME Guard!TypeOK, NEW c \in Call, Guard!Return(c) PROVE Guard!TypeOK'
  <1>1. call' \in [Call -> Guard!Sender]
    BY DEF Guard!Return, Guard!TypeOK, Guard!Sender
  <1> QED BY <1>1 DEF Guard!Return, Guard!TypeOK

LEMMA GuardMeta ==
  ASSUME Guard!TypeOK,
         \/ Guard!Expire \/ Guard!WaitOver \/ (\E a \in Account : Guard!SwapAccount(a))
         \/ \E a \in Account, t \in Template : Guard!Recategorise(a, t)
  PROVE  Guard!TypeOK'
  <1>1. CASE \E a \in Account, t \in Template : Guard!Recategorise(a, t)
    <2>1. PICK a \in Account, t \in Template : Guard!Recategorise(a, t)
      BY <1>1
    <2>2. live' = [live EXCEPT ![a] = IF t \in live[a] THEN live[a] \ {t} ELSE live[a] \cup {t}]
      BY <2>1 DEF Guard!Recategorise
    <2>3. live' \in [Account -> SUBSET Template]
      BY <2>2 DEF Guard!TypeOK
    <2> QED BY <2>1, <2>3 DEF Guard!TypeOK, Guard!Recategorise
  <1>2. CASE Guard!Expire \/ Guard!WaitOver \/ (\E a \in Account : Guard!SwapAccount(a))
    BY <1>2 DEF Guard!TypeOK, Guard!Expire, Guard!WaitOver, Guard!SwapAccount
  <1> QED BY <1>1, <1>2

LEMMA GuardStep == ASSUME Guard!TypeOK, Guard!Next \/ UNCHANGED guardVars PROVE Guard!TypeOK'
  <1>1. CASE UNCHANGED guardVars
    BY <1>1 DEF guardVars, Guard!TypeOK
  <1>2. CASE Guard!Next
    BY <1>2, GuardAsk, GuardLoaded, GuardLookupFails, GuardReturn, GuardMeta DEF Guard!Next
  <1> QED BY <1>1, <1>2

\* Who is cleared by an answer of the same list was not asking for what the list refuses.
LEMMA RefusedStays ==
  ASSUME Guard!TypeOK, Guard!Next \/ UNCHANGED guardVars, NEW c \in Call, NEW t \in known.marketing,
         scope' = scope, ~Guard!Loaded, call[c].state # "cleared", call'[c].state = "cleared"
  PROVE  call'[c].template # t
  <1>1. call[c] \in Guard!Sender
    BY DEF Guard!TypeOK
  <1>2. CASE UNCHANGED call
    BY <1>2
  <1>3. ASSUME NEW d \in Call, Guard!Return(d) PROVE FALSE
    BY <1>1, <1>3 DEF Guard!Return, Guard!TypeOK, Guard!Sender
  <1>4. ASSUME NEW d \in Call, NEW u \in Template, Guard!Ask(d, u) PROVE call'[c].template # t
    <2>1. ~Guard!AnotherScope
      BY <1>4 DEF Guard!Ask, Guard!AnotherScope
    <2>2. d = c
      BY <1>4 DEF Guard!Ask, Guard!TypeOK
    <2>3. call'[c] = Guard!Answer(known, u)
      BY <1>4, <2>1, <2>2 DEF Guard!Ask, Guard!TypeOK
    <2> QED BY <2>3, AnswerTyped
  <1>5. CASE Guard!LookupFails
    <2>1. call'[c] = IF call[c].state = "waiting" THEN Guard!Answer(known, call[c].template) ELSE call[c]
      BY <1>5 DEF Guard!LookupFails, Guard!LastKnown, Guard!Resume
    <2>2. call[c].template \in Template
      BY <1>1 DEF Guard!Sender
    <2> QED BY <2>1, <2>2, AnswerTyped
  <1>6. CASE \/ Guard!Expire \/ Guard!WaitOver \/ (\E a \in Account : Guard!SwapAccount(a))
             \/ \E a \in Account, u \in Template : Guard!Recategorise(a, u)
    BY <1>2, <1>6 DEF Guard!Expire, Guard!WaitOver, Guard!SwapAccount, Guard!Recategorise
  <1>7. CASE UNCHANGED guardVars
    BY <1>2, <1>7 DEF guardVars
  <1> QED BY <1>3, <1>4, <1>5, <1>6, <1>7 DEF Guard!Next
-------------------------------------------------------------------------------
(* The parts together *)

NoticesInv ==
  /\ RemindersInv /\ OutboxInv /\ DeskInv /\ GateInv /\ Guard!TypeOK /\ inputs \in 0..MaxInputs
  /\ part \in {"steady", "overlap", "outbox", "guard", "signin", "settings", "gate"}

\* A step is one of a part, and leaves the others alone.
LEMMA PartsStep ==
  ASSUME [Next]_vars
  PROVE  /\ Reminders!Next \/ UNCHANGED reminderVars
         /\ Outbox!Next \/ UNCHANGED outboxVars
         /\ Guard!Next \/ UNCHANGED guardVars
         /\ Desk!Next \/ UNCHANGED deskVars
         /\ Gate!Next \/ UNCHANGED gateVars
         /\ UNCHANGED part
         /\ inputs' = inputs \/ (inputs < MaxInputs /\ inputs' = inputs + 1)
  <1>1. CASE UNCHANGED vars
    BY <1>1 DEF vars
  <1>2. CASE Steady
    <2>1. SteadyWorker \in Worker
      BY WorkerAssumption DEF SteadyWorker
    <2>2. Reminders!Next
      BY <1>2, <2>1 DEF Steady, WorkerStep, Reminders!Next
    <2> QED BY <1>2, <2>2 DEF Steady
  <1>3. CASE Overlap
    <2>1. Reminders!Next
      BY <1>3 DEF Overlap, WorkerStep, Reminders!Next
    <2> QED BY <1>3, <2>1 DEF Overlap
  <1>4. CASE Drain
    BY <1>4 DEF Drain
  <1>5. CASE Send
    BY <1>5 DEF Send
  <1>6. CASE Administer
    BY <1>6 DEF Administer, Desk!Next
  <1>7. CASE Speak
    BY <1>7 DEF Speak
  <1> QED BY <1>1, <1>2, <1>3, <1>4, <1>5, <1>6, <1>7 DEF Next

LEMMA NoticesStart == Init => NoticesInv
  <1> SUFFICES ASSUME Init PROVE NoticesInv
    OBVIOUS
  <1>1. RemindersInv /\ OutboxInv /\ DeskInv /\ GateInv /\ Guard!TypeOK
    BY RemindersStart, OutboxStarts, DeskStarts, GateStarts, GuardStarts DEF Init
  <1>2. inputs \in 0..MaxInputs
    BY InputAssumption DEF Init
  <1> QED BY <1>1, <1>2 DEF NoticesInv, Init

LEMMA NoticesStep == NoticesInv /\ [Next]_vars => NoticesInv'
  <1> SUFFICES ASSUME NoticesInv, [Next]_vars PROVE NoticesInv'
    OBVIOUS
  <1>1. RemindersInv'
    BY PartsStep, RemindersStep DEF NoticesInv
  <1>2. OutboxInv'
    BY PartsStep, OutboxStep DEF NoticesInv
  <1>3. DeskInv'
    BY PartsStep, DeskStep DEF NoticesInv
  <1>4. GateInv'
    BY PartsStep, GateStep DEF NoticesInv
  <1>5. Guard!TypeOK'
    BY PartsStep, GuardStep DEF NoticesInv
  <1>6. inputs' \in 0..MaxInputs
    BY PartsStep, InputAssumption DEF NoticesInv
  <1>7. part' = part
    BY PartsStep
  <1> QED BY <1>1, <1>2, <1>3, <1>4, <1>5, <1>6, <1>7 DEF NoticesInv

\* The invariant the results below follow from, for the parts of the system that speak
\* by themselves: the reminders of the daily tick, the outbox and its drains, the
\* operator's desk, the gate and the guard.
THEOREM NoticesAlways == Spec => []NoticesInv
  BY NoticesStart, NoticesStep, PTL DEF Spec

LEMMA RemindersPromise == ASSUME RemindersInv PROVE Reminders!ReminderOnce /\ Reminders!SaidAsLogged
  <1>1. Reminders!ReminderOnce
    <2>1. DOMAIN got = Tenant \X Reminders!Kind
      BY DEF RemindersInv, Reminders!TypeOK
    <2>2. ASSUME NEW x \in Tenant \X Reminders!Kind PROVE got[x].copies <= 1 + got[x].unanswered
      <3>1. PICK t \in Tenant, k \in Reminders!Kind : x = <<t, k>>
        OBVIOUS
      <3> QED BY <3>1 DEF RemindersInv, Arrived
    <2> QED BY <2>1, <2>2 DEF Reminders!ReminderOnce
  <1>2. ASSUME NEW t \in Tenant, NEW k \in Reminders!Kind,
               got[<<t, k>>].copies > 0, got[<<t, k>>].unanswered = 0
        PROVE  \E r \in log : /\ r.tenant = t /\ r.kind = k /\ r.figure = got[<<t, k>>].figure
                              /\ k # "deadline_digest" => (r.figure # {} <=> r.verdict = "PASS")
    <2>1. PICK r \in log : r.tenant = t /\ r.kind = k /\ r.figure = got[<<t, k>>].figure
      BY <1>2 DEF RemindersInv, Arrived
    <2>2. Stated(r)
      BY DEF RemindersInv, LogSound
    <2> QED BY <2>1, <2>2 DEF Stated
  <1>3. Reminders!SaidAsLogged
    BY <1>2 DEF Reminders!SaidAsLogged
  <1> QED BY <1>1, <1>3

LEMMA OutboxPromises == ASSUME OutboxInv PROVE Outbox!NoticeOnce
  BY DEF OutboxInv, NoticeSound, GoneOut, Outbox!NoticeOnce

LEMMA PartsPromise == NoticesInv => SaidAndLogged /\ AllTypesOK
  <1> SUFFICES ASSUME NoticesInv PROVE SaidAndLogged /\ AllTypesOK
    OBVIOUS
  <1>1. Reminders!ReminderOnce /\ Reminders!SaidAsLogged /\ Outbox!NoticeOnce
    BY RemindersPromise, OutboxPromises DEF NoticesInv
  <1>2. Desk!TypeOK /\ Desk!TrailTells /\ Desk!OneMoment /\ Desk!GuessesBounded
    BY DeskPromises DEF NoticesInv
  <1>3. Gate!FiguresTraced /\ Gate!PassedOnRecord /\ Gate!TypeOK
    BY DEF NoticesInv, GateInv
  <1>4. Reminders!TypeOK /\ Outbox!TypeOK /\ Guard!TypeOK
    BY DEF NoticesInv, RemindersInv, OutboxInv
  <1>5. SaidAndLogged
    BY <1>1, <1>2, <1>3 DEF SaidAndLogged
  <1>6. AllTypesOK
    BY <1>2, <1>3, <1>4 DEF NoticesInv, AllTypesOK
  <1> QED BY <1>5, <1>6

\* For any number of workers, tenants, events, drains and forms: a reminder arrives
\* twice only after an answer was lost and is on record with the verified figure it
\* stated (reminders.ts); a notice arrives twice only if a drain was cut or an answer
\* lost (outbox.ts); the operator's events tell what was last done to a setting, a process
\* acts by settings of one moment, and guesses at the password stay bounded
\* (db/settings.ts, admin/auth.ts); a figure the owner is told has a source of the same
\* turn and its text is on record (gate.ts).
THEOREM EverythingSaidIsLogged == Spec => []SaidAndLogged
  BY NoticesAlways, PartsPromise, PTL

\* The rows, drains, forms, snapshots and turns of these components keep their types.
THEOREM NoticesTyped == Spec => []AllTypesOK
  BY NoticesAlways, PartsPromise, PTL

LEMMA GuardRefuses ==
  NoticesInv /\ [Next]_vars =>
    [\A c \in Call, t \in Template :
       (t \in known.marketing /\ scope' = scope /\ ~Guard!Loaded
          /\ call[c].state # "cleared" /\ call'[c].state = "cleared")
         => call'[c].template # t]_guardVars
  BY PartsStep, RefusedStays DEF NoticesInv

\* Between two lists of the same account a template the guard has seen as MARKETING is
\* not cleared for any sender, whatever lookups fail, wait or are shared
\* (template-guard.ts).
THEOREM RefusedAlways == Spec => RefusedThroughOutage
  <1>1. Guard!vars = guardVars
    BY DEF Guard!vars, guardVars
  <1> QED BY <1>1, NoticesAlways, GuardRefuses, PTL DEF Spec, RefusedThroughOutage, Guard!RefusedThroughOutage, Guard!vars, guardVars
===============================================================================
