------------------------------- MODULE BillEntry -------------------------------
(***************************************************************************)
(* What the ledger stores of a bill or a sale (mcp-ledger/src tools.ts,    *)
(* arap-tools.ts and invoice-vat.ts; shared/src money, vat, tds and        *)
(* validation).                                                            *)
(*                                                                         *)
(* The agent passes what it read; the tool resolves the taxable value and  *)
(* the VAT, looks for entries it may duplicate, validates, and saves a     *)
(* draft with one event for each check that did not pass.  A cash entry    *)
(* goes to sales or expenses, an entry on credit to the account of a       *)
(* party, which is found by name whatever its case or made.  A call reads  *)
(* and writes in one transaction at READ COMMITTED, so two calls may each  *)
(* look before the other saves.  Confirmation is DraftLedger's and         *)
(* PartyPayments' matter.                                                  *)
(***************************************************************************)
EXTENDS Integers, FiniteSets, Sequences

CONSTANTS
  Call,        \* tool calls that may be under way together
  Bill,        \* what the agent may read off a document
  Name,        \* names as written: <<name, case>>
  VatBps, Tolerance, MaxAmount, RegisteredBps, PanOnlyBps,
  Window,      \* days for which a bill carries input credit
  MonthDays, MaxDay, MaxEntries   \* bounds: days that pass, entries saved

VARIABLES
  today,
  entries,     \* sales, expenses, ar_invoices and ap_bills, in the order they were saved
  parties,     \* rows of parties, by name as written
  call         \* the transaction of each call

vars == <<today, entries, parties, call>>
-------------------------------------------------------------------------------
Day == 0..MaxDay
Table == {"sales", "expenses", "ar_invoices", "ap_bills"}
Check == {"sanity.amounts", "vat.math", "vat.totals", "vat.input_credit", "duplicate"}
Cash == {"sales", "expenses"}
Purchases == {"expenses", "ap_bills"}

Idle == [at |-> "idle"]

NoParty == <<>>

\* The name in lower case.
Key(n) == n[1]

\* History: the entries and the parties its call could see.
EntryRow ==
  [bill: Bill, excl: Nat, vat: Nat, inputVat: Nat, tds: Nat, backdated: BOOLEAN,
   party: {NoParty} \cup Name, live: BOOLEAN, warned: SUBSET Check, saw: SUBSET (1..MaxEntries)]

TypeOK ==
  /\ today \in Day
  /\ entries \in Seq(EntryRow) /\ Len(entries) <= MaxEntries
  /\ \A n \in DOMAIN parties : n \in Name /\ parties[n].saw \subseteq Name
  /\ \A c \in Call : call[c] = Idle \/ call[c].bill \in Bill

Init ==
  /\ today = 0 /\ entries = <<>> /\ parties = <<>>
  /\ call = [c \in Call |-> Idle]
-------------------------------------------------------------------------------
\* Operators named ...Mutant are wrong versions of the definition after them,
\* kept to show that a property notices the change; the model does not use them.

DivRoundHalfUp(n, d) == (2 * n + d) \div (2 * d)

MulBps(amount, bps) == DivRoundHalfUp(amount * bps, 10000)

SplitVatInclusive(total) ==
  LET excl == DivRoundHalfUp(total * 10000, 10000 + VatBps) IN
  [excl |-> excl, vat |-> total - excl]

Computed(b) ==
  CASE ~b.registered -> [excl |-> b.amount, vat |-> 0]
    [] b.registered /\ b.inclusive -> SplitVatInclusive(b.amount)
    [] OTHER -> [excl |-> b.amount, vat |-> MulBps(b.amount, VatBps)]

\* Both printed figures or neither, and they agree with the amount that was given.
PrintedFits(b) ==
  /\ Len(b.printed) = 2
  /\ ~b.registered => b.printed[2] = 0
  /\ IF b.inclusive THEN b.printed[1] + b.printed[2] = b.amount ELSE b.printed[1] = b.amount

Resolvable(b) == b.amount > 0 /\ (b.printed = <<>> \/ PrintedFits(b))

\* Mutant: VAT is derived again whatever the bill says.
ResolveMutant(b) == Computed(b)

\* What the bill prints is stored as printed.
Resolve(b) ==
  IF b.printed = <<>> THEN Computed(b) ELSE [excl |-> b.printed[1], vat |-> b.printed[2]]

Distance(a, b) == IF a > b THEN a - b ELSE b - a

\* Only a full tax invoice of a registered vendor, for business use, inside its year.
InputCredit(b) ==
  /\ b.registered /\ b.type = "rule17" /\ b.business
  /\ b.day <= today /\ today <= b.day + Window

\* record_expense knows two categories: goods, and services at two rates.
Tds(b, excl) ==
  IF b.table # "expenses" \/ ~b.service THEN 0
  ELSE MulBps(excl, IF b.registered THEN RegisteredBps ELSE PanOnlyBps)

AmountsSane(f) ==
  /\ \A a \in {f.excl, f.excl + f.vat} : a > 0 /\ a <= MaxAmount
  /\ f.vat <= MaxAmount

\* Mutant: whatever is within a rupee is close enough.
VatMathMutant(f) == Distance(f.vat, MulBps(f.excl, VatBps)) <= 100 * Tolerance

VatMath(f) == Distance(f.vat, MulBps(f.excl, VatBps)) <= Tolerance

Total(e) == e.excl + e.vat

SameInvoice(b, o) ==
  b.table = "expenses" /\ b.no # 0 /\ Key(b.vendor) = Key(o.vendor) /\ b.no = o.no

\* Mutant: only the day is searched.
CandidatesMutant(b, replaced) ==
  { i \in DOMAIN entries :
      entries[i].bill.table = b.table /\ entries[i].live /\ i # replaced
      /\ entries[i].bill.day = b.day }

\* Live entries of the same table on the same day or with the same invoice number,
\* without the draft that this entry corrects.
Candidates(b, replaced) ==
  { i \in DOMAIN entries :
      /\ entries[i].bill.table = b.table /\ entries[i].live /\ i # replaced
      /\ entries[i].bill.day = b.day \/ SameInvoice(b, entries[i].bill) }

Duplicate(b, f, existing) ==
  \E i \in existing :
    \/ SameInvoice(b, entries[i].bill)
    \/ Total(entries[i]) = Total(f) /\ entries[i].bill.day = b.day

\* The checks that do not pass.  An entry on credit is compared with nothing.
Warnings(b, f, replaced) ==
  LET existing == IF b.table \in Cash THEN Candidates(b, replaced) ELSE {} IN
  { c \in Check :
      CASE c = "sanity.amounts" -> ~AmountsSane(f)
        [] c = "vat.math" -> ~VatMath(f)
        [] c = "vat.totals" -> FALSE
        [] c = "vat.input_credit" -> b.table \in Purchases /\ ~InputCredit(b)
        [] c = "duplicate" -> Duplicate(b, f, existing) }

Month(day) == day \div MonthDays

\* The draft is locked: whoever corrects it next waits and finds it superseded.
Supersedable(c, i, table) ==
  /\ i \in DOMAIN entries /\ entries[i].live /\ entries[i].bill.table = table /\ table \in Cash
  /\ \A o \in Call \ {c} : call[o] # Idle => call[o].replaces # i

\* Mutant: the name is looked up as it is written.
KnownAsMutant(n) == {m \in DOMAIN parties : m = n}

KnownAs(n) == {m \in DOMAIN parties : Key(m) = Key(n)}
-------------------------------------------------------------------------------
\* What the transaction reads.  A cash entry dated ahead of today is refused, and so
\* is one whose figures cannot be resolved or are absurd: nothing is saved (the line
\* of the audit log that says so is left out).
Look(c, b, replaced) ==
  /\ call[c] = Idle
  /\ Len(entries) + Cardinality({o \in Call : call[o] # Idle}) < MaxEntries
  /\ Resolvable(b)
  /\ b.table \in Cash => b.day <= today
  /\ replaced # 0 => Supersedable(c, replaced, b.table)
  /\ LET f == Resolve(b)
         known == KnownAs(b.vendor)
     IN
     /\ AmountsSane(f)
     /\ \E party \in IF b.table \in Cash THEN {NoParty} ELSE IF known = {} THEN {b.vendor} ELSE known :
          call' = [call EXCEPT ![c] =
            [at |-> "write", bill |-> b, replaces |-> replaced, figures |-> f, party |-> party,
             backdated |-> b.table \in Cash /\ Month(b.day) < Month(today),
             credit |-> b.table \in Purchases /\ InputCredit(b),
             warned |-> Warnings(b, f, replaced), saw |-> DOMAIN entries, names |-> DOMAIN parties]]
  /\ UNCHANGED <<today, entries, parties>>

\* The rows go in together, with the party if it was not found.
Save(c) ==
  /\ call[c] # Idle
  /\ LET t == call[c]
         made == t.party # NoParty /\ t.party \notin t.names
     IN
     /\ made => t.party \notin DOMAIN parties
     /\ parties' =
          IF made
          THEN [n \in DOMAIN parties \cup {t.party} |->
                  IF n = t.party THEN [by |-> "entry", saw |-> t.names] ELSE parties[n]]
          ELSE parties
     /\ entries' = Append(
          [i \in DOMAIN entries |->
             IF i = t.replaces THEN [entries[i] EXCEPT !.live = FALSE] ELSE entries[i]],
          [bill |-> t.bill, excl |-> t.figures.excl, vat |-> t.figures.vat,
           inputVat |-> IF t.credit THEN t.figures.vat ELSE 0,
           tds |-> Tds(t.bill, t.figures.excl), backdated |-> t.backdated, party |-> t.party,
           live |-> TRUE, warned |-> t.warned, saw |-> t.saw])
  /\ call' = [call EXCEPT ![c] = Idle]
  /\ UNCHANGED today

\* The unique index refuses a name that another call has made meanwhile.
NameTaken(c) ==
  /\ call[c] # Idle /\ call[c].party \in DOMAIN parties \ call[c].names
  /\ call' = [call EXCEPT ![c] = Idle]
  /\ UNCHANGED <<today, entries, parties>>

\* The agent remembers a party; the index tells only names as written apart.
UpsertParty(n) ==
  /\ parties' = [m \in DOMAIN parties \cup {n} |->
       IF m \in DOMAIN parties THEN parties[m] ELSE [by |-> "upsert", saw |-> {}]]
  /\ UNCHANGED <<today, entries, call>>

NextDay ==
  /\ today < MaxDay /\ today' = today + 1
  /\ UNCHANGED <<entries, parties, call>>

Next ==
  \/ NextDay
  \/ \E n \in Name : UpsertParty(n)
  \/ \E c \in Call :
       \/ Save(c) \/ NameTaken(c)
       \/ \E b \in Bill, replaced \in {0} \cup DOMAIN entries : Look(c, b, replaced)

Spec == Init /\ [][Next]_vars
-------------------------------------------------------------------------------
(* Properties *)

\* "excl + vat is the invoice total": the figures stored add up to what the bill
\* says, and are the printed ones where it prints them.
FiguresReconcile ==
  \A i \in DOMAIN entries :
    LET e == entries[i] IN
    /\ e.bill.inclusive => Total(e) = e.bill.amount
    /\ e.bill.printed # <<>> => <<e.excl, e.vat>> = e.bill.printed
    /\ e.inputVat \in {0, e.vat} /\ e.tds <= e.excl

\* VAT that is a paisa and a half or more away from the rate is never saved without
\* a warning on record.
OddVatWarned ==
  \A i \in DOMAIN entries :
    2 * Distance(10000 * entries[i].vat, VatBps * entries[i].excl) > 3 * 10000 * Tolerance =>
      "vat.math" \in entries[i].warned

Twins(i, j) ==
  /\ entries[i].bill.table = entries[j].bill.table /\ entries[j].bill.table \in Cash
  /\ entries[i].live /\ entries[j].live
  /\ \/ SameInvoice(entries[j].bill, entries[i].bill)
     \/ Total(entries[i]) = Total(entries[j]) /\ entries[i].bill.day = entries[j].bill.day

\* A cash entry is stored twice without a warning only if both calls were under way
\* together, so that neither saw the other's row.
TwinWarned ==
  \A i, j \in DOMAIN entries :
    i < j /\ Twins(i, j) /\ i \in entries[j].saw => "duplicate" \in entries[j].warned

\* "Find or create the party by case-insensitive name": a party has two rows only if
\* one was remembered by upsert_party, or both were made by calls under way together.
OneRowPerParty ==
  \A m, n \in DOMAIN parties :
    m # n /\ Key(m) = Key(n) =>
      \/ "upsert" \in {parties[m].by, parties[n].by}
      \/ m \notin parties[n].saw /\ n \notin parties[m].saw
===============================================================================
