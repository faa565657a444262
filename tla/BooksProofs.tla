------------------------------- MODULE BooksProofs -----------------------------
(***************************************************************************)
(* Proofs about the stores of a business's figures, as BooksMC runs them:  *)
(* the receivables and payables of PartyPayments and the PDF reports of    *)
(* ReportDelivery, for any number of invoices and payments, any amounts,   *)
(* keys, calls and requests; what is stored of a bill (BillEntry), the     *)
(* numbers of a fiscal year and the chain of the audit log (TaxDocuments), *)
(* for any number of entries, documents and days; and the Tally bridge     *)
(* (TallyJobs): whose figures the owner is told, in how many hands a job   *)
(* is, and that the bridge keeps the promise of TallyAnswers, for any      *)
(* number of connectors, jobs, tool calls and installations; and the       *)
(* deadlines of ComplianceCalendar, for any years, months and horizon.     *)
(*                                                                         *)
(* Balances, statements and reports are sums (SumTheorems), and a plan is  *)
(* worked out by recursion.                                                *)
(***************************************************************************)
EXTENDS BooksMC, Sequences, SumTheorems
-------------------------------------------------------------------------------
(* Receivables and payables *)

LEMMA PartyBounds ==
  /\ Invoices \in Nat /\ MaxPayments \in Nat
  /\ InvoiceTotal \in Nat /\ InvoiceTotal > 0
  /\ Amount \subseteq Nat /\ \A a \in Amount : a \in Nat /\ a > 0
BY CountAssumption, MoneyAssumption

\* The instance adds up like the library.
LEMMA PartySum == \A f : Party!SumFunction(f) = SumFunctionOnSet(f, DOMAIN f)
BY DEF Party!SumFunction, Party!SumFunctionOnSet, Party!FoldFunctionOnSet, Party!MapThenFoldSet,
       SumFunctionOnSet, FoldFunctionOnSet, MapThenFoldSet

LEMMA PartyCard == \A S : Party!Cardinality(S) = Cardinality(S)
BY DEF Party!Cardinality, Cardinality

\* A plan fills the invoices in order: none gets more than is open, and what comes
\* before one that gets something is filled.
Fills(plan, seen) ==
  \A j \in Party!Invoice : plan[j] > 0 =>
    plan[j] <= seen[j] /\ \A i \in 1..(j - 1) : plan[i] = seen[i]

PartyTypes ==
  /\ invoices \in [Party!Invoice -> Party!InvoiceRow]
  /\ payments \in [Party!Payment -> Party!PaymentRow]
  /\ keys \in [Keys -> Party!KeyRow]
  /\ paying \in [Calls -> Party!CallState]
  /\ applied \in [Party!Payment -> Nat]
  /\ overlapped \subseteq Party!Payment

\* A call at work holds its key, and a payment is the result of one key.
KeysSound ==
  /\ \A c \in Calls : paying[c].at \in {"plan", "save"} =>
       keys[paying[c].key] = [state |-> "claimed", by |-> c]
  /\ \A k \in Keys : keys[k].state = "saved" => payments[keys[k].payment].status # "absent"
  /\ \A k, l \in Keys : keys[k].state = "saved" /\ keys[l] = keys[k] => k = l
  /\ \A p \in Party!Payment : payments[p].status # "absent" =>
       \E k \in Keys : keys[k] = [state |-> "saved", payment |-> p]

\* A plan gives out the amount of its payment, to confirmed invoices.
PlansSound ==
  /\ \A c \in Calls : paying[c].at = "save" =>
       /\ Party!Allocates(paying[c].plan, paying[c].amount)
       /\ \A i \in Party!Invoice : paying[c].plan[i] > 0 => invoices[i].status = "confirmed"
       /\ paying[c].auto => Fills(paying[c].plan, paying[c].seen)
  /\ \A p \in Party!Payment :
       /\ Party!Allocates(payments[p].plan, payments[p].amount)
       /\ \A i \in Party!Invoice : payments[p].plan[i] > 0 => invoices[i].status = "confirmed"

\* A payment was taken off the balances if and only if it is confirmed, and again only
\* by calls that began together.
ApplySound ==
  /\ \A p \in Party!Payment : payments[p].status = "confirmed" <=> applied[p] > 0
  /\ \A c \in Calls : paying[c].at = "apply" => payments[paying[c].payment].status # "absent"
  /\ \A c, d \in Calls : (paying[c].at = "apply" /\ paying[d] = paying[c] /\ c # d) =>
       paying[c].payment \in overlapped
  /\ \A c \in Calls : (paying[c].at = "apply" /\ applied[paying[c].payment] > 0) =>
       paying[c].payment \in overlapped
  /\ Party!TwiceOnlyByOverlap

Confirmed == {i \in Party!Invoice : invoices[i].status = "confirmed"}
Taken(i) == [p \in Party!Payment |-> applied[p] * payments[p].plan[i]]
Received == [p \in Party!Payment |-> applied[p] * payments[p].amount]

\* What is owed is what was invoiced less what was taken off, for each invoice and
\* for all together.
BalanceSound ==
  /\ \A i \in Party!Invoice : invoices[i].status # "absent" =>
       invoices[i].balance = InvoiceTotal - SumFunctionOnSet(Taken(i), Party!Payment)
  /\ SumFunctionOnSet(Party!Open, Party!Invoice) =
       InvoiceTotal * Cardinality(Confirmed) - SumFunctionOnSet(Received, Party!Payment)

PartyInv == PartyTypes /\ KeysSound /\ PlansSound /\ ApplySound /\ BalanceSound
-------------------------------------------------------------------------------
LEMMA IntervalFinite == \A n \in Nat : IsFiniteSet(1..n) /\ 1..n \subseteq Nat
BY FS_Interval

LEMMA PartyFinite ==
  /\ IsFiniteSet(Party!Invoice) /\ IsFiniteSet(Party!Payment)
  /\ Party!Invoice \subseteq Nat /\ Party!Payment \subseteq Nat
BY PartyBounds, IntervalFinite DEF Party!Invoice, Party!Payment

LEMMA PartyRows ==
  ASSUME PartyTypes
  PROVE  /\ \A i \in Party!Invoice : /\ invoices[i] \in Party!InvoiceRow
                                     /\ invoices[i].balance \in Party!Money
         /\ \A p \in Party!Payment : /\ payments[p] \in Party!PaymentRow
                                     /\ payments[p].plan \in Party!Plan
                                     /\ payments[p].amount \in Nat /\ applied[p] \in Nat
         /\ Party!Open \in Party!Plan
         /\ Party!Money \subseteq Nat /\ InvoiceTotal \in Nat
<1>1. InvoiceTotal \in Nat /\ Party!Money \subseteq Nat /\ 0 \in Party!Money
  BY PartyBounds DEF Party!Money
<1>2. \A i \in Party!Invoice : /\ invoices[i] \in Party!InvoiceRow
                               /\ invoices[i].balance \in Party!Money
  BY DEF PartyTypes, Party!InvoiceRow
<1>3. Party!Open \in Party!Plan
  BY <1>1, <1>2 DEF Party!Open, Party!Plan
<1>4. ASSUME NEW p \in Party!Payment
      PROVE  /\ payments[p] \in Party!PaymentRow /\ payments[p].plan \in Party!Plan
             /\ payments[p].amount \in Nat /\ applied[p] \in Nat
  <2>1. payments[p] \in Party!PaymentRow /\ applied[p] \in Nat
    BY DEF PartyTypes
  <2>2. payments[p].plan \in Party!Plan /\ payments[p].amount \in Amount \cup {0}
    BY <2>1 DEF Party!PaymentRow
  <2>3. Amount \cup {0} \subseteq Nat
    BY PartyBounds
  <2>4. payments[p].amount \in Nat
    BY <2>2, <2>3
  <2> QED BY <2>1, <2>2, <2>4
<1> QED BY <1>1, <1>2, <1>3, <1>4

\* The states of a call, with what each holds.
LEMMA CallsTyped ==
  ASSUME PartyTypes, NEW c \in Calls
  PROVE  /\ paying[c] \in Party!CallState
         /\ paying[c].at \in {"idle", "plan", "save", "apply"}
         /\ paying[c].at = "idle" => paying[c] = Party!Idle
         /\ paying[c].at \in {"plan", "save"} => paying[c].key \in Keys
         /\ paying[c].at = "save" =>
              paying[c].amount \in Amount /\ paying[c].plan \in Party!Plan /\ paying[c].seen \in Party!Plan
         /\ paying[c].at = "apply" =>
              /\ paying[c].payment \in Party!Payment
              /\ paying[c] = [at |-> "apply", payment |-> paying[c].payment]
BY DEF PartyTypes, Party!CallState, Party!Idle

LEMMA KeysTyped ==
  ASSUME PartyTypes, NEW k \in Keys
  PROVE  /\ keys[k] \in Party!KeyRow
         /\ keys[k].state \in {"free", "rejected", "saved", "claimed"}
         /\ keys[k].state = "saved" =>
              keys[k].payment \in Party!Payment /\ keys[k] = [state |-> "saved", payment |-> keys[k].payment]
         /\ keys[k].state = "claimed" => keys[k] = [state |-> "claimed", by |-> keys[k].by]
BY DEF PartyTypes, Party!KeyRow, Party!Free, Party!Rejected

\* Before anything is recorded.
LEMMA PartyInit == Party!Init => PartyInv
<1> SUFFICES ASSUME Party!Init PROVE PartyInv
  OBVIOUS
<1>1. /\ 0 \in Party!Money /\ Party!NoPlan \in Party!Plan
      /\ [status |-> "absent", balance |-> 0] \in Party!InvoiceRow
      /\ Party!NoPayment \in Party!PaymentRow /\ Party!Free \in Party!KeyRow
      /\ Party!Idle \in Party!CallState
  BY PartyBounds DEF Party!Money, Party!NoPlan, Party!Plan, Party!InvoiceRow, Party!PaymentRow, Party!NoPayment,
         Party!KeyRow, Party!CallState
<1>2. /\ \A i \in Party!Invoice : invoices[i] = [status |-> "absent", balance |-> 0]
      /\ \A p \in Party!Payment : payments[p] = Party!NoPayment /\ applied[p] = 0
      /\ \A k \in Keys : keys[k] = Party!Free
      /\ \A c \in Calls : paying[c] = Party!Idle
  BY DEF Party!Init
<1>3. PartyTypes
  BY <1>1 DEF Party!Init, PartyTypes
<1>4. KeysSound
  BY <1>2 DEF KeysSound, Party!Free, Party!Idle, Party!NoPayment
<1>5. PlansSound
  <2>1. Party!Allocates(Party!NoPlan, 0)
    <3>1. SumFunctionOnSet(Party!NoPlan, Party!Invoice) = 0
      BY PartyFinite, SumZero DEF Party!NoPlan
    <3>2. DOMAIN Party!NoPlan = Party!Invoice
      BY DEF Party!NoPlan
    <3> QED BY <3>1, <3>2, PartySum DEF Party!Allocates
  <2>2. \A p \in Party!Payment : payments[p].plan = Party!NoPlan /\ payments[p].amount = 0
    BY <1>2 DEF Party!NoPayment
  <2>3. \A i \in Party!Invoice : ~(Party!NoPlan[i] > 0)
    BY DEF Party!NoPlan
  <2> QED BY <1>2, <2>1, <2>2, <2>3 DEF PlansSound, Party!Idle
<1>6. ApplySound
  BY <1>2 DEF ApplySound, Party!TwiceOnlyByOverlap, Party!Idle, Party!NoPayment
<1>7. BalanceSound
  <2>1. Confirmed = {}
    BY <1>2 DEF Confirmed
  <2>2. SumFunctionOnSet(Party!Open, Party!Invoice) = 0
    <3>1. \A i \in Party!Invoice : Party!Open[i] = 0
      BY <1>2 DEF Party!Open
    <3> QED BY <3>1, PartyFinite, SumZero
  <2>3. SumFunctionOnSet(Received, Party!Payment) = 0
    <3>1. \A p \in Party!Payment : Received[p] = 0
      BY <1>2 DEF Received, Party!NoPayment
    <3> QED BY <3>1, PartyFinite, SumZero
  <2>4. Cardinality(Confirmed) = 0
    BY <2>1, FS_EmptySet
  <2> QED BY <1>2, <2>2, <2>3, <2>4, PartyBounds DEF BalanceSound
<1> QED BY <1>3, <1>4, <1>5, <1>6, <1>7 DEF PartyInv
-------------------------------------------------------------------------------
(* The automatic plan *)

\* left is the function AutoPlan defines by recursion: what the first i invoices leave.
Leaves(left, amount, open) ==
  left = [i \in 0..Invoices |-> IF i = 0 THEN amount
            ELSE IF left[i - 1] < open[i] THEN 0 ELSE left[i - 1] - open[i]]

LEMMA LeavesExists ==
  ASSUME NEW amount, NEW open
  PROVE  \E left : Leaves(left, amount, open)
<1> DEFINE Rest(f, i) == IF f[i - 1] < open[i] THEN 0 ELSE f[i - 1] - open[i]
           G == {n \in Nat : \E f : f = [i \in 0..n |-> IF i = 0 THEN amount ELSE Rest(f, i)]}
<1>1. 0 \in G
  <2> DEFINE f == [i \in 0..0 |-> amount]
  <2>1. f = [i \in 0..0 |-> IF i = 0 THEN amount ELSE Rest(f, i)]
    <3>1. \A i \in 0..0 : i = 0
      OBVIOUS
    <3> QED BY <3>1
  <2> QED BY <2>1
<1>2. ASSUME NEW n \in 0..(Invoices - 1), n \in G PROVE n + 1 \in G
  <2>1. n \in Nat /\ n + 1 \in Nat
    BY PartyBounds
  <2>2. PICK f : f = [i \in 0..n |-> IF i = 0 THEN amount ELSE Rest(f, i)]
    BY <1>2
  <2> DEFINE h == [i \in 0..(n + 1) |-> IF i = n + 1 THEN Rest(f, i) ELSE f[i]]
  <2>3. ASSUME NEW i \in 0..(n + 1)
        PROVE  h[i] = IF i = 0 THEN amount ELSE Rest(h, i)
    <3>1. CASE i = n + 1
      <4>1. h[i - 1] = f[i - 1] /\ i # 0
        BY <3>1, <2>1
      <4> QED BY <3>1, <4>1
    <3>2. CASE i # n + 1
      <4>1. i \in 0..n /\ h[i] = f[i]
        BY <3>2, <2>1
      <4>2. i # 0 => h[i - 1] = f[i - 1]
        BY <4>1, <2>1
      <4>3. f[i] = IF i = 0 THEN amount ELSE Rest(f, i)
        BY <2>2, <4>1
      <4> QED BY <4>1, <4>2, <4>3
    <3> QED BY <3>1, <3>2
  <2>4. h = [i \in 0..(n + 1) |-> IF i = 0 THEN amount ELSE Rest(h, i)]
    <3>1. DOMAIN h = 0..(n + 1) /\ h = [i \in DOMAIN h |-> h[i]]
      OBVIOUS
    <3> HIDE DEF h
    <3> QED BY <3>1, <2>3
  <2> HIDE DEF h, Rest
  <2> QED BY <2>1, <2>4
<1>3. Invoices \in G
  <2> HIDE DEF G
  <2>1. 0..Invoices \subseteq G
    BY <1>1, <1>2, PartyBounds, UpToBound
  <2> QED BY <2>1, PartyBounds
<1> QED BY <1>3 DEF Leaves

\* What the automatic plan gives: to each invoice at most what is open, the oldest first.
LEMMA AutoPlanFills ==
  ASSUME NEW amount \in Nat, NEW open \in Party!Plan
  PROVE  LET plan == Party!AutoPlan(amount, open)
         IN  plan \in Party!Plan /\ Fills(plan, open) /\ \A i \in Party!Invoice : plan[i] <= open[i]
<1>1. PICK left : /\ left = (CHOOSE f : Leaves(f, amount, open))
                  /\ Leaves(left, amount, open)
  BY LeavesExists
<1> DEFINE plan == Party!AutoPlan(amount, open)
<1>2. plan = [i \in Party!Invoice |-> left[i - 1] - left[i]]
  BY <1>1 DEF Party!AutoPlan, Leaves
<1>3. left[0] = amount
  BY <1>1, PartyBounds DEF Leaves
<1>4. ASSUME NEW i \in Party!Invoice
      PROVE  /\ i \in 1..Invoices /\ i - 1 \in 0..Invoices /\ i \in Nat
             /\ open[i] \in Party!Money /\ open[i] \in Nat /\ open[i] <= InvoiceTotal
             /\ left[i] = IF left[i - 1] < open[i] THEN 0 ELSE left[i - 1] - open[i]
  <2>1. i \in 1..Invoices /\ i - 1 \in 0..Invoices /\ i \in 0..Invoices /\ i # 0 /\ i \in Nat
    BY PartyBounds DEF Party!Invoice
  <2>2. open[i] \in Party!Money
    BY DEF Party!Plan
  <2>3. left[i] = IF left[i - 1] < open[i] THEN 0 ELSE left[i - 1] - open[i]
    BY <1>1, <2>1 DEF Leaves
  <2> QED BY <2>1, <2>2, <2>3, PartyBounds DEF Party!Money
<1>5. \A i \in 0..Invoices : left[i] \in Nat
  <2> DEFINE G == {i \in Nat : left[i] \in Nat}
  <2>1. ASSUME NEW n \in 0..(Invoices - 1), n \in G PROVE n + 1 \in G
    <3>1. n + 1 \in Party!Invoice /\ n \in Nat /\ (n + 1) - 1 = n
      BY PartyBounds DEF Party!Invoice
    <3>2. left[n + 1] = IF left[n] < open[n + 1] THEN 0 ELSE left[n] - open[n + 1]
      BY <3>1, <1>4
    <3>3. open[n + 1] \in Nat /\ left[n] \in Nat
      BY <3>1, <1>4, <2>1
    <3> QED BY <3>1, <3>2, <3>3
  <2>2. 0..Invoices \subseteq G
    <3>1. 0 \in G
      BY <1>3
    <3> HIDE DEF G
    <3> QED BY <3>1, <2>1, PartyBounds, UpToBound
  <2> QED BY <2>2
<1>6. ASSUME NEW i \in Party!Invoice
      PROVE  /\ plan[i] = left[i - 1] - left[i] /\ plan[i] \in Nat
             /\ plan[i] <= open[i] /\ plan[i] <= left[i - 1]
             /\ left[i] > 0 => left[i - 1] > 0 /\ plan[i] = open[i]
  <2>1. plan[i] = left[i - 1] - left[i]
    BY <1>2
  <2>2. left[i - 1] \in Nat /\ left[i] \in Nat /\ open[i] \in Nat
    BY <1>4, <1>5, PartyBounds DEF Party!Invoice
  <2>3. left[i] = IF left[i - 1] < open[i] THEN 0 ELSE left[i - 1] - open[i]
    BY <1>4
  <2> HIDE DEF plan
  <2> QED BY <2>1, <2>2, <2>3
<1>7. \A j \in 0..Invoices : left[j] > 0 => \A i \in 1..j : plan[i] = open[i]
  <2> DEFINE G == {j \in Nat : left[j] > 0 => \A i \in 1..j : plan[i] = open[i]}
  <2>1. ASSUME NEW n \in 0..(Invoices - 1), n \in G PROVE n + 1 \in G
    <3>1. n + 1 \in Party!Invoice /\ n \in Nat /\ (n + 1) - 1 = n /\ n + 1 \in Nat
      BY PartyBounds DEF Party!Invoice
    <3>2. ASSUME left[n + 1] > 0, NEW i \in 1..(n + 1) PROVE plan[i] = open[i]
      <4>1. left[n] > 0 /\ plan[n + 1] = open[n + 1]
        BY <3>1, <3>2, <1>6
      <4>2. \A k \in 1..n : plan[k] = open[k]
        BY <4>1, <2>1
      <4>3. i = n + 1 \/ i \in 1..n
        BY <3>1
      <4> HIDE DEF plan
      <4> QED BY <4>1, <4>2, <4>3
    <3> HIDE DEF plan
    <3> QED BY <3>1, <3>2
  <2>2. 0..Invoices \subseteq G
    <3>1. 0 \in G
      BY <1>3
    <3> HIDE DEF G
    <3> QED BY <3>1, <2>1, PartyBounds, UpToBound
  <2> HIDE DEF plan
  <2> QED BY <2>2
<1>8. plan \in Party!Plan
  <2>1. ASSUME NEW i \in Party!Invoice PROVE left[i - 1] - left[i] \in Party!Money
    <3>1. plan[i] \in Nat /\ plan[i] <= open[i] /\ open[i] <= InvoiceTotal /\ open[i] \in Nat
      BY <1>6, <1>4
    <3>2. left[i - 1] - left[i] = plan[i]
      BY <1>6
    <3> HIDE DEF plan
    <3> QED BY <3>1, <3>2, PartyBounds DEF Party!Money
  <2> QED BY <2>1, <1>2 DEF Party!Plan
<1>9. Fills(plan, open)
  <2> SUFFICES ASSUME NEW j \in Party!Invoice, plan[j] > 0
               PROVE  plan[j] <= open[j] /\ \A i \in 1..(j - 1) : plan[i] = open[i]
    BY DEF Fills
  <2>1. j - 1 \in 0..Invoices /\ left[j - 1] \in Nat /\ plan[j] \in Nat /\ plan[j] <= left[j - 1]
    BY <1>4, <1>5, <1>6
  <2>2. left[j - 1] > 0
    BY <2>1
  <2> QED BY <2>1, <2>2, <1>6, <1>7
<1> QED BY <1>6, <1>8, <1>9
-------------------------------------------------------------------------------
(* The steps *)

\* A proposal, with or without instructions: a plan the balances of now allow.
Proposes(c, amount, plan, auto) ==
  /\ Party!Propose(c, amount, plan, auto)
  /\ amount \in Amount /\ plan \in Party!Plan /\ auto \in BOOLEAN
  /\ \A i \in Party!Invoice : plan[i] <= Party!Open[i]
  /\ auto => Fills(plan, Party!Open)

\* What Next may do, one action at a time.
LEMMA PartyActions ==
  ASSUME PartyTypes, Party!Next
  PROVE  \/ \E i \in Party!Invoice : Party!RecordInvoice(i) \/ Party!ConfirmInvoice(i)
         \/ \E c \in Calls, k \in Keys : Party!ClaimKey(c, k)
         \/ \E c \in Calls, amount \in Amount, plan \in Party!Plan, auto \in BOOLEAN :
              Proposes(c, amount, plan, auto)
         \/ \E c \in Calls, p \in Party!Payment : Party!Save(c, p) \/ Party!BeginConfirm(c, p)
         \/ \E c \in Calls : Party!Reject(c) \/ Party!Apply(c) \/ Party!Refuse(c) \/ Party!Rollback(c)
<1>1. ASSUME NEW c \in Calls, NEW amount \in Amount,
             Party!Propose(c, amount, Party!AutoPlan(amount, Party!Open), TRUE)
      PROVE  \E plan \in Party!Plan : Proposes(c, amount, plan, TRUE)
  <2>1. amount \in Nat /\ Party!Open \in Party!Plan
    BY PartyBounds, PartyRows
  <2>2. /\ Party!AutoPlan(amount, Party!Open) \in Party!Plan
        /\ Fills(Party!AutoPlan(amount, Party!Open), Party!Open)
        /\ \A i \in Party!Invoice : Party!AutoPlan(amount, Party!Open)[i] <= Party!Open[i]
    BY <2>1, AutoPlanFills
  <2> QED BY <1>1, <2>2 DEF Proposes
<1>2. ASSUME NEW c \in Calls, NEW amount \in Amount, NEW plan \in Party!ManualPlans(Party!Open),
             Party!Propose(c, amount, plan, FALSE)
      PROVE  plan \in Party!Plan /\ Proposes(c, amount, plan, FALSE)
  BY <1>2 DEF Proposes, Party!ManualPlans
<1> QED BY <1>1, <1>2, Zenon DEF Party!Next

\* Every step keeps the types.
LEMMA PartyTypesKept == PartyTypes /\ Party!Next => PartyTypes'
<1> SUFFICES ASSUME PartyTypes, Party!Next PROVE PartyTypes'
  OBVIOUS
<1>1. ASSUME NEW i \in Party!Invoice, Party!RecordInvoice(i) \/ Party!ConfirmInvoice(i)
      PROVE  PartyTypes'
  <2>1. /\ [status |-> "draft", balance |-> InvoiceTotal] \in Party!InvoiceRow
        /\ [invoices[i] EXCEPT !.status = "confirmed"] \in Party!InvoiceRow
    BY PartyRows, PartyBounds DEF Party!InvoiceRow, Party!Money
  <2>2. invoices' \in [Party!Invoice -> Party!InvoiceRow]
    BY <1>1, <2>1 DEF PartyTypes, Party!RecordInvoice, Party!ConfirmInvoice
  <2> QED BY <1>1, <2>2 DEF PartyTypes, Party!RecordInvoice, Party!ConfirmInvoice
<1>2. ASSUME NEW c \in Calls, NEW k \in Keys, Party!ClaimKey(c, k) PROVE PartyTypes'
  <2>1. [state |-> "claimed", by |-> c] \in Party!KeyRow /\ [at |-> "plan", key |-> k] \in Party!CallState
    BY DEF Party!KeyRow, Party!CallState
  <2> QED BY <1>2, <2>1 DEF PartyTypes, Party!ClaimKey
<1>3. ASSUME NEW c \in Calls, NEW amount \in Amount, NEW plan \in Party!Plan, NEW auto \in BOOLEAN,
             Proposes(c, amount, plan, auto)
      PROVE  PartyTypes'
  <2>1. paying[c].key \in Keys /\ Party!Open \in Party!Plan
    BY <1>3, CallsTyped, PartyRows DEF Proposes, Party!Propose
  <2>2. [at |-> "save", key |-> paying[c].key, amount |-> amount, plan |-> plan,
         seen |-> Party!Open, auto |-> auto] \in Party!CallState
    BY <2>1 DEF Party!CallState
  <2> QED BY <1>3, <2>2 DEF PartyTypes, Proposes, Party!Propose
<1>4. ASSUME NEW c \in Calls, NEW p \in Party!Payment, Party!Save(c, p) PROVE PartyTypes'
  <2>1. /\ paying[c].key \in Keys /\ paying[c].amount \in Amount /\ paying[c].plan \in Party!Plan
    BY <1>4, CallsTyped DEF Party!Save
  <2>2. /\ [status |-> "draft", amount |-> paying[c].amount, plan |-> paying[c].plan] \in Party!PaymentRow
        /\ [state |-> "saved", payment |-> p] \in Party!KeyRow /\ Party!Idle \in Party!CallState
    BY <2>1 DEF Party!PaymentRow, Party!KeyRow, Party!CallState
  <2> QED BY <1>4, <2>1, <2>2 DEF PartyTypes, Party!Save
<1>5. ASSUME NEW c \in Calls, NEW p \in Party!Payment, Party!BeginConfirm(c, p) PROVE PartyTypes'
  <2>1. [at |-> "apply", payment |-> p] \in Party!CallState
    BY DEF Party!CallState
  <2> QED BY <1>5, <2>1 DEF PartyTypes, Party!BeginConfirm
<1>6. ASSUME NEW c \in Calls, Party!Reject(c) \/ Party!Refuse(c) \/ Party!Rollback(c) PROVE PartyTypes'
  <2>1. Party!Rejected \in Party!KeyRow /\ Party!Free \in Party!KeyRow /\ Party!Idle \in Party!CallState
    BY DEF Party!KeyRow, Party!CallState
  <2>2. keys' \in [Keys -> Party!KeyRow] /\ paying' \in [Calls -> Party!CallState]
    BY <1>6, <2>1 DEF PartyTypes, Party!Reject, Party!Refuse, Party!Rollback
  <2> QED BY <1>6, <2>2 DEF PartyTypes, Party!Reject, Party!Refuse, Party!Rollback
<1>7. ASSUME NEW c \in Calls, Party!Apply(c) PROVE PartyTypes'
  <2> DEFINE p == paying[c].payment
             plan == payments[p].plan
  <2>1. p \in Party!Payment /\ plan \in Party!Plan /\ Party!Covered(plan)
    BY <1>7, CallsTyped, PartyRows DEF Party!Apply
  <2>2. invoices' = [i \in Party!Invoice |-> IF plan[i] = 0 THEN invoices[i]
                       ELSE [invoices[i] EXCEPT !.balance = invoices[i].balance - plan[i]]]
    BY <1>7 DEF Party!Apply, Party!Reduced
  <2>3. ASSUME NEW i \in Party!Invoice
        PROVE  /\ invoices[i] \in Party!InvoiceRow
               /\ [invoices[i] EXCEPT !.balance = invoices[i].balance - plan[i]] \in Party!InvoiceRow
    <3>1. invoices[i] \in Party!InvoiceRow /\ invoices[i].balance \in Party!Money
      BY PartyRows
    <3>2. plan[i] \in Party!Money /\ plan[i] <= invoices[i].balance
      BY <2>1 DEF Party!Plan, Party!Covered
    <3>3. invoices[i].balance - plan[i] \in Party!Money
      <4> HIDE DEF plan
      <4> QED BY <3>1, <3>2, PartyBounds DEF Party!Money
    <3> HIDE DEF plan
    <3> QED BY <3>1, <3>3 DEF Party!InvoiceRow
  <2>4. invoices' \in [Party!Invoice -> Party!InvoiceRow]
    <3> HIDE DEF plan
    <3> QED BY <2>2, <2>3
  <2>5. payments' \in [Party!Payment -> Party!PaymentRow]
    <3>1. [payments[p] EXCEPT !.status = "confirmed"] \in Party!PaymentRow
      BY <2>1, PartyRows DEF Party!PaymentRow
    <3>2. payments' = [payments EXCEPT ![p] = [payments[p] EXCEPT !.status = "confirmed"]]
      BY <1>7 DEF Party!Apply
    <3> QED BY <3>1, <3>2 DEF PartyTypes
  <2>6. applied' \in [Party!Payment -> Nat]
    BY <1>7, <2>1 DEF Party!Apply, PartyTypes
  <2>7. paying' \in [Calls -> Party!CallState]
    BY <1>7 DEF Party!Apply, PartyTypes, Party!CallState
  <2> QED BY <1>7, <2>4, <2>5, <2>6, <2>7 DEF Party!Apply, PartyTypes
<1> QED BY <1>1, <1>2, <1>3, <1>4, <1>5, <1>6, <1>7, PartyActions
-------------------------------------------------------------------------------
\* A key is claimed by the one call that works for it, and a payment saved under it.
LEMMA KeysKept == PartyTypes /\ KeysSound /\ ApplySound /\ Party!Next => KeysSound'
<1> SUFFICES ASSUME PartyTypes, KeysSound, ApplySound, Party!Next PROVE KeysSound'
  OBVIOUS
<1>0. Party!Idle.at = "idle" /\ Party!Free.state = "free" /\ Party!Rejected.state = "rejected"
  BY DEF Party!Idle, Party!Free, Party!Rejected
<1>1. ASSUME NEW i \in Party!Invoice, Party!RecordInvoice(i) \/ Party!ConfirmInvoice(i)
      PROVE  KeysSound'
  BY <1>1 DEF KeysSound, Party!RecordInvoice, Party!ConfirmInvoice
<1>2. ASSUME NEW c \in Calls, NEW k \in Keys, Party!ClaimKey(c, k) PROVE KeysSound'
  <2>1. /\ keys' = [keys EXCEPT ![k] = [state |-> "claimed", by |-> c]]
        /\ paying' = [paying EXCEPT ![c] = [at |-> "plan", key |-> k]]
        /\ keys[k].state = "free" /\ payments' = payments
    BY <1>2 DEF Party!ClaimKey, Party!Unused
  <2>2. /\ keys'[k] = [state |-> "claimed", by |-> c]
        /\ \A l \in Keys : l # k => keys'[l] = keys[l]
        /\ paying'[c] = [at |-> "plan", key |-> k]
        /\ \A d \in Calls : d # c => paying'[d] = paying[d]
    BY <2>1 DEF PartyTypes
  <2>3. \A d \in Calls : paying'[d].at \in {"plan", "save"} =>
          keys'[paying'[d].key] = [state |-> "claimed", by |-> d]
    BY <2>1, <2>2, CallsTyped DEF KeysSound
  <2>4. \A l \in Keys : keys'[l].state = "saved" => l # k
    BY <2>2
  <2>5. \A p \in Party!Payment, l \in Keys : keys[l] = [state |-> "saved", payment |-> p] => l # k
    BY <2>1
  <2> QED BY <2>1, <2>2, <2>3, <2>4, <2>5 DEF KeysSound
<1>3. ASSUME NEW c \in Calls, NEW amount \in Amount, NEW plan \in Party!Plan, NEW auto \in BOOLEAN,
             Proposes(c, amount, plan, auto)
      PROVE  KeysSound'
  <2>1. /\ paying[c].at = "plan" /\ keys' = keys /\ payments' = payments
        /\ paying'[c].key = paying[c].key
        /\ \A d \in Calls : d # c => paying'[d] = paying[d]
    BY <1>3 DEF Proposes, Party!Propose, PartyTypes
  <2> QED BY <2>1 DEF KeysSound
<1>4. ASSUME NEW c \in Calls, NEW p \in Party!Payment, Party!Save(c, p) PROVE KeysSound'
  <2> DEFINE k == paying[c].key
             saved == [state |-> "saved", payment |-> p]
  <2>1. /\ paying[c].at = "save" /\ k \in Keys /\ keys[k] = [state |-> "claimed", by |-> c]
        /\ payments[p].status = "absent" /\ payments'[p].status = "draft"
        /\ \A q \in Party!Payment : q # p => payments'[q] = payments[q]
        /\ keys' = [keys EXCEPT ![k] = saved]
        /\ paying' = [paying EXCEPT ![c] = Party!Idle]
    BY <1>4, CallsTyped DEF Party!Save, KeysSound, PartyTypes
  <2>2. /\ keys'[k] = saved /\ \A l \in Keys : l # k => keys'[l] = keys[l]
        /\ paying'[c] = Party!Idle /\ \A d \in Calls : d # c => paying'[d] = paying[d]
    BY <2>1 DEF PartyTypes
  <2>3. \A l \in Keys : keys[l].state = "saved" => keys[l].payment \in Party!Payment /\ keys[l].payment # p
    BY <2>1, KeysTyped DEF KeysSound
  <2>4. \A d \in Calls : paying'[d].at \in {"plan", "save"} =>
          keys'[paying'[d].key] = [state |-> "claimed", by |-> d]
    <3> SUFFICES ASSUME NEW d \in Calls, paying'[d].at \in {"plan", "save"}
                 PROVE  keys'[paying'[d].key] = [state |-> "claimed", by |-> d]
      OBVIOUS
    <3>1. d # c /\ paying'[d] = paying[d]
      BY <2>2, <1>0
    <3>2. keys[paying[d].key] = [state |-> "claimed", by |-> d] /\ paying[d].key \in Keys
      BY <3>1, CallsTyped DEF KeysSound
    <3>3. paying[d].key # k
      BY <3>1, <3>2, <2>1
    <3> QED BY <3>1, <3>2, <3>3, <2>2
  <2>5. \A l \in Keys : keys'[l].state = "saved" => payments'[keys'[l].payment].status # "absent"
    BY <2>1, <2>2, <2>3 DEF KeysSound
  <2>6. \A l, m \in Keys : keys'[l].state = "saved" /\ keys'[m] = keys'[l] => l = m
    BY <2>2, <2>3 DEF KeysSound
  <2>7. ASSUME NEW q \in Party!Payment, payments'[q].status # "absent"
        PROVE  \E l \in Keys : keys'[l] = [state |-> "saved", payment |-> q]
    <3>1. CASE q = p
      BY <3>1, <2>1, <2>2
    <3>2. CASE q # p
      <4>1. PICK l \in Keys : keys[l] = [state |-> "saved", payment |-> q]
        BY <3>2, <2>1, <2>7 DEF KeysSound
      <4>2. l # k
        BY <4>1, <2>1
      <4> QED BY <4>1, <4>2, <2>2
    <3> QED BY <3>1, <3>2
  <2> QED BY <2>4, <2>5, <2>6, <2>7 DEF KeysSound
<1>5. ASSUME NEW c \in Calls, NEW p \in Party!Payment, Party!BeginConfirm(c, p) PROVE KeysSound'
  <2>1. /\ keys' = keys /\ payments' = payments /\ paying'[c].at = "apply"
        /\ \A d \in Calls : d # c => paying'[d] = paying[d]
    BY <1>5 DEF Party!BeginConfirm, PartyTypes
  <2> QED BY <2>1 DEF KeysSound
<1>6. ASSUME NEW c \in Calls, Party!Reject(c) PROVE KeysSound'
  <2> DEFINE k == paying[c].key
  <2>1. /\ k \in Keys /\ keys[k] = [state |-> "claimed", by |-> c] /\ payments' = payments
        /\ keys'[k] = Party!Rejected /\ \A l \in Keys : l # k => keys'[l] = keys[l]
        /\ paying'[c] = Party!Idle /\ \A d \in Calls : d # c => paying'[d] = paying[d]
    BY <1>6, CallsTyped DEF Party!Reject, KeysSound, PartyTypes
  <2>2. \A d \in Calls : paying'[d].at \in {"plan", "save"} =>
          keys'[paying'[d].key] = [state |-> "claimed", by |-> d]
    <3> SUFFICES ASSUME NEW d \in Calls, paying'[d].at \in {"plan", "save"}
                 PROVE  keys'[paying'[d].key] = [state |-> "claimed", by |-> d]
      OBVIOUS
    <3>1. d # c /\ paying'[d] = paying[d]
      BY <2>1, <1>0
    <3>2. keys[paying[d].key] = [state |-> "claimed", by |-> d] /\ paying[d].key \in Keys
      BY <3>1, CallsTyped DEF KeysSound
    <3>3. [state |-> "claimed", by |-> d] # [state |-> "claimed", by |-> c]
      BY <3>1
    <3> QED BY <3>1, <3>2, <3>3, <2>1
  <2>3. \A l \in Keys : keys[l].state = "saved" \/ keys'[l].state = "saved" => l # k
    BY <2>1, <1>0
  <2>4. \A l \in Keys : \A p \in Party!Payment : keys[l] = [state |-> "saved", payment |-> p] => l # k
    BY <2>1
  <2> QED BY <2>1, <2>2, <2>3, <2>4 DEF KeysSound
<1>7. ASSUME NEW c \in Calls, Party!Apply(c) \/ Party!Refuse(c) PROVE KeysSound'
  <2>1. /\ keys' = keys /\ paying'[c] = Party!Idle
        /\ \A d \in Calls : d # c => paying'[d] = paying[d]
    BY <1>7 DEF Party!Apply, Party!Refuse, PartyTypes
  <2>2. \A p \in Party!Payment : payments'[p].status = "absent" <=> payments[p].status = "absent"
    <3>1. CASE Party!Refuse(c)
      BY <3>1 DEF Party!Refuse
    <3>2. CASE Party!Apply(c)
      <4> DEFINE q == paying[c].payment
      <4>1. q \in Party!Payment /\ payments[q].status # "absent"
        BY <3>2, CallsTyped DEF Party!Apply, ApplySound
      <4>2. payments' = [payments EXCEPT ![q] = [payments[q] EXCEPT !.status = "confirmed"]]
        BY <3>2 DEF Party!Apply
      <4>3. [payments[q] EXCEPT !.status = "confirmed"].status # "absent"
        BY <4>1, PartyRows DEF Party!PaymentRow
      <4> HIDE DEF q
      <4> QED BY <4>1, <4>2, <4>3 DEF PartyTypes
    <3> QED BY <3>1, <3>2, <1>7
  <2> QED BY <2>1, <2>2, <1>0, KeysTyped DEF KeysSound
<1>8. ASSUME NEW c \in Calls, Party!Rollback(c) PROVE KeysSound'
  <2>1. /\ paying'[c] = Party!Idle /\ \A d \in Calls : d # c => paying'[d] = paying[d]
        /\ payments' = payments
        /\ \A k \in Keys : keys'[k] = IF keys[k] = [state |-> "claimed", by |-> c] THEN Party!Free ELSE keys[k]
    BY <1>8 DEF Party!Rollback, PartyTypes
  <2>2. \A k \in Keys : keys[k].state = "saved" \/ keys'[k].state = "saved" => keys'[k] = keys[k]
    BY <2>1, <1>0
  <2>3. \A d \in Calls : paying'[d].at \in {"plan", "save"} =>
          keys'[paying'[d].key] = [state |-> "claimed", by |-> d]
    <3> SUFFICES ASSUME NEW d \in Calls, paying'[d].at \in {"plan", "save"}
                 PROVE  keys'[paying'[d].key] = [state |-> "claimed", by |-> d]
      OBVIOUS
    <3>1. d # c /\ paying'[d] = paying[d]
      BY <2>1, <1>0
    <3>2. keys[paying[d].key] = [state |-> "claimed", by |-> d] /\ paying[d].key \in Keys
      BY <3>1, CallsTyped DEF KeysSound
    <3>3. [state |-> "claimed", by |-> d] # [state |-> "claimed", by |-> c]
      BY <3>1
    <3> QED BY <3>1, <3>2, <3>3, <2>1
  <2>4. \A k \in Keys : \A p \in Party!Payment : keys[k] = [state |-> "saved", payment |-> p] => keys'[k] = keys[k]
    BY <2>2
  <2> QED BY <2>1, <2>2, <2>3, <2>4 DEF KeysSound
<1> QED BY <1>1, <1>2, <1>3, <1>4, <1>5, <1>6, <1>7, <1>8, PartyActions
-------------------------------------------------------------------------------
\* What a confirmation changes.
LEMMA ApplyEffect ==
  ASSUME PartyTypes, ApplySound, NEW c \in Calls, Party!Apply(c)
  PROVE  LET p == paying[c].payment
         IN  /\ paying[c].at = "apply" /\ p \in Party!Payment /\ payments[p].status # "absent"
             /\ payments'[p].status = "confirmed"
             /\ payments'[p].plan = payments[p].plan /\ payments'[p].amount = payments[p].amount
             /\ \A q \in Party!Payment : q # p => payments'[q] = payments[q]
             /\ applied'[p] = applied[p] + 1
             /\ \A q \in Party!Payment : q # p => applied'[q] = applied[q]
             /\ \A i \in Party!Invoice :
                  /\ invoices'[i].status = invoices[i].status
                  /\ invoices'[i].balance = invoices[i].balance - payments[p].plan[i]
             /\ paying'[c] = Party!Idle /\ \A d \in Calls : d # c => paying'[d] = paying[d]
             /\ overlapped' = overlapped
<1> DEFINE p == paying[c].payment
           plan == payments[p].plan
<1>1. paying[c].at = "apply" /\ p \in Party!Payment /\ payments[p].status # "absent"
  BY CallsTyped DEF Party!Apply, ApplySound
<1>2. /\ payments' = [payments EXCEPT ![p] = [payments[p] EXCEPT !.status = "confirmed"]]
      /\ applied' = [applied EXCEPT ![p] = applied[p] + 1]
      /\ paying' = [paying EXCEPT ![c] = Party!Idle] /\ overlapped' = overlapped
      /\ invoices' = [i \in Party!Invoice |-> IF plan[i] = 0 THEN invoices[i]
                       ELSE [invoices[i] EXCEPT !.balance = invoices[i].balance - plan[i]]]
  BY DEF Party!Apply, Party!Reduced
<1>3. /\ [payments[p] EXCEPT !.status = "confirmed"].status = "confirmed"
      /\ [payments[p] EXCEPT !.status = "confirmed"].plan = plan
      /\ [payments[p] EXCEPT !.status = "confirmed"].amount = payments[p].amount
  BY <1>1, PartyRows DEF Party!PaymentRow
<1>4. ASSUME NEW i \in Party!Invoice
      PROVE  invoices'[i].status = invoices[i].status /\ invoices'[i].balance = invoices[i].balance - plan[i]
  <2>1. invoices[i] \in Party!InvoiceRow /\ invoices[i].balance \in Nat
    BY PartyRows
  <2>2. CASE plan[i] = 0
    <3> HIDE DEF plan
    <3> QED BY <2>1, <2>2, <1>2
  <2>3. CASE plan[i] # 0
    <3> HIDE DEF plan
    <3>1. invoices'[i] = [invoices[i] EXCEPT !.balance = invoices[i].balance - plan[i]]
      BY <1>2, <2>3
    <3> QED BY <2>1, <3>1 DEF Party!InvoiceRow
  <2> QED BY <2>2, <2>3
<1>5. /\ payments'[p] = [payments[p] EXCEPT !.status = "confirmed"] /\ applied'[p] = applied[p] + 1
      /\ \A q \in Party!Payment : q # p => payments'[q] = payments[q] /\ applied'[q] = applied[q]
      /\ paying'[c] = Party!Idle /\ \A d \in Calls : d # c => paying'[d] = paying[d]
  <2> HIDE DEF p, plan
  <2> QED BY <1>1, <1>2 DEF PartyTypes
<1> QED BY <1>1, <1>2, <1>3, <1>4, <1>5

LEMMA SaveEffect ==
  ASSUME PartyTypes, NEW c \in Calls, NEW p \in Party!Payment, Party!Save(c, p)
  PROVE  /\ paying[c].at = "save" /\ payments[p].status = "absent"
         /\ payments'[p] = [status |-> "draft", amount |-> paying[c].amount, plan |-> paying[c].plan]
         /\ \A q \in Party!Payment : q # p => payments'[q] = payments[q]
         /\ paying'[c] = Party!Idle /\ \A d \in Calls : d # c => paying'[d] = paying[d]
         /\ invoices' = invoices /\ applied' = applied /\ overlapped' = overlapped
BY DEF Party!Save, PartyTypes

\* An invoice that is confirmed stays confirmed.
LEMMA ConfirmedStays ==
  ASSUME PartyTypes, ApplySound, Party!Next, NEW i \in Party!Invoice, invoices[i].status = "confirmed"
  PROVE  invoices'[i].status = "confirmed"
<1>1. ASSUME NEW j \in Party!Invoice, Party!RecordInvoice(j) \/ Party!ConfirmInvoice(j)
      PROVE  invoices'[i].status = "confirmed"
  <2>1. j # i
    BY <1>1 DEF Party!RecordInvoice, Party!ConfirmInvoice
  <2> QED BY <1>1, <2>1 DEF Party!RecordInvoice, Party!ConfirmInvoice, PartyTypes
<1>2. ASSUME NEW c \in Calls, Party!Apply(c) PROVE invoices'[i].status = "confirmed"
  BY <1>2, ApplyEffect
<1>3. ASSUME invoices' = invoices PROVE invoices'[i].status = "confirmed"
  BY <1>3
<1> QED
  BY <1>1, <1>2, <1>3, PartyActions DEF Party!ClaimKey, Proposes, Party!Propose, Party!Save,
     Party!BeginConfirm, Party!Reject, Party!Refuse, Party!Rollback

\* A plan is for confirmed invoices, since nothing is open on another.
LEMMA PlansKept == PartyTypes /\ PlansSound /\ ApplySound /\ Party!Next => PlansSound'
<1> SUFFICES ASSUME PartyTypes, PlansSound, ApplySound, Party!Next PROVE PlansSound'
  OBVIOUS
<1> DEFINE Planned(plan, amount) ==
             /\ Party!Allocates(plan, amount)
             /\ \A i \in Party!Invoice : plan[i] > 0 => invoices'[i].status = "confirmed"
<1>0. \A plan, amount :
        /\ Party!Allocates(plan, amount)
        /\ \A i \in Party!Invoice : plan[i] > 0 => invoices[i].status = "confirmed"
        => Planned(plan, amount)
  BY ConfirmedStays
<1>1. Party!Idle.at = "idle"
  BY DEF Party!Idle
<1>2. ASSUME NEW c \in Calls, paying'[c].at = "save"
      PROVE  Planned(paying'[c].plan, paying'[c].amount)
             /\ (paying'[c].auto => Fills(paying'[c].plan, paying'[c].seen))
  <2>1. CASE paying'[c] = paying[c]
    BY <2>1, <1>2, <1>0 DEF PlansSound
  <2>2. ASSUME NEW amount \in Amount, NEW plan \in Party!Plan, NEW auto \in BOOLEAN,
               Proposes(c, amount, plan, auto)
        PROVE  Planned(paying'[c].plan, paying'[c].amount)
               /\ (paying'[c].auto => Fills(paying'[c].plan, paying'[c].seen))
    <3>1. /\ paying'[c].plan = plan /\ paying'[c].amount = amount
          /\ paying'[c].auto = auto /\ paying'[c].seen = Party!Open
      BY <2>2 DEF Proposes, Party!Propose, PartyTypes
    <3>2. Party!Allocates(plan, amount) /\ (auto => Fills(plan, Party!Open))
      BY <2>2 DEF Proposes, Party!Propose
    <3>3. \A i \in Party!Invoice : plan[i] > 0 => invoices[i].status = "confirmed"
      <4> TAKE i \in Party!Invoice
      <4>1. plan[i] <= Party!Open[i] /\ plan[i] \in Party!Money
        BY <2>2 DEF Proposes, Party!Plan
      <4>2. invoices[i].status # "confirmed" => Party!Open[i] = 0
        BY DEF Party!Open
      <4> QED BY <4>1, <4>2, PartyRows
    <3>4. Planned(plan, amount)
      BY <3>2, <3>3, <1>0
    <3> HIDE DEF Planned
    <3> QED BY <3>1, <3>2, <3>4
  <2>3. \/ paying'[c] = paying[c]
        \/ paying'[c].at # "save"
        \/ \E amount \in Amount, plan \in Party!Plan, auto \in BOOLEAN : Proposes(c, amount, plan, auto)
    <3>1. ASSUME NEW d \in Calls, NEW x \in {"plan", "apply", "idle"},
                 paying'[d].at = x, \A e \in Calls : e # d => paying'[e] = paying[e]
          PROVE  paying'[c] = paying[c] \/ paying'[c].at # "save"
      BY <3>1
    <3>2. ASSUME NEW i \in Party!Invoice, Party!RecordInvoice(i) \/ Party!ConfirmInvoice(i)
          PROVE  paying'[c] = paying[c]
      BY <3>2 DEF Party!RecordInvoice, Party!ConfirmInvoice
    <3>3. ASSUME NEW d \in Calls, NEW k \in Keys, Party!ClaimKey(d, k)
          PROVE  paying'[d].at = "plan" /\ \A e \in Calls : e # d => paying'[e] = paying[e]
      BY <3>3 DEF Party!ClaimKey, PartyTypes
    <3>4. ASSUME NEW d \in Calls, NEW p \in Party!Payment, Party!BeginConfirm(d, p)
          PROVE  paying'[d].at = "apply" /\ \A e \in Calls : e # d => paying'[e] = paying[e]
      BY <3>4 DEF Party!BeginConfirm, PartyTypes
    <3>5. ASSUME NEW d \in Calls, NEW p \in Party!Payment,
                 \/ Party!Save(d, p) \/ Party!Reject(d) \/ Party!Apply(d)
                 \/ Party!Refuse(d) \/ Party!Rollback(d)
          PROVE  paying'[d].at = "idle" /\ \A e \in Calls : e # d => paying'[e] = paying[e]
      BY <3>5, <1>1 DEF Party!Save, Party!Reject, Party!Apply, Party!Refuse, Party!Rollback, PartyTypes
    <3>6. ASSUME NEW d \in Calls, Party!Reject(d) \/ Party!Apply(d) \/ Party!Refuse(d) \/ Party!Rollback(d)
          PROVE  paying'[d].at = "idle" /\ \A e \in Calls : e # d => paying'[e] = paying[e]
      BY <3>6, <1>1 DEF Party!Reject, Party!Apply, Party!Refuse, Party!Rollback, PartyTypes
    <3>7. ASSUME NEW d \in Calls, NEW amount \in Amount, NEW plan \in Party!Plan, NEW auto \in BOOLEAN,
                 Proposes(d, amount, plan, auto)
          PROVE  d = c \/ paying'[c] = paying[c]
      BY <3>7 DEF Proposes, Party!Propose, PartyTypes
    <3> QED BY <3>1, <3>2, <3>3, <3>4, <3>5, <3>6, <3>7, PartyActions
  <2> QED BY <1>2, <2>1, <2>2, <2>3
<1>3. ASSUME NEW p \in Party!Payment
      PROVE  Planned(payments'[p].plan, payments'[p].amount)
  <2>1. CASE payments'[p].plan = payments[p].plan /\ payments'[p].amount = payments[p].amount
    <3>1. Planned(payments[p].plan, payments[p].amount)
      BY <1>0 DEF PlansSound
    <3> HIDE DEF Planned
    <3> QED BY <2>1, <3>1
  <2>2. ASSUME NEW c \in Calls, NEW q \in Party!Payment, Party!Save(c, q)
        PROVE  Planned(payments'[p].plan, payments'[p].amount)
    <3>1. CASE p = q
      <4>0. payments'[q] = [status |-> "draft", amount |-> paying[c].amount, plan |-> paying[c].plan]
        BY <2>2, SaveEffect
      <4>1. payments'[p].plan = paying[c].plan /\ payments'[p].amount = paying[c].amount
        BY <3>1, <4>0
      <4>2. Planned(paying[c].plan, paying[c].amount)
        BY <2>2, SaveEffect, <1>0 DEF PlansSound
      <4> HIDE DEF Planned
      <4> QED BY <4>1, <4>2
    <3>2. CASE p # q
      <4>1. payments'[p] = payments[p]
        BY <3>2, <2>2, SaveEffect
      <4> QED BY <4>1, <2>1
    <3> QED BY <3>1, <3>2
  <2>3. ASSUME NEW c \in Calls, Party!Apply(c)
        PROVE  Planned(payments'[p].plan, payments'[p].amount)
    <3>1. payments'[p].plan = payments[p].plan /\ payments'[p].amount = payments[p].amount
      BY <2>3, ApplyEffect
    <3> HIDE DEF Planned
    <3> QED BY <3>1, <2>1
  <2>4. \/ payments' = payments
        \/ \E c \in Calls : Party!Apply(c)
        \/ \E c \in Calls, q \in Party!Payment : Party!Save(c, q)
    BY PartyActions DEF Party!RecordInvoice, Party!ConfirmInvoice, Party!ClaimKey, Proposes, Party!Propose,
       Party!BeginConfirm, Party!Reject, Party!Refuse, Party!Rollback
  <2> HIDE DEF Planned
  <2> QED BY <2>1, <2>2, <2>3, <2>4
<1> QED BY <1>2, <1>3 DEF PlansSound
-------------------------------------------------------------------------------
\* A call that confirms a payment somebody else has confirmed since began beside it.
LEMMA ApplyKept == PartyTypes /\ ApplySound /\ Party!Next => ApplySound'
<1> SUFFICES ASSUME PartyTypes, ApplySound, Party!Next PROVE ApplySound'
  OBVIOUS
<1>1. Party!Idle.at = "idle"
  BY DEF Party!Idle
\* Steps that leave the payments alone and let no call apply one that did not.
<1>2. ASSUME payments' = payments, applied' = applied, overlapped' = overlapped,
             \A c \in Calls : paying'[c].at = "apply" => paying'[c] = paying[c]
      PROVE  ApplySound'
  <2>1. \A c \in Calls : paying'[c].at = "apply" =>
          /\ payments'[paying'[c].payment].status # "absent"
          /\ applied'[paying'[c].payment] > 0 => paying'[c].payment \in overlapped'
    BY <1>2 DEF ApplySound
  <2>2. \A c, d \in Calls : (paying'[c].at = "apply" /\ paying'[d] = paying'[c] /\ c # d) =>
          paying'[c].payment \in overlapped'
    BY <1>2 DEF ApplySound
  <2> QED BY <2>1, <2>2, <1>2 DEF ApplySound, Party!TwiceOnlyByOverlap
<1>3. ASSUME NEW i \in Party!Invoice, Party!RecordInvoice(i) \/ Party!ConfirmInvoice(i) PROVE ApplySound'
  BY <1>2, <1>3 DEF Party!RecordInvoice, Party!ConfirmInvoice
<1>4. ASSUME NEW c \in Calls, NEW x,
             x.at # "apply", paying' = [paying EXCEPT ![c] = x],
             payments' = payments, applied' = applied, overlapped' = overlapped
      PROVE  ApplySound'
  <2>1. \A d \in Calls : paying'[d].at = "apply" => paying'[d] = paying[d]
    BY <1>4 DEF PartyTypes
  <2> QED BY <1>2, <1>4, <2>1
<1>5. ASSUME NEW c \in Calls, NEW k \in Keys, Party!ClaimKey(c, k) PROVE ApplySound'
  <2>1. [at |-> "plan", key |-> k].at # "apply"
    OBVIOUS
  <2> QED BY <2>1, <1>4, <1>5 DEF Party!ClaimKey
<1>6. ASSUME NEW c \in Calls, NEW amount \in Amount, NEW plan \in Party!Plan, NEW auto \in BOOLEAN,
             Proposes(c, amount, plan, auto)
      PROVE  ApplySound'
  <2> DEFINE x == [at |-> "save", key |-> paying[c].key, amount |-> amount, plan |-> plan,
                   seen |-> Party!Open, auto |-> auto]
  <2>1. x.at # "apply"
    OBVIOUS
  <2>2. /\ paying' = [paying EXCEPT ![c] = x]
        /\ payments' = payments /\ applied' = applied /\ overlapped' = overlapped
    BY <1>6 DEF Proposes, Party!Propose
  <2> HIDE DEF x
  <2> QED BY <2>1, <2>2, <1>4
<1>7. ASSUME NEW c \in Calls, Party!Reject(c) \/ Party!Refuse(c) \/ Party!Rollback(c) PROVE ApplySound'
  <2>1. /\ paying' = [paying EXCEPT ![c] = Party!Idle]
        /\ payments' = payments /\ applied' = applied /\ overlapped' = overlapped
    BY <1>7 DEF Party!Reject, Party!Refuse, Party!Rollback
  <2>2. Party!Idle.at # "apply"
    BY <1>1
  <2> QED BY <2>1, <2>2, <1>4
<1>8. ASSUME NEW c \in Calls, NEW p \in Party!Payment, Party!Save(c, p) PROVE ApplySound'
  <2>1. /\ payments[p].status = "absent" /\ payments'[p].status = "draft"
        /\ \A q \in Party!Payment : q # p => payments'[q] = payments[q]
        /\ applied' = applied /\ overlapped' = overlapped
        /\ \A d \in Calls : paying'[d].at = "apply" => paying'[d] = paying[d]
    <3>1. payments'[p] = [status |-> "draft", amount |-> paying[c].amount, plan |-> paying[c].plan]
      BY <1>8, SaveEffect
    <3>2. payments'[p].status = "draft"
      BY <3>1
    <3> QED BY <1>8, <1>1, <3>2, SaveEffect
  <2>2. \A q \in Party!Payment : payments'[q].status = "confirmed" <=> applied'[q] > 0
    BY <2>1 DEF ApplySound
  <2>3. ASSUME NEW d \in Calls, paying'[d].at = "apply"
        PROVE  /\ payments'[paying'[d].payment].status # "absent"
               /\ applied'[paying'[d].payment] > 0 => paying'[d].payment \in overlapped'
    <3>1. paying[d].at = "apply" /\ paying'[d] = paying[d] /\ paying[d].payment \in Party!Payment
      BY <2>1, <2>3, CallsTyped
    <3>2. payments[paying[d].payment].status # "absent"
      BY <3>1 DEF ApplySound
    <3> QED BY <3>1, <3>2, <2>1 DEF ApplySound
  <2>4. \A d, e \in Calls : (paying'[d].at = "apply" /\ paying'[e] = paying'[d] /\ d # e) =>
          paying'[d].payment \in overlapped'
    BY <2>1 DEF ApplySound
  <2> QED BY <2>1, <2>2, <2>3, <2>4 DEF ApplySound, Party!TwiceOnlyByOverlap
<1>9. ASSUME NEW c \in Calls, NEW p \in Party!Payment, Party!BeginConfirm(c, p) PROVE ApplySound'
  <2> DEFINE x == [at |-> "apply", payment |-> p]
  <2>1. /\ payments[p].status = "draft" /\ payments' = payments /\ applied' = applied
        /\ paying'[c] = x /\ \A d \in Calls : d # c => paying'[d] = paying[d]
        /\ overlapped' = overlapped \cup {q \in {p} : \E d \in Calls : paying[d] = [at |-> "apply", payment |-> q]}
        /\ paying[c] = Party!Idle
    BY <1>9 DEF Party!BeginConfirm, Party!Confirmable, PartyTypes
  <2>2. x.at = "apply" /\ x.payment = p /\ ~(applied[p] > 0)
    BY <2>1 DEF ApplySound
  <2>3. overlapped \subseteq overlapped'
    BY <2>1
  <2>4. \A d \in Calls : paying'[d].at = "apply" => payments'[paying'[d].payment].status # "absent"
    BY <2>1, <2>2 DEF ApplySound
  <2>5. ASSUME NEW d \in Calls, NEW e \in Calls, paying'[d].at = "apply", paying'[e] = paying'[d], d # e
        PROVE  paying'[d].payment \in overlapped'
    <3>1. CASE d # c /\ e # c
      BY <3>1, <2>1, <2>3, <2>5 DEF ApplySound
    <3>2. ASSUME NEW b \in Calls, b # c, paying'[b] = x PROVE p \in overlapped'
      <4>1. paying[b] = [at |-> "apply", payment |-> p]
        BY <3>2, <2>1
      <4> QED BY <4>1, <2>1
    <3>3. CASE d = c
      BY <3>2, <3>3, <2>1, <2>2, <2>5
    <3>4. CASE e = c
      BY <3>2, <3>4, <2>1, <2>2, <2>5
    <3> QED BY <3>1, <3>3, <3>4
  <2>6. \A d \in Calls : (paying'[d].at = "apply" /\ applied'[paying'[d].payment] > 0) =>
          paying'[d].payment \in overlapped'
    BY <2>1, <2>2, <2>3 DEF ApplySound
  <2> HIDE DEF x
  <2> QED BY <2>1, <2>3, <2>4, <2>5, <2>6 DEF ApplySound, Party!TwiceOnlyByOverlap
<1>10. ASSUME NEW c \in Calls, Party!Apply(c) PROVE ApplySound'
  <2> DEFINE p == paying[c].payment
  <2>1. /\ paying[c].at = "apply" /\ p \in Party!Payment
        /\ payments'[p].status = "confirmed" /\ applied'[p] = applied[p] + 1
        /\ \A q \in Party!Payment : q # p => payments'[q] = payments[q] /\ applied'[q] = applied[q]
        /\ paying'[c] = Party!Idle /\ \A d \in Calls : d # c => paying'[d] = paying[d]
        /\ overlapped' = overlapped
    BY <1>10, ApplyEffect
  <2>2. applied[p] \in Nat
    BY <2>1, PartyRows
  <2>3. \A q \in Party!Payment : payments'[q].status = "confirmed" <=> applied'[q] > 0
    <3> TAKE q \in Party!Payment
    <3>1. CASE q = p
      <4> HIDE DEF p
      <4> QED BY <3>1, <2>1, <2>2
    <3>2. CASE q # p
      BY <3>2, <2>1 DEF ApplySound
    <3> QED BY <3>1, <3>2
  <2>4. ASSUME NEW d \in Calls, paying'[d].at = "apply"
        PROVE  /\ payments'[paying'[d].payment].status # "absent"
               /\ applied'[paying'[d].payment] > 0 => paying'[d].payment \in overlapped'
    <3>1. /\ d # c /\ paying'[d] = paying[d] /\ paying[d].at = "apply"
          /\ paying[d].payment \in Party!Payment /\ paying[d] = [at |-> "apply", payment |-> paying[d].payment]
          /\ paying[c] = [at |-> "apply", payment |-> paying[c].payment]
      BY <2>1, <2>4, <1>1, CallsTyped
    <3>2. CASE paying[d].payment = p
      <4>1. paying[d] = paying[c]
        BY <3>1, <3>2
      <4>2. p \in overlapped
        BY <2>1, <3>1, <4>1 DEF ApplySound
      <4> QED BY <3>1, <3>2, <4>2, <2>1
    <3>3. CASE paying[d].payment # p
      BY <3>1, <3>3, <2>1 DEF ApplySound
    <3> QED BY <3>2, <3>3
  <2>5. \A d, e \in Calls : (paying'[d].at = "apply" /\ paying'[e] = paying'[d] /\ d # e) =>
          paying'[d].payment \in overlapped'
    BY <2>1, <1>1 DEF ApplySound
  <2>6. \A q \in Party!Payment : applied'[q] > 1 => q \in overlapped'
    <3> TAKE q \in Party!Payment
    <3>1. CASE q = p
      <4>1. applied[p] > 0 => p \in overlapped
        BY <2>1 DEF ApplySound
      <4> HIDE DEF p
      <4> QED BY <3>1, <4>1, <2>1, <2>2
    <3>2. CASE q # p
      BY <3>2, <2>1 DEF ApplySound, Party!TwiceOnlyByOverlap
    <3> QED BY <3>1, <3>2
  <2> HIDE DEF p
  <2> QED BY <2>3, <2>4, <2>5, <2>6 DEF ApplySound, Party!TwiceOnlyByOverlap
<1> QED BY <1>3, <1>5, <1>6, <1>7, <1>8, <1>9, <1>10, PartyActions
-------------------------------------------------------------------------------
\* What is taken off an invoice, and what is received, are natural numbers.
PartsAreNumbers ==
  /\ \A i \in Party!Invoice, p \in Party!Payment :
       /\ payments[p].plan[i] \in Nat /\ applied[p] \in Nat
       /\ Taken(i)[p] \in Nat /\ Taken(i)[p] = applied[p] * payments[p].plan[i]
  /\ \A p \in Party!Payment :
       /\ payments[p].amount \in Nat /\ applied[p] \in Nat
       /\ Received[p] \in Nat /\ Received[p] = applied[p] * payments[p].amount
  /\ \A i \in Party!Invoice : Party!Open[i] \in Nat

LEMMA PartsTyped == PartyTypes => PartsAreNumbers
<1> SUFFICES ASSUME PartyTypes PROVE PartsAreNumbers
  OBVIOUS
<1>1. ASSUME NEW i \in Party!Invoice, NEW p \in Party!Payment PROVE payments[p].plan[i] \in Nat
  <2>1. payments[p].plan \in [Party!Invoice -> Party!Money] /\ Party!Money \subseteq Nat
    BY PartyRows DEF Party!Plan
  <2> QED BY <2>1
<1>2. \A a, b \in Nat : a * b \in Nat
  OBVIOUS
<1>3. \A p \in Party!Payment : applied[p] \in Nat /\ payments[p].amount \in Nat
  BY PartyRows
<1>4. \A i \in Party!Invoice : Party!Open[i] \in Nat
  <2>1. Party!Open \in [Party!Invoice -> Party!Money] /\ Party!Money \subseteq Nat
    BY PartyRows DEF Party!Plan
  <2> QED BY <2>1
<1>5. ASSUME NEW i \in Party!Invoice, NEW p \in Party!Payment
      PROVE  Taken(i)[p] \in Nat /\ Taken(i)[p] = applied[p] * payments[p].plan[i]
  BY <1>1, <1>2, <1>3 DEF Taken
<1>6. ASSUME NEW p \in Party!Payment
      PROVE  Received[p] \in Nat /\ Received[p] = applied[p] * payments[p].amount
  BY <1>2, <1>3 DEF Received
<1> QED BY <1>1, <1>3, <1>4, <1>5, <1>6 DEF PartsAreNumbers

LEMMA PartsTypedNext == PartyTypes' => PartsAreNumbers'
BY PartsTyped, PTL

\* Nothing is taken off an invoice that is not confirmed.
LEMMA NothingTaken ==
  ASSUME PartyTypes, PlansSound, NEW i \in Party!Invoice, invoices[i].status # "confirmed"
  PROVE  SumFunctionOnSet(Taken(i), Party!Payment) = 0
<1>1. ASSUME NEW p \in Party!Payment PROVE Taken(i)[p] = 0
  <2>1. payments[p].plan[i] = 0
    BY PartsTyped DEF PartsAreNumbers, PlansSound
  <2>2. \A a \in Nat : a * 0 = 0
    OBVIOUS
  <2> QED BY <2>1, <2>2, PartsTyped DEF PartsAreNumbers
<1> QED BY <1>1, PartyFinite, SumZero

LEMMA BalanceKept == PartyTypes /\ PlansSound /\ ApplySound /\ BalanceSound /\ Party!Next => BalanceSound'
<1> SUFFICES ASSUME PartyTypes, PlansSound, ApplySound, BalanceSound, Party!Next PROVE BalanceSound'
  OBVIOUS
<1>0. PartyTypes'
  BY PartyTypesKept
<1>1. ASSUME NEW i \in Party!Invoice, Party!RecordInvoice(i) PROVE BalanceSound'
  <2>1. /\ invoices[i].status = "absent" /\ payments' = payments /\ applied' = applied
        /\ invoices'[i] = [status |-> "draft", balance |-> InvoiceTotal]
        /\ \A j \in Party!Invoice : j # i => invoices'[j] = invoices[j]
    BY <1>1 DEF Party!RecordInvoice, PartyTypes
  <2>2. \A j \in Party!Invoice : Taken(j)' = Taken(j)
    BY <2>1 DEF Taken
  <2>3. Received' = Received
    BY <2>1 DEF Received
  <2>4. invoices'[i].status = "draft" /\ invoices'[i].balance = InvoiceTotal
    BY <2>1
  <2>5. Party!Open' = Party!Open /\ Confirmed' = Confirmed
    BY <2>1, <2>4 DEF Party!Open, Confirmed
  <2>6. SumFunctionOnSet(Taken(i), Party!Payment) = 0
    BY <2>1, NothingTaken
  <2>7. ASSUME NEW j \in Party!Invoice, invoices'[j].status # "absent"
        PROVE  invoices'[j].balance = InvoiceTotal - SumFunctionOnSet(Taken(j)', Party!Payment)
    BY <2>1, <2>2, <2>4, <2>6, <2>7, PartyBounds DEF BalanceSound
  <2> QED BY <2>3, <2>5, <2>7 DEF BalanceSound
<1>2. ASSUME NEW i \in Party!Invoice, Party!ConfirmInvoice(i) PROVE BalanceSound'
  <2>1. /\ invoices[i].status = "draft" /\ payments' = payments /\ applied' = applied
        /\ invoices'[i] = [invoices[i] EXCEPT !.status = "confirmed"]
        /\ \A j \in Party!Invoice : j # i => invoices'[j] = invoices[j]
    BY <1>2 DEF Party!ConfirmInvoice, PartyTypes
  <2>2. \A j \in Party!Invoice : Taken(j)' = Taken(j)
    BY <2>1 DEF Taken
  <2>3. Received' = Received
    BY <2>1 DEF Received
  <2>4. invoices'[i].status = "confirmed" /\ invoices'[i].balance = invoices[i].balance
    BY <2>1, PartyRows DEF Party!InvoiceRow
  <2>5. invoices[i].balance = InvoiceTotal
    <3>1. SumFunctionOnSet(Taken(i), Party!Payment) = 0
      BY <2>1, NothingTaken
    <3> QED BY <2>1, <3>1, PartyBounds DEF BalanceSound
  <2>6. ASSUME NEW j \in Party!Invoice, invoices'[j].status # "absent"
        PROVE  invoices'[j].balance = InvoiceTotal - SumFunctionOnSet(Taken(j)', Party!Payment)
    <3>1. invoices[j].status # "absent" /\ invoices'[j].balance = invoices[j].balance
      BY <2>1, <2>4, <2>6
    <3> QED BY <3>1, <2>2 DEF BalanceSound
  <2>7. /\ Party!Open[i] = 0 /\ Party!Open'[i] = InvoiceTotal
        /\ \A j \in Party!Invoice \ {i} : Party!Open'[j] = Party!Open[j]
    BY <2>1, <2>4, <2>5 DEF Party!Open
  <2>8. SumFunctionOnSet(Party!Open', Party!Invoice) = SumFunctionOnSet(Party!Open, Party!Invoice) + InvoiceTotal
    <3> DEFINE f == Party!Open
               g == Party!Open'
    <3>1. \A j \in Party!Invoice : f[j] \in Int /\ g[j] \in Int
      BY <1>0, PartsTypedNext, <2>7, PartyBounds DEF PartsAreNumbers
    <3>2. f[i] = 0 /\ g[i] = InvoiceTotal /\ \A j \in Party!Invoice \ {i} : f[j] = g[j]
      BY <2>7
    <3>3. IsFiniteSet(Party!Invoice) /\ InvoiceTotal \in Nat
      BY PartyFinite, PartyBounds
    <3> HIDE DEF f, g
    <3>4. SumFunctionOnSet(g, Party!Invoice) = SumFunctionOnSet(f, Party!Invoice) + (g[i] - f[i])
      BY <3>1, <3>2, <3>3, SumChange
    <3>5. SumFunctionOnSet(g, Party!Invoice) = SumFunctionOnSet(f, Party!Invoice) + InvoiceTotal
      BY <3>2, <3>3, <3>4
    <3> QED BY <3>5 DEF f, g
  <2>9. Cardinality(Confirmed') = Cardinality(Confirmed) + 1 /\ Cardinality(Confirmed) \in Nat
    <3>1. Confirmed' = Confirmed \cup {i} /\ i \notin Confirmed /\ Confirmed \subseteq Party!Invoice
      BY <2>1, <2>4 DEF Confirmed
    <3>2. IsFiniteSet(Confirmed)
      BY <3>1, PartyFinite, FS_Subset
    <3> QED BY <3>1, <3>2, FS_AddElement, FS_CardinalityType
  <2>10. InvoiceTotal * Cardinality(Confirmed') = InvoiceTotal * Cardinality(Confirmed) + InvoiceTotal
    <3>1. \A a, b \in Nat : a * (b + 1) = a * b + a
      OBVIOUS
    <3> QED BY <2>9, <3>1, PartyBounds
  <2>11. /\ SumFunctionOnSet(Received, Party!Payment) \in Int
         /\ InvoiceTotal * Cardinality(Confirmed) \in Int
    <3>1. \A p \in Party!Payment : Received[p] \in Int
      BY PartsTyped DEF PartsAreNumbers
    <3>2. SumFunctionOnSet(Received, Party!Payment) \in Int
      <4> HIDE DEF Received
      <4> QED BY <3>1, PartyFinite, SumTyped
    <3> QED BY <3>2, <2>9, PartyBounds
  <2>12. SumFunctionOnSet(Party!Open', Party!Invoice) =
           InvoiceTotal * Cardinality(Confirmed') - SumFunctionOnSet(Received', Party!Payment)
    <3>1. SumFunctionOnSet(Party!Open, Party!Invoice) =
            InvoiceTotal * Cardinality(Confirmed) - SumFunctionOnSet(Received, Party!Payment)
      BY DEF BalanceSound
    <3> QED BY <3>1, <2>3, <2>8, <2>10, <2>11, PartyBounds
  <2> QED BY <2>6, <2>12 DEF BalanceSound
<1>3. ASSUME NEW c \in Calls, NEW p \in Party!Payment, Party!Save(c, p) PROVE BalanceSound'
  <2>1. /\ payments[p].status = "absent" /\ invoices' = invoices /\ applied' = applied
        /\ \A q \in Party!Payment : q # p => payments'[q] = payments[q]
    BY <1>3, SaveEffect
  <2>2. applied[p] = 0
    BY <2>1, PartyRows DEF ApplySound
  <2>3. \A a \in Nat : 0 * a = 0
    OBVIOUS
  <2>4. ASSUME NEW i \in Party!Invoice
        PROVE  SumFunctionOnSet(Taken(i)', Party!Payment) = SumFunctionOnSet(Taken(i), Party!Payment)
    <3> DEFINE f == Taken(i)
               g == Taken(i)'
    <3>1. ASSUME NEW q \in Party!Payment PROVE g[q] = f[q]
      <4>1. g[q] = applied'[q] * payments'[q].plan[i] /\ payments'[q].plan[i] \in Nat
        BY <1>0, PartsTypedNext DEF PartsAreNumbers
      <4>2. f[q] = applied[q] * payments[q].plan[i] /\ payments[q].plan[i] \in Nat
        BY PartsTyped DEF PartsAreNumbers
      <4>3. CASE q = p
        <5>1. g[q] = 0 * payments'[q].plan[i] /\ f[q] = 0 * payments[q].plan[i]
          BY <4>1, <4>2, <4>3, <2>1, <2>2
        <5> QED BY <5>1, <4>1, <4>2, <2>3
      <4>4. CASE q # p
        BY <4>1, <4>2, <4>4, <2>1
      <4> QED BY <4>3, <4>4
    <3> HIDE DEF f, g
    <3>2. SumFunctionOnSet(g, Party!Payment) = SumFunctionOnSet(f, Party!Payment)
      BY <3>1, PartyFinite, SumSame
    <3> QED BY <3>2 DEF f, g
  <2>5. SumFunctionOnSet(Received', Party!Payment) = SumFunctionOnSet(Received, Party!Payment)
    <3> DEFINE f == Received
               g == Received'
    <3>1. ASSUME NEW q \in Party!Payment PROVE g[q] = f[q]
      <4>1. g[q] = applied'[q] * payments'[q].amount /\ payments'[q].amount \in Nat
        BY <1>0, PartsTypedNext DEF PartsAreNumbers
      <4>2. f[q] = applied[q] * payments[q].amount /\ payments[q].amount \in Nat
        BY PartsTyped DEF PartsAreNumbers
      <4>3. CASE q = p
        <5>1. g[q] = 0 * payments'[q].amount /\ f[q] = 0 * payments[q].amount
          BY <4>1, <4>2, <4>3, <2>1, <2>2
        <5> QED BY <5>1, <4>1, <4>2, <2>3
      <4>4. CASE q # p
        BY <4>1, <4>2, <4>4, <2>1
      <4> QED BY <4>3, <4>4
    <3> HIDE DEF f, g
    <3>2. SumFunctionOnSet(g, Party!Payment) = SumFunctionOnSet(f, Party!Payment)
      BY <3>1, PartyFinite, SumSame
    <3> QED BY <3>2 DEF f, g
  <2>6. Party!Open' = Party!Open /\ Confirmed' = Confirmed
    BY <2>1 DEF Party!Open, Confirmed
  <2>7. ASSUME NEW i \in Party!Invoice, invoices'[i].status # "absent"
        PROVE  invoices'[i].balance = InvoiceTotal - SumFunctionOnSet(Taken(i)', Party!Payment)
    BY <2>1, <2>4, <2>7 DEF BalanceSound
  <2>8. SumFunctionOnSet(Party!Open', Party!Invoice) =
          InvoiceTotal * Cardinality(Confirmed') - SumFunctionOnSet(Received', Party!Payment)
    BY <2>5, <2>6 DEF BalanceSound
  <2> QED BY <2>7, <2>8 DEF BalanceSound
<1>4. ASSUME NEW c \in Calls, Party!Apply(c) PROVE BalanceSound'
  <2> DEFINE p == paying[c].payment
             plan == payments[p].plan
             amount == payments[p].amount
  <2>1. /\ p \in Party!Payment
        /\ payments'[p].plan = plan /\ payments'[p].amount = amount
        /\ \A q \in Party!Payment : q # p => payments'[q] = payments[q]
        /\ applied'[p] = applied[p] + 1
        /\ \A q \in Party!Payment : q # p => applied'[q] = applied[q]
        /\ \A i \in Party!Invoice :
             /\ invoices'[i].status = invoices[i].status
             /\ invoices'[i].balance = invoices[i].balance - plan[i]
    BY <1>4, ApplyEffect
  <2>2. \A a, b \in Nat : (a + 1) * b = a * b + b
    OBVIOUS
  <2> HIDE DEF p, plan, amount
  <2>3. ASSUME NEW i \in Party!Invoice
        PROVE  /\ SumFunctionOnSet(Taken(i)', Party!Payment) = SumFunctionOnSet(Taken(i), Party!Payment) + plan[i]
               /\ SumFunctionOnSet(Taken(i), Party!Payment) \in Int /\ plan[i] \in Nat
    <3> DEFINE f == Taken(i)
               g == Taken(i)'
    <3>1. ASSUME NEW q \in Party!Payment
          PROVE  /\ g[q] = applied'[q] * payments'[q].plan[i] /\ g[q] \in Int
                 /\ f[q] = applied[q] * payments[q].plan[i] /\ f[q] \in Int
                 /\ payments[q].plan[i] \in Nat /\ applied[q] \in Nat
      BY <1>0, PartsTyped, PartsTypedNext DEF PartsAreNumbers
    <3>2. \A q \in Party!Payment \ {p} : f[q] = g[q]
      BY <3>1, <2>1
    <3>3. g[p] = (applied[p] + 1) * plan[i] /\ f[p] = applied[p] * plan[i] /\ plan[i] \in Nat /\ applied[p] \in Nat
      BY <3>1, <2>1 DEF plan
    <3>4. g[p] - f[p] = plan[i]
      <4>1. applied[p] * plan[i] \in Int
        BY <3>1, <3>3, <2>1
      <4> QED BY <3>3, <4>1, <2>2
    <3>5. \A q \in Party!Payment : f[q] \in Int /\ g[q] \in Int
      BY <3>1
    <3>9. p \in Party!Payment /\ IsFiniteSet(Party!Payment)
      BY <2>1, PartyFinite
    <3> HIDE DEF f, g
    <3>6. SumFunctionOnSet(g, Party!Payment) = SumFunctionOnSet(f, Party!Payment) + (g[p] - f[p])
      BY <3>2, <3>5, <3>9, SumChange
    <3>7. SumFunctionOnSet(f, Party!Payment) \in Int
      BY <3>5, PartyFinite, SumTyped
    <3>8. SumFunctionOnSet(g, Party!Payment) = SumFunctionOnSet(f, Party!Payment) + plan[i]
      BY <3>4, <3>6
    <3> QED BY <3>3, <3>7, <3>8 DEF f, g
  <2>4. /\ SumFunctionOnSet(Received', Party!Payment) = SumFunctionOnSet(Received, Party!Payment) + amount
        /\ SumFunctionOnSet(Received, Party!Payment) \in Int /\ amount \in Nat
    <3> DEFINE f == Received
               g == Received'
    <3>1. ASSUME NEW q \in Party!Payment
          PROVE  /\ g[q] = applied'[q] * payments'[q].amount /\ g[q] \in Int
                 /\ f[q] = applied[q] * payments[q].amount /\ f[q] \in Int
                 /\ payments[q].amount \in Nat /\ applied[q] \in Nat
      BY <1>0, PartsTyped, PartsTypedNext DEF PartsAreNumbers
    <3>2. \A q \in Party!Payment \ {p} : f[q] = g[q]
      BY <3>1, <2>1
    <3>3. g[p] = (applied[p] + 1) * amount /\ f[p] = applied[p] * amount /\ amount \in Nat /\ applied[p] \in Nat
      BY <3>1, <2>1 DEF amount
    <3>4. g[p] - f[p] = amount
      <4>1. applied[p] * amount \in Int
        BY <3>1, <3>3, <2>1
      <4> QED BY <3>3, <4>1, <2>2
    <3>5. \A q \in Party!Payment : f[q] \in Int /\ g[q] \in Int
      BY <3>1
    <3>9. p \in Party!Payment /\ IsFiniteSet(Party!Payment)
      BY <2>1, PartyFinite
    <3> HIDE DEF f, g
    <3>6. SumFunctionOnSet(g, Party!Payment) = SumFunctionOnSet(f, Party!Payment) + (g[p] - f[p])
      BY <3>2, <3>5, <3>9, SumChange
    <3>7. SumFunctionOnSet(f, Party!Payment) \in Int
      BY <3>5, PartyFinite, SumTyped
    <3>8. SumFunctionOnSet(g, Party!Payment) = SumFunctionOnSet(f, Party!Payment) + amount
      BY <3>4, <3>6
    <3> QED BY <3>3, <3>7, <3>8 DEF f, g
  <2>5. /\ SumFunctionOnSet(Party!Open', Party!Invoice) = SumFunctionOnSet(Party!Open, Party!Invoice) - amount
    <3> DEFINE f == Party!Open
               h == Party!Open'
    <3>1. ASSUME NEW i \in Party!Invoice PROVE f[i] \in Int /\ plan[i] \in Int /\ h[i] = f[i] - plan[i]
      <4>1. f[i] \in Nat /\ plan[i] \in Nat
        BY <2>3, PartsTyped DEF PartsAreNumbers
      <4>2. CASE invoices[i].status = "confirmed"
        BY <4>1, <4>2, <2>1 DEF Party!Open
      <4>3. CASE invoices[i].status # "confirmed"
        <5>1. plan[i] = 0
          BY <4>1, <4>3, <2>1 DEF PlansSound, plan
        <5>2. f[i] = 0 /\ h[i] = 0
          BY <4>3, <2>1 DEF Party!Open
        <5> QED BY <5>1, <5>2
      <4> QED BY <4>1, <4>2, <4>3
    <3>2. SumFunctionOnSet(plan, Party!Invoice) = amount
      <4>1. Party!Allocates(plan, amount)
        BY <2>1 DEF PlansSound, plan, amount
      <4>2. DOMAIN plan = Party!Invoice
        BY <2>1, PartyRows DEF plan, Party!Plan
      <4> QED BY <4>1, <4>2, PartySum DEF Party!Allocates
    <3> HIDE DEF f, h
    <3>3. SumFunctionOnSet(h, Party!Invoice) = SumFunctionOnSet(f, Party!Invoice) - SumFunctionOnSet(plan, Party!Invoice)
      BY <3>1, PartyFinite, SumMinus
    <3>4. SumFunctionOnSet(h, Party!Invoice) = SumFunctionOnSet(f, Party!Invoice) - amount
      BY <3>2, <3>3
    <3> QED BY <3>4 DEF f, h
  <2>6. Confirmed' = Confirmed
    BY <2>1 DEF Confirmed
  <2>7. ASSUME NEW i \in Party!Invoice, invoices'[i].status # "absent"
        PROVE  invoices'[i].balance = InvoiceTotal - SumFunctionOnSet(Taken(i)', Party!Payment)
    <3>1. /\ invoices'[i].balance = invoices[i].balance - plan[i]
          /\ invoices[i].balance = InvoiceTotal - SumFunctionOnSet(Taken(i), Party!Payment)
      BY <2>1, <2>7 DEF BalanceSound
    <3>2. /\ SumFunctionOnSet(Taken(i)', Party!Payment) = SumFunctionOnSet(Taken(i), Party!Payment) + plan[i]
          /\ SumFunctionOnSet(Taken(i), Party!Payment) \in Int /\ plan[i] \in Nat
      BY <2>3
    <3> QED BY <3>1, <3>2, PartyBounds
  <2>8. InvoiceTotal * Cardinality(Confirmed) \in Int
    <3>1. IsFiniteSet(Confirmed)
      BY PartyFinite, FS_Subset DEF Confirmed
    <3> QED BY <3>1, FS_CardinalityType, PartyBounds
  <2>9. SumFunctionOnSet(Party!Open', Party!Invoice) =
          InvoiceTotal * Cardinality(Confirmed') - SumFunctionOnSet(Received', Party!Payment)
    <3>1. SumFunctionOnSet(Party!Open, Party!Invoice) =
            InvoiceTotal * Cardinality(Confirmed) - SumFunctionOnSet(Received, Party!Payment)
      BY DEF BalanceSound
    <3> QED BY <3>1, <2>4, <2>5, <2>6, <2>8
  <2> QED BY <2>7, <2>9 DEF BalanceSound
<1>5. ASSUME invoices' = invoices, payments' = payments, applied' = applied PROVE BalanceSound'
  <2>1. Party!Open' = Party!Open /\ Confirmed' = Confirmed /\ Received' = Received
    BY <1>5 DEF Party!Open, Confirmed, Received
  <2>2. \A i \in Party!Invoice : Taken(i)' = Taken(i)
    BY <1>5 DEF Taken
  <2> QED BY <1>5, <2>1, <2>2 DEF BalanceSound
<1>6. ASSUME NEW c \in Calls, NEW k \in Keys, Party!ClaimKey(c, k) PROVE BalanceSound'
  BY <1>5, <1>6 DEF Party!ClaimKey
<1>7. ASSUME NEW c \in Calls, NEW p \in Party!Payment, Party!BeginConfirm(c, p) PROVE BalanceSound'
  BY <1>5, <1>7 DEF Party!BeginConfirm
<1>8. ASSUME NEW c \in Calls, Party!Reject(c) \/ Party!Refuse(c) \/ Party!Rollback(c) PROVE BalanceSound'
  BY <1>5, <1>8 DEF Party!Reject, Party!Refuse, Party!Rollback
<1>9. ASSUME NEW c \in Calls, NEW amount \in Amount, NEW plan \in Party!Plan, NEW auto \in BOOLEAN,
             Proposes(c, amount, plan, auto)
      PROVE  BalanceSound'
  BY <1>5, <1>9 DEF Proposes, Party!Propose
<1> QED BY <1>1, <1>2, <1>3, <1>4, <1>6, <1>7, <1>8, <1>9, PartyActions
-------------------------------------------------------------------------------
(* What holds in every state *)

LEMMA PartyKept == PartyInv /\ [Party!Next]_partyVars => PartyInv'
<1> SUFFICES ASSUME PartyInv, [Party!Next]_partyVars PROVE PartyInv'
  OBVIOUS
<1>1. CASE Party!Next
  <2>1. PartyTypes' /\ KeysSound' /\ PlansSound' /\ ApplySound' /\ BalanceSound'
    BY <1>1, PartyTypesKept, KeysKept, PlansKept, ApplyKept, BalanceKept DEF PartyInv
  <2> QED BY <2>1 DEF PartyInv
<1>2. CASE UNCHANGED partyVars
  <2>1. /\ invoices' = invoices /\ payments' = payments /\ keys' = keys
        /\ paying' = paying /\ applied' = applied /\ overlapped' = overlapped
    BY <1>2 DEF partyVars
  <2>2. PartyTypes' /\ KeysSound' /\ PlansSound' /\ ApplySound'
    BY <2>1 DEF PartyInv, PartyTypes, KeysSound, PlansSound, ApplySound, Party!TwiceOnlyByOverlap
  <2>3. Party!Open' = Party!Open /\ Confirmed' = Confirmed /\ Received' = Received
    BY <2>1 DEF Party!Open, Confirmed, Received
  <2>4. \A i \in Party!Invoice : Taken(i)' = Taken(i)
    BY <2>1 DEF Taken
  <2>5. BalanceSound'
    BY <2>1, <2>3, <2>4 DEF PartyInv, BalanceSound
  <2> QED BY <2>2, <2>5 DEF PartyInv
<1> QED BY <1>1, <1>2

\* The other parts leave the receivables alone.
LEMMA PartyAlways == Spec => []PartyInv
<1>1. Init => PartyInv
  BY PartyInit DEF Init
<1>2. [Next]_vars => [Party!Next]_partyVars
  BY DEF Next, vars
<1>3. PartyInv /\ [Next]_vars => PartyInv'
  BY <1>2, PartyKept
<1> QED BY <1>1, <1>3, PTL DEF Spec

\* Exactly one key stands for a payment row, although several calls may hold their
\* transactions open at once, and a payment without instructions clears the oldest
\* invoices first (record_party_payment).
THEOREM PaymentsAreAsAsked == Spec => []PaymentsAsAsked
<1>1. PartyInv => PaymentsAsAsked
  <2> SUFFICES ASSUME PartyInv PROVE PaymentsAsAsked
    OBVIOUS
  <2>1. ASSUME NEW p \in Party!Payment, payments[p].status # "absent"
        PROVE  Party!Cardinality({k \in Keys : keys[k] = [state |-> "saved", payment |-> p]}) = 1
    <3> DEFINE rows == {k \in Keys : keys[k] = [state |-> "saved", payment |-> p]}
    <3>1. PICK k \in Keys : keys[k] = [state |-> "saved", payment |-> p]
      BY <2>1 DEF PartyInv, KeysSound
    <3>2. \A l \in rows : l = k
      BY <3>1 DEF PartyInv, KeysSound
    <3>3. rows = {k}
      BY <3>1, <3>2
    <3> QED BY <3>3, FS_Singleton, PartyCard
  <2>2. Party!OnePaymentPerKey
    BY <2>1 DEF Party!OnePaymentPerKey
  <2>3. Party!OldestFirst
    BY DEF Party!OldestFirst, PartyInv, PlansSound, Fills
  <2> QED BY <2>2, <2>3 DEF PaymentsAsAsked
<1> QED BY <1>1, PartyAlways, PTL

\* The balances and the statement, in the sums of BalanceSound.
LEMMA PartyAgrees == PartyInv => Party!BooksBalance /\ Party!TwiceOnlyByOverlap /\ Party!StatementAgrees
<1> SUFFICES ASSUME PartyInv
             PROVE  Party!BooksBalance /\ Party!TwiceOnlyByOverlap /\ Party!StatementAgrees
  OBVIOUS
<1>0. PartyTypes /\ PartsAreNumbers
  BY PartsTyped DEF PartyInv
<1>1. Party!TwiceOnlyByOverlap
  BY DEF PartyInv, ApplySound
<1>2. Party!BooksBalance
  <2> SUFFICES ASSUME NEW i \in Party!Invoice, invoices[i].status # "absent"
               PROVE  invoices[i].balance =
                        InvoiceTotal - Party!SumFunction([p \in Party!Payment |-> applied[p] * payments[p].plan[i]])
    BY DEF Party!BooksBalance
  <2>1. Party!SumFunction(Taken(i)) = SumFunctionOnSet(Taken(i), Party!Payment)
    <3>1. DOMAIN Taken(i) = Party!Payment
      BY DEF Taken
    <3> QED BY <3>1, PartySum
  <2>2. invoices[i].balance = InvoiceTotal - SumFunctionOnSet(Taken(i), Party!Payment)
    BY DEF PartyInv, BalanceSound
  <2> QED BY <2>1, <2>2 DEF Taken
<1>3. Party!StatementAgrees
  <2> SUFFICES ASSUME overlapped = {} PROVE Party!ClosingBalance = Party!Outstanding
    BY DEF Party!StatementAgrees
  <2> DEFINE shown == [p \in Party!Payment |-> IF payments[p].status = "confirmed" THEN payments[p].amount ELSE 0]
  <2>1. ASSUME NEW p \in Party!Payment PROVE shown[p] = Received[p]
    <3>1. /\ applied[p] \in Nat /\ payments[p].amount \in Nat
          /\ Received[p] = applied[p] * payments[p].amount
          /\ payments[p].status = "confirmed" <=> applied[p] > 0
      BY <1>0 DEF PartsAreNumbers, PartyInv, ApplySound
    <3>2. ~ (applied[p] > 1)
      BY <1>1 DEF Party!TwiceOnlyByOverlap
    <3>3. applied[p] = 0 \/ applied[p] = 1
      BY <3>1, <3>2
    <3>4. \A a \in Nat : 0 * a = 0 /\ 1 * a = a
      OBVIOUS
    <3> QED BY <3>1, <3>3, <3>4
  <2>2. Party!SumFunction(shown) = SumFunctionOnSet(Received, Party!Payment)
    <3>1. DOMAIN shown = Party!Payment
      OBVIOUS
    <3> HIDE DEF shown
    <3>2. SumFunctionOnSet(shown, Party!Payment) = SumFunctionOnSet(Received, Party!Payment)
      BY <2>1, PartyFinite, SumSame
    <3> QED BY <3>1, <3>2, PartySum
  <2>3. Party!SumFunction(Party!Open) = SumFunctionOnSet(Party!Open, Party!Invoice)
    <3>1. DOMAIN Party!Open = Party!Invoice
      BY DEF Party!Open
    <3> QED BY <3>1, PartySum
  <2>4. Party!ClosingBalance = InvoiceTotal * Cardinality(Confirmed) - SumFunctionOnSet(Received, Party!Payment)
    <3>1. Party!Cardinality(Confirmed) = Cardinality(Confirmed)
      BY PartyCard
    <3>2. Party!ClosingBalance = InvoiceTotal * Party!Cardinality(Confirmed) - Party!SumFunction(shown)
      BY DEF Party!ClosingBalance, Confirmed
    <3> QED BY <3>1, <3>2, <2>2
  <2>5. SumFunctionOnSet(Party!Open, Party!Invoice) =
          InvoiceTotal * Cardinality(Confirmed) - SumFunctionOnSet(Received, Party!Payment)
    BY DEF PartyInv, BalanceSound
  <2> QED BY <2>3, <2>4, <2>5 DEF Party!Outstanding
<1> QED BY <1>1, <1>2, <1>3
-------------------------------------------------------------------------------
(* Reports: sums over sets of rows *)

RowAmounts(rows) == [row \in rows |-> row[2]]

\* SumOf adds up the amounts of rows.
LEMMA SumOfRows ==
  ASSUME NEW rows, IsFiniteSet(rows)
  PROVE  Report!SumOf(rows) = SumFunctionOnSet(RowAmounts(rows), rows)
<1> DEFINE f == RowAmounts(rows)
           Adding(g) == g = [s \in SUBSET rows |-> IF s = {} THEN 0 ELSE First(s)[2] + g[s \ {First(s)}]]
<1>1. Report!SumOf(rows) = (CHOOSE g : Adding(g))[rows]
  BY DEF Report!SumOf, Report!MapThenSumSet, Report!MapThenFoldSet, First
<1>2. ASSUME NEW g PROVE Adding(g) <=> Adds(g, f, rows)
  <2>1. \A s \in SUBSET rows : s # {} => f[First(s)] = First(s)[2]
    BY FirstIn DEF RowAmounts
  <2> HIDE DEF f
  <2>2. [s \in SUBSET rows |-> IF s = {} THEN 0 ELSE First(s)[2] + g[s \ {First(s)}]]
          = [s \in SUBSET rows |-> IF s = {} THEN 0 ELSE f[First(s)] + g[s \ {First(s)}]]
    BY <2>1
  <2> QED BY <2>2 DEF Adds
<1> HIDE DEF Adding
<1>3. PICK g : g = (CHOOSE a : Adding(a)) /\ Adds(g, f, rows)
  <2>1. \E a : Adding(a)
    BY <1>2, AddsExists
  <2> QED BY <2>1, <1>2
<1>4. PICK h : h = (CHOOSE a : Adds(a, f, rows)) /\ Adds(h, f, rows)
  BY AddsExists
<1>5. g[rows] = h[rows]
  BY <1>3, <1>4, AddsAgree
<1> QED BY <1>1, <1>3, <1>4, <1>5, SumIsChosen

\* Rows made of the entries K with their amounts f.
RowsOf(K, f) == {<<e, f[e]>> : e \in K}

LEMMA SumOfEntries ==
  ASSUME NEW K, IsFiniteSet(K), NEW f, \A e \in K : f[e] \in Int
  PROVE  IsFiniteSet(RowsOf(K, f)) /\ Report!SumOf(RowsOf(K, f)) = SumFunctionOnSet(f, K)
<1> DEFINE Sum(T) == SumFunctionOnSet(f, T)
           All == RowsOf(K, f)
           a == RowAmounts(All)
           B == {T \in SUBSET K : SumFunctionOnSet(a, RowsOf(T, f)) # Sum(T)}
<1>1. IsFiniteSet(All)
  <2> DEFINE h == [e \in K |-> <<e, f[e]>>]
  <2>1. h \in Surjection(K, All)
    BY DEF Surjection, RowsOf
  <2> HIDE DEF h, All
  <2> QED BY <2>1, FS_Surjection
<1>2. \A e \in K : a[<<e, f[e]>>] = f[e]
  BY DEF RowAmounts, RowsOf
<1>3. ASSUME B # {} PROVE FALSE
  <2>1. PICK T \in B : \A y \in T : T \ {y} \notin B
    <3> HIDE DEF B
    <3>1. B \subseteq SUBSET K
      BY DEF B
    <3> QED BY <3>1, <1>3, MinimalSubset
  <2>2. CASE T = {}
    <3>1. RowsOf(T, f) = {}
      BY <2>2 DEF RowsOf
    <3> QED BY <3>1, <2>1, <2>2, SumEmpty
  <2>3. CASE T # {}
    <3>1. PICK x \in T : TRUE
      BY <2>3
    <3> DEFINE V == T \ {x}
               R == RowsOf(V, f)
    <3>2. V \in SUBSET K /\ x \in K /\ x \notin V /\ V \cup {x} = T /\ f[x] \in Int
      BY <2>1, <3>1
    <3>3. SumFunctionOnSet(a, R) = Sum(V)
      BY <2>1, <3>1, <3>2
    <3>4. RowsOf(T, f) = R \cup {<<x, f[x]>>} /\ <<x, f[x]>> \notin R /\ R \subseteq All
      BY <3>1, <3>2 DEF RowsOf
    <3>5. \A r \in R \cup {<<x, f[x]>>} : a[r] \in Int
      <4>1. \A r \in All : a[r] \in Int
        BY DEF RowAmounts, RowsOf
      <4>2. <<x, f[x]>> \in All
        BY <3>2 DEF RowsOf
      <4> QED BY <4>1, <4>2, <3>4
    <3>6. IsFiniteSet(V) /\ IsFiniteSet(R)
      BY <3>2, <3>4, <1>1, FS_Subset
    <3>7. a[<<x, f[x]>>] = f[x]
      BY <3>2, <1>2
    <3>8. \A y \in V \cup {x} : f[y] \in Int
      BY <3>2
    <3> HIDE DEF V, R, a, All, B
    <3>9. SumFunctionOnSet(a, R \cup {<<x, f[x]>>}) = SumFunctionOnSet(a, R) + f[x]
      <4> DEFINE r == <<x, f[x]>>
      <4>1. r \notin R /\ a[r] = f[x] /\ \A y \in R \cup {r} : a[y] \in Int
        BY <3>4, <3>5, <3>7
      <4> HIDE DEF r
      <4>2. SumFunctionOnSet(a, R \cup {r}) = SumFunctionOnSet(a, R) + a[r]
        BY <4>1, <3>6, SumAdd
      <4> QED BY <4>1, <4>2 DEF r
    <3>10. Sum(V \cup {x}) = Sum(V) + f[x]
      BY <3>2, <3>6, <3>8, SumAdd
    <3>11. SumFunctionOnSet(a, RowsOf(T, f)) = Sum(T)
      BY <3>2, <3>3, <3>4, <3>9, <3>10
    <3> QED BY <3>11, <2>1 DEF B
  <2> QED BY <2>2, <2>3
<1>4. SumFunctionOnSet(a, All) = Sum(K)
  BY <1>3
<1> QED BY <1>1, <1>4, SumOfRows
-------------------------------------------------------------------------------
(* Reports: the ledger they are made of *)

\* The ledger of BooksMC.
Book == <<Row("invoice", 3, 0), Row("bill", 2, 0), Row("received", 1, 1), Row("paid", 2, 2), Row("sale", 1, 0)>>

Of(kind) == Report!OfKind(kind)
Due == Report!Debit

\* What the entries are: a payment received is of an invoice, one made is of a bill.
LEMMA BookFacts ==
  /\ IsFiniteSet(Report!Entries) /\ Report!Entries \subseteq Nat /\ 0 \notin Report!Entries
  /\ Report!Debts = Of("invoice") \cup Of("bill")
  /\ \A kind : Of(kind) \subseteq Report!Entries /\ IsFiniteSet(Of(kind))
  /\ \A k, l : k # l => Of(k) \cap Of(l) = {}
  /\ \A e \in Report!Entries : Due[e] \in Nat /\ Report!Credit[e] = -Due[e]
<1>1. Report!Entries = 1..5
  BY DEF Report!Entries
<1>2. IsFiniteSet(1..5) /\ 1..5 \subseteq Nat /\ 0 \notin 1..5
  <2>1. 5 \in Nat /\ 0 \notin 1..5
    OBVIOUS
  <2> QED BY <2>1, IntervalFinite
<1>3. Report!Debts = Of("invoice") \cup Of("bill")
  BY DEF Of, Report!Debts
<1>4. \A kind : Of(kind) \subseteq Report!Entries
  BY DEF Of, Report!OfKind
<1>5. \A kind : IsFiniteSet(Of(kind))
  BY <1>1, <1>2, <1>4, FS_Subset
<1>6. \A k, l : k # l => Of(k) \cap Of(l) = {}
  BY DEF Of, Report!OfKind
<1>7. \A e \in Report!Entries : Due[e] \in Nat /\ Report!Credit[e] = -Due[e]
  BY <1>1 DEF Due, Report!Debit, Report!Credit, Row
<1> QED BY <1>1, <1>2, <1>3, <1>4, <1>5, <1>6, <1>7

\* The payments of a kind of debt.
Pairs == {<<"invoice", "received">>, <<"bill", "paid">>}

\* What Confirm does to the balances.
LEMMA ConfirmEffect ==
  ASSUME NEW e \in Report!Entries, Report!Confirm(e), balances \in [Report!Debts -> Nat]
  PROVE  /\ e \notin confirmed /\ confirmed' = confirmed \cup {e} /\ job' = job
         /\ balances' \in [Report!Debts -> Nat]
         /\ \A q \in Pairs :
              /\ e \notin Of(q[2]) => \A d \in Of(q[1]) : balances'[d] = balances[d]
              /\ e \in Of(q[2]) => \E d \in Of(q[1]) \cap confirmed :
                   /\ balances'[d] = balances[d] - Due[e]
                   /\ \A o \in Of(q[1]) \ {d} : balances'[o] = balances[o]
<1>1. /\ e \notin confirmed /\ confirmed' = confirmed \cup {e} /\ job' = job
      /\ Book[e].of # 0 => Book[e].of \in confirmed /\ Book[e].amount <= balances[Book[e].of]
      /\ balances' = [d \in Report!Debts |-> IF Book[e].of = d THEN balances[d] - Book[e].amount ELSE balances[d]]
  BY DEF Report!Confirm, Book
<1>2. Report!Entries = 1..5
  BY DEF Report!Entries
<1>3. /\ Of("invoice") = {1} /\ Of("bill") = {2} /\ Of("received") = {3} /\ Of("paid") = {4}
      /\ Report!Debts = {1, 2}
  BY <1>2 DEF Of, Report!OfKind, Report!Debts, Row
<1>4. Due[e] = Book[e].amount /\ Book[e].amount \in Nat
  BY <1>2 DEF Due, Report!Debit, Row, Book
<1>5. Book[1].of = 0 /\ Book[2].of = 0 /\ Book[3].of = 1 /\ Book[4].of = 2 /\ Book[5].of = 0
  BY DEF Row, Book
<1>6. balances' \in [Report!Debts -> Nat]
  <2>1. ASSUME NEW d \in Report!Debts
        PROVE  (IF Book[e].of = d THEN balances[d] - Book[e].amount ELSE balances[d]) \in Nat
    <3>1. balances[d] \in Nat /\ d # 0
      BY <1>3
    <3> QED BY <3>1, <1>1, <1>4
  <2> QED BY <1>1, <2>1
<1>7. e \in {1, 2, 3, 4, 5}
  BY <1>2
<1>8. CASE e \in {1, 2, 5}
  <2>1. balances'[1] = balances[1] /\ balances'[2] = balances[2]
    BY <1>1, <1>3, <1>5, <1>8
  <2> QED BY <1>1, <1>3, <1>6, <1>8, <2>1 DEF Pairs
<1>9. CASE e = 3
  <2>1. 1 \in confirmed /\ balances'[1] = balances[1] - Due[e] /\ balances'[2] = balances[2]
    BY <1>1, <1>3, <1>4, <1>5, <1>9
  <2> QED BY <1>1, <1>3, <1>6, <1>9, <2>1 DEF Pairs
<1>10. CASE e = 4
  <2>1. 2 \in confirmed /\ balances'[2] = balances[2] - Due[e] /\ balances'[1] = balances[1]
    BY <1>1, <1>3, <1>4, <1>5, <1>10
  <2> QED BY <1>1, <1>3, <1>6, <1>10, <2>1 DEF Pairs
<1> QED BY <1>7, <1>8, <1>9, <1>10

\* The sums of Left are those of the entries' amounts.
Adding(g, K) ==
  g = [s \in SUBSET K |-> IF s = {} THEN 0 ELSE Book[First(s)].amount + g[s \ {First(s)}]]
Chosen(K) == (CHOOSE g : Adding(g, K))[K]

LEMMA AmountsSum == ASSUME NEW K, K \subseteq Report!Entries PROVE Chosen(K) = SumFunctionOnSet(Due, K)
<1>1. IsFiniteSet(K)
  BY BookFacts, FS_Subset
<1>2. ASSUME NEW g PROVE Adding(g, K) <=> Adds(g, Due, K)
  <2>1. ASSUME NEW s \in SUBSET K, s # {} PROVE Due[First(s)] = Book[First(s)].amount
    <3>1. First(s) \in Report!Entries
      BY <2>1, FirstIn
    <3> QED BY <3>1 DEF Due, Report!Debit, Report!Entries, Book
  <2>2. [s \in SUBSET K |-> IF s = {} THEN 0 ELSE Book[First(s)].amount + g[s \ {First(s)}]]
          = [s \in SUBSET K |-> IF s = {} THEN 0 ELSE Due[First(s)] + g[s \ {First(s)}]]
    BY <2>1
  <2> QED BY <2>2 DEF Adds, Adding
<1>3. PICK g : g = (CHOOSE a : Adding(a, K)) /\ Adds(g, Due, K)
  <2>1. \E a : Adding(a, K)
    BY <1>1, <1>2, AddsExists
  <2> QED BY <2>1, <1>2
<1>4. PICK h : h = (CHOOSE a : Adds(a, Due, K)) /\ Adds(h, Due, K)
  BY <1>1, AddsExists
<1>5. g[K] = h[K]
  BY <1>1, <1>3, <1>4, AddsAgree
<1> QED BY <1>3, <1>4, <1>5, SumIsChosen DEF Chosen

\* What is left of a kind of debt: what is due less what was paid of it.
LEMMA LeftIs ==
  ASSUME NEW S, S \subseteq Report!Entries
  PROVE  \A q \in Pairs : Report!Left(q[1], S) =
           SumFunctionOnSet(Due, S \cap Of(q[1])) - SumFunctionOnSet(Due, S \cap Of(q[2]))
<1>1. ASSUME NEW kind
      PROVE  Report!Left(kind, S) =
               Chosen(S \cap Of(kind)) - Chosen({p \in S : Book[p].of # 0 /\ Book[Book[p].of].kind = kind})
  BY DEF Report!Left, Report!MapThenSumSet, Report!MapThenFoldSet, First, Chosen, Adding, Of, Book
<1>2. ASSUME NEW q \in Pairs
      PROVE  {p \in S : Book[p].of # 0 /\ Book[Book[p].of].kind = q[1]} = S \cap Of(q[2])
  <2>1. Report!Entries = 1..5
    BY DEF Report!Entries
  <2>2. /\ Of("received") = {3} /\ Of("paid") = {4}
    BY <2>1 DEF Of, Report!OfKind, Row
  <2>3. /\ Book[1].of = 0 /\ Book[2].of = 0 /\ Book[3].of = 1 /\ Book[4].of = 2 /\ Book[5].of = 0
        /\ Book[1].kind = "invoice" /\ Book[2].kind = "bill"
    BY DEF Book, Row
  <2>4. \A p \in S : p \in {1, 2, 3, 4, 5}
    BY <2>1
  <2>5. q = <<"invoice", "received">> \/ q = <<"bill", "paid">>
    BY DEF Pairs
  <2> QED BY <2>2, <2>3, <2>4, <2>5
<1>3. ASSUME NEW q \in Pairs
      PROVE  Report!Left(q[1], S) =
               SumFunctionOnSet(Due, S \cap Of(q[1])) - SumFunctionOnSet(Due, S \cap Of(q[2]))
  <2>1. /\ Chosen(S \cap Of(q[1])) = SumFunctionOnSet(Due, S \cap Of(q[1]))
        /\ Chosen(S \cap Of(q[2])) = SumFunctionOnSet(Due, S \cap Of(q[2]))
    BY AmountsSum
  <2> QED BY <1>1, <1>2, <2>1
<1> QED BY <1>3

\* The balances kept are what the confirmed entries leave.
LedgerSound ==
  /\ confirmed \subseteq Report!Entries
  /\ balances \in [Report!Debts -> Nat]
  /\ \A d \in Report!Debts \ confirmed : balances[d] = Due[d]
  /\ \A q \in Pairs :
       SumFunctionOnSet(balances, confirmed \cap Of(q[1])) =
         SumFunctionOnSet(Due, confirmed \cap Of(q[1])) - SumFunctionOnSet(Due, confirmed \cap Of(q[2]))

LEMMA LedgerKept ==
  ASSUME LedgerSound, NEW e \in Report!Entries, Report!Confirm(e)
  PROVE  LedgerSound'
<1>0. /\ e \notin confirmed /\ confirmed' = confirmed \cup {e}
      /\ balances \in [Report!Debts -> Nat] /\ balances' \in [Report!Debts -> Nat]
      /\ confirmed \subseteq Report!Entries
  BY ConfirmEffect DEF LedgerSound
<1>1. ASSUME NEW d \in Report!Debts \ confirmed' PROVE balances'[d] = Due[d]
  <2>1. d \in Report!Debts \ confirmed /\ balances[d] = Due[d]
    BY <1>0, <1>1 DEF LedgerSound
  <2>2. balances'[d] = balances[d]
    BY <1>0, <1>1, ConfirmEffect, BookFacts DEF Pairs
  <2> QED BY <2>1, <2>2
<1>2. ASSUME NEW q \in Pairs
      PROVE  SumFunctionOnSet(balances', confirmed' \cap Of(q[1])) =
               SumFunctionOnSet(Due, confirmed' \cap Of(q[1])) - SumFunctionOnSet(Due, confirmed' \cap Of(q[2]))
  <2> DEFINE f == balances
             g == balances'
             K == confirmed \cap Of(q[1])
             L == confirmed \cap Of(q[2])
  <2>1. /\ IsFiniteSet(K) /\ IsFiniteSet(L) /\ K \subseteq Report!Debts
        /\ e \notin K /\ e \notin L /\ e \in Report!Entries
        /\ Of(q[1]) \cap Of(q[2]) = {} /\ Of(q[1]) \subseteq Report!Debts
    <3>1. Of(q[1]) \cap Of(q[2]) = {} /\ Of(q[1]) \subseteq Report!Debts
      BY BookFacts DEF Pairs
    <3>2. IsFiniteSet(K) /\ IsFiniteSet(L)
      BY BookFacts, FS_Subset
    <3> QED BY <3>1, <3>2, <1>0
  <2>2. /\ \A x \in Report!Debts : f[x] \in Int /\ g[x] \in Int
        /\ \A x \in Report!Entries : Due[x] \in Int
    BY <1>0, BookFacts
  <2>3. /\ SumFunctionOnSet(f, K) \in Int /\ SumFunctionOnSet(Due, K) \in Int
        /\ SumFunctionOnSet(Due, L) \in Int
    <3>1. (\A x \in K : f[x] \in Int) /\ (\A x \in K : Due[x] \in Int) /\ (\A x \in L : Due[x] \in Int)
      BY <2>1, <2>2, <1>0
    <3> HIDE DEF f, K, L
    <3> QED BY <3>1, <2>1, SumTyped
  <2>4. SumFunctionOnSet(f, K) = SumFunctionOnSet(Due, K) - SumFunctionOnSet(Due, L)
    BY DEF LedgerSound
  <2>5. CASE e \in Of(q[1])
    <3>1. confirmed' \cap Of(q[1]) = K \cup {e} /\ confirmed' \cap Of(q[2]) = L
      BY <2>5, <2>1, <1>0
    <3>2. (\A x \in K \cup {e} : g[x] = f[x]) /\ e \notin Of(q[2]) /\ e \in Report!Debts
      BY <2>1, <2>5, ConfirmEffect, <1>0
    <3>3. f[e] = Due[e]
      BY <3>2, <1>0 DEF LedgerSound
    <3>4. (\A x \in K \cup {e} : f[x] \in Int) /\ \A x \in K \cup {e} : Due[x] \in Int
      BY <2>1, <2>2, <3>2, <1>0
    <3>5. Due[e] \in Int /\ IsFiniteSet(K \cup {e})
      BY <2>1, <2>2, FS_AddElement
    <3> HIDE DEF f, g, K, L
    <3>6. SumFunctionOnSet(g, K \cup {e}) = SumFunctionOnSet(f, K \cup {e})
      BY <3>2, <3>5, SumSame
    <3>7. SumFunctionOnSet(f, K \cup {e}) = SumFunctionOnSet(f, K) + f[e]
      BY <2>1, <3>4, SumAdd
    <3>8. SumFunctionOnSet(Due, K \cup {e}) = SumFunctionOnSet(Due, K) + Due[e]
      BY <2>1, <3>4, SumAdd
    <3>9. SumFunctionOnSet(g, K \cup {e}) = SumFunctionOnSet(Due, K \cup {e}) - SumFunctionOnSet(Due, L)
      BY <3>6, <3>7, <3>8, <3>3, <3>5, <2>3, <2>4
    <3> QED BY <3>1, <3>9 DEF g
  <2>6. CASE e \in Of(q[2])
    <3>1. confirmed' \cap Of(q[1]) = K /\ confirmed' \cap Of(q[2]) = L \cup {e}
      BY <2>6, <2>1, <1>0
    <3>2. PICK d \in K : g[d] = f[d] - Due[e] /\ \A o \in K \ {d} : g[o] = f[o]
      BY <2>6, ConfirmEffect, <1>0
    <3>3. (\A x \in K : f[x] \in Int /\ g[x] \in Int) /\ \A x \in L \cup {e} : Due[x] \in Int
      BY <2>1, <2>2, <1>0
    <3>4. Due[e] \in Int /\ f[d] \in Int
      BY <2>1, <2>2, <3>3
    <3> HIDE DEF f, g, K, L
    <3>5. SumFunctionOnSet(g, K) = SumFunctionOnSet(f, K) + (g[d] - f[d])
      BY <2>1, <3>2, <3>3, SumChange
    <3>6. SumFunctionOnSet(Due, L \cup {e}) = SumFunctionOnSet(Due, L) + Due[e]
      BY <2>1, <3>3, SumAdd
    <3>7. SumFunctionOnSet(g, K) = SumFunctionOnSet(Due, K) - SumFunctionOnSet(Due, L \cup {e})
      BY <3>2, <3>4, <3>5, <3>6, <2>3, <2>4
    <3> QED BY <3>1, <3>7 DEF g
  <2>7. CASE e \notin Of(q[1]) /\ e \notin Of(q[2])
    <3>1. confirmed' \cap Of(q[1]) = K /\ confirmed' \cap Of(q[2]) = L
      BY <2>7, <1>0
    <3>2. \A x \in K : g[x] = f[x]
      BY <2>7, ConfirmEffect, <1>0
    <3> HIDE DEF f, g, K, L
    <3>3. SumFunctionOnSet(g, K) = SumFunctionOnSet(f, K)
      BY <2>1, <3>2, SumSame
    <3> QED BY <3>1, <3>3, <2>4 DEF g
  <2> QED BY <2>5, <2>6, <2>7
<1> QED BY <1>0, <1>1, <1>2 DEF LedgerSound
-------------------------------------------------------------------------------
(* Reports: what they show *)

\* An open-items report adds up to what is left of its debts.
LEMMA OpenTotal ==
  ASSUME LedgerSound, NEW q \in Pairs
  PROVE  Report!SumOf(Report!OpenRows(q[1])) = Report!Left(q[1], confirmed)
<1> DEFINE K == confirmed \cap Of(q[1])
           P == {e \in K : balances[e] > 0}
           Z == K \ P
<1>1. /\ IsFiniteSet(K) /\ IsFiniteSet(P) /\ IsFiniteSet(Z)
      /\ P \cap Z = {} /\ P \cup Z = K
      /\ \A e \in K : balances[e] \in Nat
  <2>1. IsFiniteSet(K) /\ Of(q[1]) \subseteq Report!Debts
    BY BookFacts, FS_Subset DEF Pairs
  <2>2. IsFiniteSet(P) /\ IsFiniteSet(Z)
    <3>1. P \subseteq K /\ Z \subseteq K
      OBVIOUS
    <3> QED BY <2>1, <3>1, FS_Subset
  <2> QED BY <2>1, <2>2 DEF LedgerSound
<1>2. Report!OpenRows(q[1]) = RowsOf(P, balances)
  BY DEF Report!OpenRows, Report!Listed, RowsOf, Of
<1>3. (\A e \in P : balances[e] \in Int) /\ (\A e \in P \cup Z : balances[e] \in Int)
      /\ \A e \in Z : balances[e] = 0
  BY <1>1
<1> HIDE DEF P, Z, K
<1>4. Report!SumOf(RowsOf(P, balances)) = SumFunctionOnSet(balances, P)
  BY <1>1, <1>3, SumOfEntries
<1>5. SumFunctionOnSet(balances, P \cup Z) = SumFunctionOnSet(balances, P) + SumFunctionOnSet(balances, Z)
  BY <1>1, <1>3, SumUnion
<1>6. SumFunctionOnSet(balances, Z) = 0 /\ SumFunctionOnSet(balances, P) \in Int
  BY <1>1, <1>3, SumZero, SumTyped
<1>7. SumFunctionOnSet(balances, K) = SumFunctionOnSet(balances, P)
  BY <1>1, <1>5, <1>6
<1>8. SumFunctionOnSet(balances, K) = Report!Left(q[1], confirmed)
  BY LeftIs DEF LedgerSound, K
<1> QED BY <1>2, <1>4, <1>7, <1>8

\* The rows of a statement: invoices and payments made against bills and payments received.
Signed == [e \in Report!Entries |-> IF e \in Of("invoice") \cup Of("paid") THEN Due[e] ELSE -Due[e]]

LEMMA SumNegated ==
  ASSUME NEW K, IsFiniteSet(K), NEW f, NEW g, \A e \in K : g[e] \in Int /\ f[e] = -g[e]
  PROVE  SumFunctionOnSet(f, K) = -SumFunctionOnSet(g, K)
<1> DEFINE zero == [e \in K |-> 0]
<1>1. \A e \in K : zero[e] \in Int /\ g[e] \in Int /\ f[e] = zero[e] - g[e]
  OBVIOUS
<1>2. \A e \in K : zero[e] = 0
  OBVIOUS
<1> HIDE DEF zero
<1>3. SumFunctionOnSet(f, K) = SumFunctionOnSet(zero, K) - SumFunctionOnSet(g, K)
  BY <1>1, SumMinus
<1>4. SumFunctionOnSet(zero, K) = 0 /\ SumFunctionOnSet(g, K) \in Int
  BY <1>1, <1>2, SumZero, SumTyped
<1> QED BY <1>3, <1>4

LEMMA StatementTotal ==
  ASSUME NEW S, S \subseteq Report!Entries
  PROVE  Report!SumOf(RowsOf(S \cap Of("invoice"), Due) \cup RowsOf(S \cap Of("bill"), Report!Credit)
                        \cup (RowsOf(S \cap Of("received"), Report!Credit) \cup RowsOf(S \cap Of("paid"), Due)))
           = Report!Left("invoice", S) - Report!Left("bill", S)
<1> DEFINE I == S \cap Of("invoice")
           B == S \cap Of("bill")
           R == S \cap Of("received")
           P == S \cap Of("paid")
           s == Signed
           d == Due
           c == Report!Credit
           Sum(K) == SumFunctionOnSet(s, K)
<1>1. /\ IsFiniteSet(I) /\ IsFiniteSet(B) /\ IsFiniteSet(R) /\ IsFiniteSet(P)
      /\ I \subseteq Report!Entries /\ B \subseteq Report!Entries
      /\ R \subseteq Report!Entries /\ P \subseteq Report!Entries
  BY BookFacts, FS_Subset
<1>2. /\ I \cap B = {} /\ I \cap R = {} /\ I \cap P = {} /\ B \cap R = {} /\ B \cap P = {} /\ R \cap P = {}
  <2>1. \A k, l : k # l => (S \cap Of(k)) \cap (S \cap Of(l)) = {}
    BY BookFacts
  <2> QED BY <2>1
<1>3. /\ \A e \in I \cup P : s[e] = d[e]
      /\ \A e \in B \cup R : s[e] = c[e]
      /\ \A e \in Report!Entries : d[e] \in Int /\ s[e] \in Int /\ c[e] = -d[e]
  BY <1>1, <1>2, BookFacts DEF Signed
<1>4. RowsOf(I, d) \cup RowsOf(B, c) \cup (RowsOf(R, c) \cup RowsOf(P, d)) = RowsOf(I \cup B \cup (R \cup P), s)
  <2> HIDE DEF I, B, R, P, s, d, c
  <2>1. RowsOf(I, d) = RowsOf(I, s) /\ RowsOf(P, d) = RowsOf(P, s)
    BY <1>3 DEF RowsOf
  <2>2. RowsOf(B, c) = RowsOf(B, s) /\ RowsOf(R, c) = RowsOf(R, s)
    BY <1>3 DEF RowsOf
  <2>3. \A K, L : RowsOf(K \cup L, s) = RowsOf(K, s) \cup RowsOf(L, s)
    BY DEF RowsOf
  <2>4. RowsOf(I \cup B, s) = RowsOf(I, s) \cup RowsOf(B, s) /\ RowsOf(R \cup P, s) = RowsOf(R, s) \cup RowsOf(P, s)
    BY <2>3
  <2>5. RowsOf(I \cup B \cup (R \cup P), s) = RowsOf(I \cup B, s) \cup RowsOf(R \cup P, s)
    BY <2>3
  <2> HIDE DEF RowsOf
  <2> QED BY <2>1, <2>2, <2>4, <2>5
<1>5. /\ \A K \in SUBSET Report!Entries : \A e \in K : s[e] \in Int /\ d[e] \in Int
      /\ \A e \in B : d[e] \in Int /\ s[e] = -d[e]
      /\ \A e \in R : d[e] \in Int /\ s[e] = -d[e]
      /\ \A e \in I : s[e] = d[e]
      /\ \A e \in P : s[e] = d[e]
  BY <1>1, <1>3
<1> HIDE DEF I, B, R, P, s, d, c
<1>6. IsFiniteSet(I \cup B) /\ IsFiniteSet(R \cup P) /\ (I \cup B) \cap (R \cup P) = {}
      /\ IsFiniteSet(I \cup B \cup (R \cup P)) /\ I \cup B \cup (R \cup P) \subseteq Report!Entries
  BY <1>1, <1>2, FS_Union
<1>7. Report!SumOf(RowsOf(I \cup B \cup (R \cup P), s)) = Sum(I \cup B \cup (R \cup P))
  BY <1>5, <1>6, SumOfEntries
<1>8. Sum(I \cup B \cup (R \cup P)) = Sum(I \cup B) + Sum(R \cup P)
  BY <1>5, <1>6, SumUnion
<1>9. Sum(I \cup B) = Sum(I) + Sum(B)
  <2>1. \A e \in I \cup B : s[e] \in Int
    BY <1>1, <1>5
  <2> QED BY <2>1, <1>1, <1>2, SumUnion
<1>10. Sum(R \cup P) = Sum(R) + Sum(P)
  <2>1. \A e \in R \cup P : s[e] \in Int
    BY <1>1, <1>5
  <2> QED BY <2>1, <1>1, <1>2, SumUnion
<1>11. Sum(I) = SumFunctionOnSet(d, I) /\ Sum(P) = SumFunctionOnSet(d, P)
  BY <1>1, <1>5, SumSame
<1>12. Sum(B) = -SumFunctionOnSet(d, B) /\ Sum(R) = -SumFunctionOnSet(d, R)
  BY <1>1, <1>5, SumNegated
<1>13. /\ SumFunctionOnSet(d, I) \in Int /\ SumFunctionOnSet(d, P) \in Int
       /\ SumFunctionOnSet(d, B) \in Int /\ SumFunctionOnSet(d, R) \in Int
  BY <1>1, <1>5, SumTyped
<1>14. /\ Report!Left("invoice", S) = SumFunctionOnSet(d, I) - SumFunctionOnSet(d, R)
       /\ Report!Left("bill", S) = SumFunctionOnSet(d, B) - SumFunctionOnSet(d, P)
  BY LeftIs DEF Pairs, d, I, R, B, P
<1>15. Sum(I \cup B \cup (R \cup P)) = Report!Left("invoice", S) - Report!Left("bill", S)
  <2> DEFINE a1 == SumFunctionOnSet(d, I)
             a2 == SumFunctionOnSet(d, P)
             a3 == SumFunctionOnSet(d, B)
             a4 == SumFunctionOnSet(d, R)
  <2>1. Sum(I \cup B \cup (R \cup P)) = (a1 + (-a3)) + ((-a4) + a2)
    BY <1>8, <1>9, <1>10, <1>11, <1>12
  <2>2. Report!Left("invoice", S) - Report!Left("bill", S) = (a1 - a4) - (a3 - a2)
    BY <1>14
  <2>3. a1 \in Int /\ a2 \in Int /\ a3 \in Int /\ a4 \in Int
    BY <1>13
  <2> HIDE DEF a1, a2, a3, a4
  <2>4. (a1 + (-a3)) + ((-a4) + a2) = (a1 - a4) - (a3 - a2)
    BY <2>3
  <2> QED BY <2>1, <2>2, <2>4
<1>16. Report!SumOf(RowsOf(I, d) \cup RowsOf(B, c) \cup (RowsOf(R, c) \cup RowsOf(P, d)))
         = Report!Left("invoice", S) - Report!Left("bill", S)
  BY <1>4, <1>7, <1>15
<1> QED BY <1>16 DEF I, B, R, P, d, c
-------------------------------------------------------------------------------
(* Reports: the job *)

\* A report at hand shows what was confirmed when it was read.
Shows(j) ==
  /\ j.request.type = "receivables" => j.total = Report!Left("invoice", j.seen)
  /\ j.request.type = "payables" => j.total = Report!Left("bill", j.seen)
  /\ j.request.type = "statement" /\ ~j.torn =>
       j.total = Report!Left("invoice", j.seen) - Report!Left("bill", j.seen)

Asked == {"at", "no", "request"}
Answered == {"found", "rows", "total", "seen", "torn"}

\* The fields of a job at each stage.
JobShape ==
  /\ "at" \in DOMAIN job
  /\ job.at \in {"tenant", "read", "bills", "payments", "built", "document"} => Asked \subseteq DOMAIN job
  /\ job.at \in {"bills", "payments", "built", "document"} => Answered \subseteq DOMAIN job

\* A statement is read invoices first, each query seeing at least what the last one saw.
JobSound ==
  /\ job.at = "bills" =>
       /\ job.request.type = "statement" /\ job.seen \subseteq confirmed
       /\ job.rows = RowsOf(job.seen \cap Of("invoice"), Due)
  /\ job.at = "payments" =>
       /\ job.request.type = "statement"
       /\ \E S \in SUBSET confirmed :
            /\ job.seen \subseteq S
            /\ job.rows = RowsOf(job.seen \cap Of("invoice"), Due) \cup RowsOf(S \cap Of("bill"), Report!Credit)
  /\ job.at \in {"built", "document"} /\ job.found => Shows(job)
  /\ job.at = "document" => job.found

ReportInv == LedgerSound /\ JobShape /\ JobSound

LEMMA GotoEffect ==
  ASSUME NEW at, NEW more, Report!Goto(at, more), "at" \notin DOMAIN more, "at" \in DOMAIN job
  PROVE  /\ DOMAIN job' = DOMAIN more \cup DOMAIN job
         /\ job'.at = at
         /\ \A x \in DOMAIN more : job'[x] = more[x]
         /\ \A x \in DOMAIN job \ (DOMAIN more \cup {"at"}) : job'[x] = job[x]
         /\ confirmed' = confirmed /\ balances' = balances
BY DEF Report!Goto

\* Before anything is confirmed.
LEMMA ReportInit == Report!Init => ReportInv
<1> SUFFICES ASSUME Report!Init PROVE ReportInv
  OBVIOUS
<1>1. job = [at |-> "idle"] /\ confirmed = {} /\ balances = [e \in Report!Debts |-> Book[e].amount]
  BY DEF Report!Init, Report!Idle, Book
<1>2. \A e \in Report!Debts : e \in Report!Entries /\ Book[e].amount = Due[e] /\ Due[e] \in Nat
  <2>1. \A e \in Report!Entries : Due[e] = Book[e].amount
    BY DEF Due, Report!Debit, Book
  <2> QED BY <2>1, BookFacts
<1>3. balances \in [Report!Debts -> Nat] /\ \A d \in Report!Debts : balances[d] = Due[d]
  BY <1>1, <1>2
<1>4. \A q \in Pairs : confirmed \cap Of(q[1]) = {} /\ confirmed \cap Of(q[2]) = {}
  BY <1>1
<1>5. \A q \in Pairs :
        SumFunctionOnSet(balances, confirmed \cap Of(q[1])) =
          SumFunctionOnSet(Due, confirmed \cap Of(q[1])) - SumFunctionOnSet(Due, confirmed \cap Of(q[2]))
  BY <1>4, SumEmpty
<1>6. LedgerSound
  BY <1>1, <1>3, <1>5 DEF LedgerSound
<1>7. JobShape /\ JobSound
  BY <1>1 DEF JobShape, JobSound
<1> QED BY <1>6, <1>7 DEF ReportInv

LEMMA LedgerSame == LedgerSound /\ confirmed' = confirmed /\ balances' = balances => LedgerSound'
BY DEF LedgerSound

\* A step after which no report is at hand.
LEMMA Quiet ==
  ASSUME ReportInv, confirmed' = confirmed, balances' = balances, "at" \in DOMAIN job',
         job'.at \in {"idle", "tenant", "read", "log", "text", "delivered"},
         job'.at \in {"tenant", "read"} => Asked \subseteq DOMAIN job'
  PROVE  ReportInv'
<1>1. LedgerSound'
  BY LedgerSame DEF ReportInv
<1>2. JobShape' /\ JobSound'
  BY DEF JobShape, JobSound
<1> QED BY <1>1, <1>2 DEF ReportInv

\* A step that leaves the job as it is, while something may be confirmed.
LEMMA JobStays ==
  ASSUME ReportInv, LedgerSound', job' = job, confirmed \subseteq confirmed'
  PROVE  ReportInv'
<1>1. JobShape'
  BY DEF ReportInv, JobShape
<1>2. JobSound'
  <2>1. job.at = "bills" => job'.seen \subseteq confirmed'
    BY DEF ReportInv, JobSound
  <2>2. Shows(job)' <=> Shows(job)
    BY DEF Shows
  <2>3. SUBSET confirmed \subseteq SUBSET (confirmed')
    OBVIOUS
  <2> QED BY <2>1, <2>2, <2>3 DEF ReportInv, JobSound
<1> QED BY <1>1, <1>2 DEF ReportInv

\* What one query answers.
LEMMA AnswerEffect ==
  ASSUME ReportInv, NEW at \in {"built", "bills"}, NEW rows, Report!Goto(at, Report!Answer(rows)),
         Asked \subseteq DOMAIN job
  PROVE  /\ job'.at = at /\ job'.request = job.request
         /\ job'.rows = rows /\ job'.total = Report!SumOf(rows) /\ job'.seen = confirmed
         /\ JobShape'
         /\ confirmed' = confirmed /\ balances' = balances
<1> DEFINE more == Report!Answer(rows)
<1>1. /\ DOMAIN more = Answered
      /\ more.rows = rows /\ more.total = Report!SumOf(rows) /\ more.seen = confirmed
  BY DEF Report!Answer, Answered
<1>2. "at" \notin Answered /\ "request" \notin Answered /\ "at" \in Asked /\ "request" \in Asked
      /\ "rows" \in Answered /\ "total" \in Answered /\ "seen" \in Answered
  BY DEF Asked, Answered
<1> HIDE DEF more
<1>3. /\ DOMAIN job' = DOMAIN more \cup DOMAIN job
      /\ job'.at = at
      /\ \A x \in DOMAIN more : job'[x] = more[x]
      /\ \A x \in DOMAIN job \ (DOMAIN more \cup {"at"}) : job'[x] = job[x]
      /\ confirmed' = confirmed /\ balances' = balances
  <2>1. Report!Goto(at, more) /\ "at" \notin DOMAIN more /\ "at" \in DOMAIN job
    BY <1>1, <1>2 DEF more
  <2> QED BY <2>1, GotoEffect
<1>4. job'["request"] = job["request"]
  BY <1>1, <1>2, <1>3
<1>5. job'["rows"] = more["rows"] /\ job'["total"] = more["total"] /\ job'["seen"] = more["seen"]
  BY <1>1, <1>2, <1>3
<1>6. JobShape'
  BY <1>1, <1>2, <1>3 DEF JobShape
<1> QED BY <1>1, <1>3, <1>4, <1>5, <1>6

\* What is read in one query is shown as it was at that moment.
LEMMA ReadKept ==
  ASSUME ReportInv, Report!ReadOpen \/ Report!ReadSales \/ Report!ReadInvoices
  PROVE  ReportInv'
<1>0. LedgerSound /\ "at" \in DOMAIN job
  BY DEF ReportInv, JobShape
<1>1. job.at = "read" /\ Asked \subseteq DOMAIN job
  BY DEF ReportInv, JobShape, Report!ReadOpen, Report!ReadSales, Report!ReadInvoices
<1>2. ASSUME NEW q \in Pairs, job.request.type \notin {"statement"},
             job.request.type = "receivables" => q[1] = "invoice",
             job.request.type = "payables" => q[1] = "bill",
             Report!Goto("built", Report!Answer(Report!OpenRows(q[1])))
      PROVE  ReportInv'
  <2> DEFINE rows == Report!OpenRows(q[1])
  <2>1. /\ job'.at = "built" /\ job'.request = job.request
        /\ job'.total = Report!SumOf(rows) /\ job'.seen = confirmed
        /\ JobShape'
        /\ confirmed' = confirmed /\ balances' = balances
    <3> HIDE DEF rows
    <3>1. Report!Goto("built", Report!Answer(rows))
      BY <1>2 DEF rows
    <3> QED BY <3>1, <1>1, AnswerEffect
  <2>2. job'.total = Report!Left(q[1], job'.seen)
    BY <2>1, <1>0, OpenTotal
  <2>3. Shows(job)'
    BY <2>1, <2>2, <1>2 DEF Shows
  <2>4. LedgerSound'
    BY <2>1, <1>0, LedgerSame
  <2> QED BY <2>1, <2>3, <2>4 DEF ReportInv, JobSound
<1>3. CASE Report!ReadOpen
  BY <1>2, <1>3 DEF Report!ReadOpen, Pairs
<1>4. CASE Report!ReadSales
  <2> DEFINE rows == Report!Listed("sale", Report!Debit)
  <2>1. Report!Goto("built", Report!Answer(rows)) /\ job.request.type = "sales_summary"
    BY <1>4 DEF Report!ReadSales
  <2> HIDE DEF rows
  <2>2. /\ job'.at = "built" /\ job'.request = job.request /\ JobShape'
        /\ confirmed' = confirmed /\ balances' = balances
    BY <2>1, <1>1, AnswerEffect
  <2>3. Shows(job)'
    BY <2>1, <2>2 DEF Shows
  <2>4. LedgerSound'
    BY <2>2, <1>0, LedgerSame
  <2> QED BY <2>2, <2>3, <2>4 DEF ReportInv, JobSound
<1>5. CASE Report!ReadInvoices
  <2>0. job.request.type = "statement"
    BY <1>5 DEF Report!ReadInvoices
  <2>1. CASE Report!Goto("bills", Report!Answer(Report!Listed("invoice", Report!Debit)))
    <3> DEFINE rows == Report!Listed("invoice", Report!Debit)
    <3>1. rows = RowsOf(confirmed \cap Of("invoice"), Due)
      BY DEF Report!Listed, RowsOf, Of, Due
    <3>2. Report!Goto("bills", Report!Answer(rows))
      BY <2>1
    <3> HIDE DEF rows
    <3>3. /\ job'.at = "bills" /\ job'.request = job.request /\ job'.rows = rows
          /\ job'.seen = confirmed /\ JobShape'
          /\ confirmed' = confirmed /\ balances' = balances
      BY <3>2, <1>1, AnswerEffect
    <3>4. LedgerSound'
      BY <3>3, <1>0, LedgerSame
    <3>5. JobSound'
      BY <3>1, <3>3, <2>0 DEF JobSound, Of, Due
    <3> QED BY <3>3, <3>4, <3>5 DEF ReportInv
  <2>2. CASE Report!Goto("built", [Report!Answer({}) EXCEPT !.found = FALSE])
    <3> DEFINE more == [Report!Answer({}) EXCEPT !.found = FALSE]
    <3>1. DOMAIN more = Answered /\ more.found = FALSE
      BY DEF Report!Answer, Answered
    <3>2. Report!Goto("built", more)
      BY <2>2
    <3>3. "at" \notin Answered /\ "found" \in Answered
      BY DEF Answered
    <3> HIDE DEF more
    <3>4. /\ DOMAIN job' = DOMAIN more \cup DOMAIN job /\ job'.at = "built"
          /\ \A x \in DOMAIN more : job'[x] = more[x]
          /\ confirmed' = confirmed /\ balances' = balances
      <4>1. "at" \notin DOMAIN more
        BY <3>1, <3>3
      <4> QED BY <3>2, <4>1, <1>0, GotoEffect
    <3>5. job'["found"] = more["found"]
      BY <3>1, <3>3, <3>4
    <3>6. JobShape' /\ JobSound'
      BY <3>1, <3>4, <3>5, <1>0, <1>1 DEF JobShape, JobSound
    <3>7. LedgerSound'
      BY <3>4, <1>0, LedgerSame
    <3> QED BY <3>6, <3>7 DEF ReportInv
  <2> QED BY <1>5, <2>1, <2>2 DEF Report!ReadInvoices
<1> QED BY <1>3, <1>4, <1>5

\* The bills, in a query of their own.
LEMMA BillsKept ==
  ASSUME ReportInv, Report!ReadBills
  PROVE  ReportInv'
<1> DEFINE more == [rows |-> job.rows \cup Report!Listed("bill", Report!Credit)]
<1>0. LedgerSound /\ "at" \in DOMAIN job /\ Asked \subseteq DOMAIN job /\ Answered \subseteq DOMAIN job
      /\ job.at = "bills" /\ Report!Goto("payments", more)
  BY DEF ReportInv, JobShape, Report!ReadBills
<1>1. /\ job.request.type = "statement" /\ job.seen \subseteq confirmed
      /\ job.rows = RowsOf(job.seen \cap Of("invoice"), Due)
  BY <1>0 DEF ReportInv, JobSound
<1>2. /\ "at" \notin DOMAIN more /\ DOMAIN more = {"rows"}
      /\ more.rows = job.rows \cup RowsOf(confirmed \cap Of("bill"), Report!Credit)
  BY DEF Report!Listed, RowsOf, Of
<1>3. "seen" \in Answered /\ "request" \in Asked
  BY DEF Asked, Answered
<1> HIDE DEF more
<1>4. /\ DOMAIN job' = DOMAIN more \cup DOMAIN job /\ job'.at = "payments"
      /\ \A x \in DOMAIN more : job'[x] = more[x]
      /\ \A x \in DOMAIN job \ (DOMAIN more \cup {"at"}) : job'[x] = job[x]
      /\ confirmed' = confirmed /\ balances' = balances
  BY <1>0, <1>2, GotoEffect
<1>5. job'["rows"] = more["rows"] /\ job'["seen"] = job["seen"] /\ job'["request"] = job["request"]
  BY <1>0, <1>2, <1>3, <1>4
<1>6. JobShape'
  BY <1>0, <1>4 DEF JobShape
<1>7. job'.rows = RowsOf(job'.seen \cap Of("invoice"), Due) \cup RowsOf(confirmed' \cap Of("bill"), Report!Credit)
      /\ job'.seen \subseteq confirmed' /\ job'.request.type = "statement"
  BY <1>1, <1>2, <1>4, <1>5
<1>8. JobSound'
  BY <1>4, <1>7 DEF JobSound, Of, Due
<1>9. LedgerSound'
  BY <1>0, <1>4, LedgerSame
<1> QED BY <1>6, <1>8, <1>9 DEF ReportInv

\* The payments last: if nothing was confirmed meanwhile, the three queries saw the same.
LEMMA PaymentsKept ==
  ASSUME ReportInv, Report!ReadPayments
  PROVE  ReportInv'
<1> DEFINE rows == job.rows \cup Report!PaymentRows
           more == [rows |-> rows, total |-> Report!SumOf(rows), torn |-> confirmed # job.seen]
<1>0. LedgerSound /\ "at" \in DOMAIN job /\ Asked \subseteq DOMAIN job /\ Answered \subseteq DOMAIN job
      /\ job.at = "payments" /\ Report!Goto("built", more)
  BY DEF ReportInv, JobShape, Report!ReadPayments
<1>1. PICK S \in SUBSET confirmed :
        /\ job.seen \subseteq S /\ job.request.type = "statement"
        /\ job.rows = RowsOf(job.seen \cap Of("invoice"), Due) \cup RowsOf(S \cap Of("bill"), Report!Credit)
  BY <1>0 DEF ReportInv, JobSound
<1>2. DOMAIN more = {"rows", "total", "torn"} /\ more.total = Report!SumOf(rows) /\ more.torn = (confirmed # job.seen)
  OBVIOUS
<1>3. Report!PaymentRows = RowsOf(confirmed \cap Of("received"), Report!Credit) \cup RowsOf(confirmed \cap Of("paid"), Due)
  BY DEF Report!PaymentRows, Report!Listed, RowsOf, Of, Due
<1>4. confirmed = job.seen =>
        Report!SumOf(rows) = Report!Left("invoice", job.seen) - Report!Left("bill", job.seen)
  <2> SUFFICES ASSUME confirmed = job.seen
               PROVE  Report!SumOf(rows) = Report!Left("invoice", job.seen) - Report!Left("bill", job.seen)
    OBVIOUS
  <2>1. S = confirmed /\ confirmed \subseteq Report!Entries
    BY <1>0, <1>1 DEF LedgerSound
  <2>2. rows = RowsOf(confirmed \cap Of("invoice"), Due) \cup RowsOf(confirmed \cap Of("bill"), Report!Credit)
                 \cup (RowsOf(confirmed \cap Of("received"), Report!Credit) \cup RowsOf(confirmed \cap Of("paid"), Due))
    BY <2>1, <1>1, <1>3
  <2> HIDE DEF rows
  <2> QED BY <2>1, <2>2, StatementTotal
<1>5. "seen" \in Answered /\ "request" \in Asked /\ "at" \notin {"rows", "total", "torn"}
      /\ "seen" \notin {"rows", "total", "torn"} /\ "request" \notin {"rows", "total", "torn"}
  BY DEF Asked, Answered
<1> HIDE DEF rows, more
<1>6. /\ DOMAIN job' = DOMAIN more \cup DOMAIN job /\ job'.at = "built"
      /\ \A x \in DOMAIN more : job'[x] = more[x]
      /\ \A x \in DOMAIN job \ (DOMAIN more \cup {"at"}) : job'[x] = job[x]
      /\ confirmed' = confirmed /\ balances' = balances
  <2>1. "at" \notin DOMAIN more
    BY <1>2, <1>5
  <2> QED BY <1>0, <2>1, GotoEffect
<1>7. /\ job'["total"] = more["total"] /\ job'["torn"] = more["torn"]
      /\ job'["seen"] = job["seen"] /\ job'["request"] = job["request"]
  BY <1>0, <1>2, <1>5, <1>6
<1>8. Shows(job)'
  <2>1. job'.request.type = "statement" /\ (~job'.torn => confirmed = job'.seen) /\ job'.total = Report!SumOf(rows)
    BY <1>1, <1>2, <1>7
  <2>2. ~job'.torn => job'.total = Report!Left("invoice", job'.seen) - Report!Left("bill", job'.seen)
    BY <2>1, <1>4, <1>7
  <2> QED BY <2>1, <2>2 DEF Shows
<1>9. JobShape' /\ JobSound'
  BY <1>0, <1>6, <1>8 DEF JobShape, JobSound
<1>10. LedgerSound'
  BY <1>0, <1>6, LedgerSame
<1> QED BY <1>9, <1>10 DEF ReportInv

\* A PDF is made of what was read, if it reconciles.
LEMMA RenderKept ==
  ASSUME ReportInv, Report!Render
  PROVE  ReportInv'
<1>0. /\ "at" \in DOMAIN job /\ Asked \subseteq DOMAIN job /\ Answered \subseteq DOMAIN job
      /\ job.at = "built" /\ job.found /\ Report!Goto("document", <<>>) /\ LedgerSound /\ Shows(job)
  BY DEF ReportInv, JobShape, JobSound, Report!Render, Report!Reconciled, Report!Nothing
<1>1. /\ DOMAIN job' = DOMAIN job /\ job'.at = "document"
      /\ \A x \in DOMAIN job \ {"at"} : job'[x] = job[x]
      /\ confirmed' = confirmed /\ balances' = balances
  <2>1. DOMAIN <<>> = {}
    OBVIOUS
  <2>2. "at" \notin DOMAIN <<>>
    BY <2>1
  <2> QED BY <1>0, <2>1, <2>2, GotoEffect
<1>2. /\ job'["total"] = job["total"] /\ job'["torn"] = job["torn"] /\ job'["found"] = job["found"]
      /\ job'["seen"] = job["seen"] /\ job'["request"] = job["request"]
  BY <1>0, <1>1 DEF Asked, Answered
<1>3. Shows(job)' /\ job'.found
  BY <1>0, <1>2 DEF Shows
<1>4. JobShape' /\ JobSound'
  BY <1>0, <1>1, <1>3 DEF JobShape, JobSound
<1>5. LedgerSound'
  BY <1>0, <1>1, LedgerSame
<1> QED BY <1>4, <1>5 DEF ReportInv

LEMMA ReportKept == ReportInv /\ [Report!Next]_reportVars => ReportInv'
<1> SUFFICES ASSUME ReportInv, [Report!Next]_reportVars PROVE ReportInv'
  OBVIOUS
<1>0. "at" \in DOMAIN job
  BY DEF ReportInv, JobShape
<1>1. ASSUME NEW e \in Report!Entries, Report!Confirm(e) PROVE ReportInv'
  <2>1. LedgerSound' /\ job' = job /\ confirmed \subseteq confirmed'
    BY <1>1, LedgerKept, ConfirmEffect DEF ReportInv, LedgerSound
  <2> QED BY <2>1, JobStays
<1>2. ASSUME confirmed' = confirmed, balances' = balances, job' = job PROVE ReportInv'
  BY <1>2, LedgerSame, JobStays DEF ReportInv
<1>3. ASSUME NEW r \in Report!Requests, Report!Ask(r) PROVE ReportInv'
  BY <1>2, <1>3 DEF Report!Ask
<1>4. ASSUME NEW sent \in BOOLEAN, Report!Reply(sent) PROVE ReportInv'
  BY <1>2, <1>4 DEF Report!Reply
<1>5. CASE Report!Dispatch
  <2> DEFINE x == [at |-> "tenant", no |-> turn.next, request |-> turn.asked[turn.next]]
  <2>1. job' = x /\ confirmed' = confirmed /\ balances' = balances
    BY <1>5 DEF Report!Dispatch
  <2>2. x.at = "tenant" /\ DOMAIN x = Asked
    BY DEF Asked
  <2>3. "at" \in Asked
    BY DEF Asked
  <2> HIDE DEF x
  <2> QED BY <2>1, <2>2, <2>3, Quiet
<1>6. CASE Report!Connect
  <2>1. Asked \subseteq DOMAIN job /\ Report!Goto("read", <<>>)
    BY <1>6 DEF ReportInv, JobShape, Report!Connect, Report!Nothing
  <2>2. DOMAIN <<>> = {}
    OBVIOUS
  <2>3. DOMAIN job' = DOMAIN job /\ job'.at = "read" /\ confirmed' = confirmed /\ balances' = balances
    <3>1. "at" \notin DOMAIN <<>>
      BY <2>2
    <3> QED BY <1>0, <2>1, <2>2, <3>1, GotoEffect
  <2> QED BY <1>0, <2>1, <2>3, Quiet
<1>7. CASE Report!Hold \/ Report!Block \/ Report!NoPdf
  <2>1. PICK action \in {"report_held", "report_blocked"} : Report!Refuse(action)
    BY <1>7 DEF Report!Hold, Report!Block, Report!NoPdf
  <2> DEFINE x == [at |-> "log", no |-> job.no, action |-> action]
  <2>2. job' = x /\ confirmed' = confirmed /\ balances' = balances
    BY <2>1 DEF Report!Refuse
  <2>3. x.at = "log" /\ "at" \in DOMAIN x
    OBVIOUS
  <2> HIDE DEF x
  <2> QED BY <2>2, <2>3, Quiet
<1>8. ASSUME job' = Report!Idle, confirmed' = confirmed, balances' = balances PROVE ReportInv'
  <2>1. job'.at = "idle" /\ "at" \in DOMAIN job'
    BY <1>8 DEF Report!Idle
  <2> QED BY <1>8, <2>1, Quiet
<1>9. ASSUME Report!Throw PROVE ReportInv'
  BY <1>8, <1>9 DEF Report!Throw
<1>10. ASSUME NEW ok \in BOOLEAN, Report!LogRefusal(ok) PROVE ReportInv'
  <2>1. CASE Report!Throw
    BY <1>9, <2>1
  <2>2. CASE job' = [job EXCEPT !.at = "text"] /\ confirmed' = confirmed /\ balances' = balances
    <3>1. job'.at = "text" /\ "at" \in DOMAIN job'
      BY <1>0, <2>2
    <3> QED BY <2>2, <3>1, Quiet
  <2> QED BY <1>10, <2>1, <2>2 DEF Report!LogRefusal
<1>11. ASSUME NEW ok \in BOOLEAN, Report!SendText(ok) PROVE ReportInv'
  BY <1>8, <1>9, <1>11 DEF Report!SendText
<1>12. ASSUME NEW ok \in BOOLEAN, Report!SendDocument(ok) PROVE ReportInv'
  <2>1. CASE Report!Throw
    BY <1>9, <2>1
  <2>2. CASE job' = [at |-> "delivered", no |-> job.no] /\ confirmed' = confirmed /\ balances' = balances
    <3>1. job'.at = "delivered" /\ "at" \in DOMAIN job'
      BY <2>2
    <3> QED BY <2>2, <3>1, Quiet
  <2> QED BY <1>12, <2>1, <2>2 DEF Report!SendDocument
<1>13. ASSUME NEW ok \in BOOLEAN, Report!LogDelivery(ok) PROVE ReportInv'
  BY <1>8, <1>9, <1>13 DEF Report!LogDelivery
<1>14. CASE Report!Unreachable
  BY <1>9, <1>14 DEF Report!Unreachable
<1>15. CASE Report!Kill
  BY <1>8, <1>15 DEF Report!Kill
<1>16. CASE UNCHANGED reportVars
  BY <1>2, <1>16 DEF reportVars
<1>17. CASE Report!Job
  BY <1>6, <1>7, <1>10, <1>11, <1>12, <1>13, <1>14, <1>17, ReadKept, BillsKept, PaymentsKept, RenderKept
     DEF Report!Job
<1> QED BY <1>1, <1>3, <1>4, <1>5, <1>15, <1>16, <1>17 DEF Report!Next

LEMMA ReportAlways == Spec => []ReportInv
<1>1. Init => ReportInv
  BY ReportInit DEF Init
<1>2. [Next]_vars => [Report!Next]_reportVars
  BY DEF Next, vars
<1>3. ReportInv /\ [Next]_vars => ReportInv'
  BY <1>2, ReportKept
<1> QED BY <1>1, <1>3, PTL DEF Spec

\* Balances, statement and ageing report of a party agree, and a report that leaves as a
\* PDF shows one moment of the ledger.
LEMMA PartyAndReportsAgree ==
  ASSUME PartyInv, ReportInv
  PROVE  /\ Party!BooksBalance /\ Party!TwiceOnlyByOverlap /\ Party!StatementAgrees
         /\ Report!ReportTrue
<1>1. Report!ReportTrue
  BY DEF Report!ReportTrue, ReportInv, JobSound, Shows
<1> QED BY <1>1, PartyAgrees
-------------------------------------------------------------------------------
(* The figures of a bill *)

\* What the agent reads off a document, as far as the figures go.
BillFacts(b) ==
  /\ b.amount \in Nat /\ b.registered \in BOOLEAN /\ b.inclusive \in BOOLEAN
  /\ b.printed = <<>> \/ (b.printed[1] \in Nat /\ b.printed[2] \in Nat /\ b.printed = <<b.printed[1], b.printed[2]>>)

LEMMA BillShape == \A b \in Bills : BillFacts(b)
<1> SUFFICES ASSUME NEW b \in Bills PROVE BillFacts(b)
  OBVIOUS
<1>1. \/ b = Invoice
      \/ b = [Invoice EXCEPT !.printed = <<102, 11>>, !.day = 1, !.vendor = <<"ram", "title">>]
      \/ b = [Invoice EXCEPT !.no = 0, !.registered = FALSE, !.service = TRUE]
      \/ b = [Invoice EXCEPT !.table = "ap_bills", !.inclusive = FALSE, !.amount = 100, !.vendor = <<"ram", "title">>]
      \/ b = [Invoice EXCEPT !.table = "sales", !.no = 0, !.printed = <<100, 13>>]
      \/ b = [Invoice EXCEPT !.table = "ar_invoices", !.day = 2]
  BY Zenon DEF Bills
<1>2. CASE b = Invoice
  BY <1>2 DEF Invoice, BillFacts
<1>3. CASE b = [Invoice EXCEPT !.printed = <<102, 11>>, !.day = 1, !.vendor = <<"ram", "title">>]
  BY <1>3 DEF Invoice, BillFacts
<1>4. CASE b = [Invoice EXCEPT !.no = 0, !.registered = FALSE, !.service = TRUE]
  BY <1>4 DEF Invoice, BillFacts
<1>5. CASE b = [Invoice EXCEPT !.table = "ap_bills", !.inclusive = FALSE, !.amount = 100, !.vendor = <<"ram", "title">>]
  BY <1>5 DEF Invoice, BillFacts
<1>6. CASE b = [Invoice EXCEPT !.table = "sales", !.no = 0, !.printed = <<100, 13>>]
  BY <1>6 DEF Invoice, BillFacts
<1>7. CASE b = [Invoice EXCEPT !.table = "ar_invoices", !.day = 2]
  BY <1>7 DEF Invoice, BillFacts
<1> QED BY <1>1, <1>2, <1>3, <1>4, <1>5, <1>6, <1>7

LEMMA Figured ==
  ASSUME NEW b \in Bills, Entry!Resolvable(b)
  PROVE  /\ Entry!Resolve(b).excl \in Int /\ Entry!Resolve(b).vat \in Int
         /\ b.inclusive => Entry!Resolve(b).excl + Entry!Resolve(b).vat = b.amount
         /\ b.printed # <<>> => <<Entry!Resolve(b).excl, Entry!Resolve(b).vat>> = b.printed
<1>1. BillFacts(b)
  BY BillShape
<1>2. CASE b.printed = <<>>
  <2>1. Entry!Resolve(b) = Entry!Computed(b)
    BY <1>2 DEF Entry!Resolve
  <2>2. CASE ~b.registered
    BY <1>1, <1>2, <2>1, <2>2 DEF BillFacts, Entry!Computed
  <2>3. CASE b.registered /\ b.inclusive
    BY <1>1, <1>2, <2>1, <2>3 DEF BillFacts, Entry!Computed, Entry!SplitVatInclusive, Entry!DivRoundHalfUp
  <2>4. CASE b.registered /\ ~b.inclusive
    BY <1>1, <1>2, <2>1, <2>4 DEF BillFacts, Entry!Computed, Entry!MulBps, Entry!DivRoundHalfUp
  <2> QED BY <1>1, <2>2, <2>3, <2>4 DEF BillFacts
<1>3. CASE b.printed # <<>>
  <2>1. Entry!Resolve(b) = [excl |-> b.printed[1], vat |-> b.printed[2]]
    BY <1>3 DEF Entry!Resolve
  <2>2. /\ b.printed[1] \in Nat /\ b.printed[2] \in Nat
        /\ b.printed = <<b.printed[1], b.printed[2]>>
        /\ b.inclusive => b.printed[1] + b.printed[2] = b.amount
    BY <1>1, <1>3 DEF BillFacts, Entry!Resolvable, Entry!PrintedFits
  <2> QED BY <2>1, <2>2
<1> QED BY <1>2, <1>3

\* What is withheld is never more than the taxable value.
LEMMA TdsBelow ==
  ASSUME NEW b, NEW excl \in Int, excl > 0
  PROVE  Entry!Tds(b, excl) <= excl
BY DEF Entry!Tds, Entry!MulBps, Entry!DivRoundHalfUp

\* Rounding takes the VAT at most half a rupee from the rate, the tolerance one more.
LEMMA CloseEnough ==
  ASSUME NEW f, f.excl \in Int, f.vat \in Int, Entry!VatMath(f)
  PROVE  2 * Entry!Distance(10000 * f.vat, 1300 * f.excl) <= 30000
<1> DEFINE r == (2 * (f.excl * 1300) + 10000) \div 20000
<1>1. r \in Int /\ 20000 * r <= 2600 * f.excl + 10000 /\ 2600 * f.excl + 10000 < 20000 * r + 20000
  OBVIOUS
<1>2. Entry!Distance(f.vat, r) <= 1
  BY DEF Entry!VatMath, Entry!MulBps, Entry!DivRoundHalfUp
<1> HIDE DEF r
<1> QED BY <1>1, <1>2 DEF Entry!Distance
-------------------------------------------------------------------------------
(* The invariant *)

EntryCall == {c \in Calls : entering[c] # Entry!Idle}

\* The figures are those of the bill, and odd VAT is among the warnings.
Shown(bill, f, warned) ==
  /\ bill \in Bills /\ Entry!Resolvable(bill)
  /\ f.excl = Entry!Resolve(bill).excl /\ f.vat = Entry!Resolve(bill).vat
  /\ f.excl > 0
  /\ Entry!VatMath(f) \/ "vat.math" \in warned

\* f and an entry are figures of one cash bill, as far as the search for duplicates tells.
Alike(bill, f, e) ==
  /\ e.bill.table = bill.table /\ bill.table \in Entry!Cash
  /\ \/ Entry!SameInvoice(bill, e.bill)
     \/ Entry!Total(e) = Entry!Total(f) /\ e.bill.day = bill.day

\* What a call saw has since only been added to, so what it found is still there.
EntryCalls ==
  /\ DOMAIN entering = Calls
  /\ \A c \in EntryCall :
       /\ Shown(entering[c].bill, entering[c].figures, entering[c].warned)
       /\ entering[c].credit \in BOOLEAN
       /\ entering[c].saw \subseteq DOMAIN entries /\ entering[c].names \subseteq DOMAIN parties
       /\ \A i \in entering[c].saw :
            (entries[i].live /\ i # entering[c].replaces
             /\ Alike(entering[c].bill, entering[c].figures, entries[i])) =>
              "duplicate" \in entering[c].warned
       /\ entering[c].party = Entry!NoParty
          \/ entering[c].party \in entering[c].names
          \/ \A m \in entering[c].names : Entry!Key(m) # Entry!Key(entering[c].party)

RowFields ==
  {"bill", "excl", "vat", "inputVat", "tds", "backdated", "party", "live", "warned", "saw"}

\* Entries are saved as shown, and warned of unless their twin was not there to see.
EntriesSound ==
  /\ entries \in Seq({entries[i] : i \in DOMAIN entries})
  /\ \A i \in DOMAIN entries :
       /\ DOMAIN entries[i] = RowFields
       /\ Shown(entries[i].bill, entries[i], entries[i].warned)
       /\ entries[i].inputVat \in {0, entries[i].vat}
       /\ entries[i].tds = Entry!Tds(entries[i].bill, entries[i].excl)
  /\ Entry!TwinWarned

\* A row of parties saw only rows.
PartiesSound ==
  /\ \A n \in DOMAIN parties : parties[n].saw \subseteq DOMAIN parties
  /\ Entry!OneRowPerParty

EntryInv == EntryCalls /\ EntriesSound /\ PartiesSound
-------------------------------------------------------------------------------
LEMMA EntryInit == Entry!Init => EntryInv
<1> SUFFICES ASSUME Entry!Init PROVE EntryInv
  OBVIOUS
<1>1. entries = <<>> /\ parties = <<>> /\ DOMAIN entries = {} /\ DOMAIN parties = {}
  BY DEF Entry!Init
<1>2. entering = [c \in Calls |-> Entry!Idle]
  BY DEF Entry!Init
<1>3. EntryCalls
  BY <1>2 DEF EntryCalls, EntryCall
<1>4. EntriesSound
  BY <1>1 DEF EntriesSound, Entry!TwinWarned
<1>5. PartiesSound
  BY <1>1 DEF PartiesSound, Entry!OneRowPerParty
<1> QED BY <1>3, <1>4, <1>5 DEF EntryInv

\* A call that begins has seen all there is, and warns of what is like its bill.
LEMMA LookKept ==
  ASSUME EntryInv, NEW c \in Calls, NEW b \in Bills, NEW replaced, Entry!Look(c, b, replaced)
  PROVE  EntryInv'
<1> DEFINE f == Entry!Resolve(b)
           known == Entry!KnownAs(b.vendor)
<1>1. /\ entering[c] = Entry!Idle /\ Entry!Resolvable(b) /\ Entry!AmountsSane(f)
      /\ entries' = entries /\ parties' = parties /\ day' = day
  BY DEF Entry!Look
<1>2. PICK party \in IF b.table \in Entry!Cash THEN {Entry!NoParty} ELSE IF known = {} THEN {b.vendor} ELSE known :
        entering' = [entering EXCEPT ![c] =
          [at |-> "write", bill |-> b, replaces |-> replaced, figures |-> f, party |-> party,
           backdated |-> b.table \in Entry!Cash /\ Entry!Month(b.day) < Entry!Month(day),
           credit |-> b.table \in Entry!Purchases /\ Entry!InputCredit(b),
           warned |-> Entry!Warnings(b, f, replaced), saw |-> DOMAIN entries, names |-> DOMAIN parties]]
  BY DEF Entry!Look
<1> DEFINE t == [at |-> "write", bill |-> b, replaces |-> replaced, figures |-> f, party |-> party,
           backdated |-> b.table \in Entry!Cash /\ Entry!Month(b.day) < Entry!Month(day),
           credit |-> b.table \in Entry!Purchases /\ Entry!InputCredit(b),
           warned |-> Entry!Warnings(b, f, replaced), saw |-> DOMAIN entries, names |-> DOMAIN parties]
<1>3. /\ t.bill = b /\ t.replaces = replaced /\ t.figures = f /\ t.party = party
      /\ t.credit \in BOOLEAN /\ t.warned = Entry!Warnings(b, f, replaced)
      /\ t.saw = DOMAIN entries /\ t.names = DOMAIN parties
  BY DEF Entry!Purchases
<1>4. entering' = [entering EXCEPT ![c] = t]
  BY <1>2
<1> HIDE DEF t
<1>5. Shown(t.bill, t.figures, t.warned)
  <2>1. Entry!VatMath(f) \/ "vat.math" \in t.warned
    BY <1>3 DEF Entry!Warnings, Entry!Check
  <2>2. f.excl > 0
    BY <1>1 DEF Entry!AmountsSane
  <2> QED BY <1>1, <1>3, <2>1, <2>2 DEF Shown
<1>6. ASSUME NEW i \in DOMAIN entries, entries[i].live, i # replaced, Alike(b, f, entries[i])
      PROVE  "duplicate" \in t.warned
  <2>1. b.table \in Entry!Cash /\ i \in Entry!Candidates(b, replaced)
    BY <1>6 DEF Entry!Candidates, Alike
  <2>2. Entry!Duplicate(b, f, Entry!Candidates(b, replaced))
    BY <1>6, <2>1 DEF Entry!Duplicate, Alike
  <2> QED BY <1>3, <2>1, <2>2 DEF Entry!Warnings, Entry!Check
<1>7. party = Entry!NoParty \/ party \in DOMAIN parties
      \/ \A m \in DOMAIN parties : Entry!Key(m) # Entry!Key(party)
  BY <1>2 DEF Entry!KnownAs
<1>8. EntryCalls'
  <2>1. DOMAIN entering' = Calls
    BY <1>4 DEF EntryInv, EntryCalls
  <2>2. ASSUME NEW d \in EntryCall' PROVE (d = c /\ entering'[d] = t) \/ (d \in EntryCall /\ entering'[d] = entering[d])
    BY <1>4 DEF EntryInv, EntryCalls, EntryCall
  <2>3. ASSUME NEW d \in EntryCall', entering'[d] = t
        PROVE  /\ Shown(entering'[d].bill, entering'[d].figures, entering'[d].warned)
               /\ entering'[d].credit \in BOOLEAN
               /\ entering'[d].saw \subseteq DOMAIN entries' /\ entering'[d].names \subseteq DOMAIN parties'
               /\ \A i \in entering'[d].saw :
                    (entries'[i].live /\ i # entering'[d].replaces
                     /\ Alike(entering'[d].bill, entering'[d].figures, entries'[i])) =>
                      "duplicate" \in entering'[d].warned
               /\ entering'[d].party = Entry!NoParty
                  \/ entering'[d].party \in entering'[d].names
                  \/ \A m \in entering'[d].names : Entry!Key(m) # Entry!Key(entering'[d].party)
    BY <1>1, <1>3, <1>5, <1>6, <1>7, <2>3
  <2> QED BY <1>1, <2>1, <2>2, <2>3 DEF EntryInv, EntryCalls
<1> QED BY <1>1, <1>8 DEF EntryInv, EntriesSound, PartiesSound, Entry!TwinWarned, Entry!Twins, Entry!OneRowPerParty

\* What a save writes, in the terms of its call.
LEMMA SavedRow ==
  ASSUME EntryInv, NEW c \in Calls, Entry!Save(c)
  PROVE  /\ c \in EntryCall /\ entering' = [entering EXCEPT ![c] = Entry!Idle] /\ day' = day
         /\ Len(entries) \in Nat /\ DOMAIN entries = 1..Len(entries) /\ DOMAIN entries' = 1..(Len(entries) + 1)
         /\ \A i \in DOMAIN entries :
              /\ entries'[i] = IF i = entering[c].replaces THEN [entries[i] EXCEPT !.live = FALSE] ELSE entries[i]
         /\ LET t == entering[c] IN
            entries'[Len(entries) + 1] =
              [bill |-> t.bill, excl |-> t.figures.excl, vat |-> t.figures.vat,
               inputVat |-> IF t.credit THEN t.figures.vat ELSE 0,
               tds |-> Entry!Tds(t.bill, t.figures.excl), backdated |-> t.backdated, party |-> t.party,
               live |-> TRUE, warned |-> t.warned, saw |-> t.saw]
<1> DEFINE t == entering[c]
           kept == [i \in DOMAIN entries |->
                      IF i = t.replaces THEN [entries[i] EXCEPT !.live = FALSE] ELSE entries[i]]
           row == [bill |-> t.bill, excl |-> t.figures.excl, vat |-> t.figures.vat,
                   inputVat |-> IF t.credit THEN t.figures.vat ELSE 0,
                   tds |-> Entry!Tds(t.bill, t.figures.excl), backdated |-> t.backdated, party |-> t.party,
                   live |-> TRUE, warned |-> t.warned, saw |-> t.saw]
<1>1. /\ c \in EntryCall /\ entering' = [entering EXCEPT ![c] = Entry!Idle] /\ day' = day
      /\ entries' = Append(kept, row)
  BY DEF Entry!Save, EntryCall
<1>2. Len(entries) \in Nat /\ DOMAIN entries = 1..Len(entries)
  BY DEF EntryInv, EntriesSound
<1>3. kept \in Seq({kept[i] : i \in DOMAIN entries}) /\ Len(kept) = Len(entries)
  <2>1. kept = [i \in 1..Len(entries) |-> kept[i]] /\ DOMAIN kept = 1..Len(entries)
    BY <1>2
  <2> HIDE DEF kept
  <2> QED BY <1>2, <2>1
<1>4. DOMAIN entries' = 1..(Len(entries) + 1) /\ entries'[Len(entries) + 1] = row
      /\ \A i \in DOMAIN entries : entries'[i] = kept[i]
  <2> HIDE DEF kept, row
  <2> QED BY <1>1, <1>2, <1>3
<1> QED BY <1>1, <1>2, <1>4

\* The party that comes with an entry was not there, under no other name either.
LEMMA PartyEffect ==
  ASSUME EntryInv, NEW c \in Calls, Entry!Save(c)
  PROVE  \/ parties' = parties
         \/ \E p : /\ p \notin DOMAIN parties
                   /\ \A m \in entering[c].names : Entry!Key(m) # Entry!Key(p)
                   /\ parties' = [n \in DOMAIN parties \cup {p} |->
                        IF n = p THEN [by |-> "entry", saw |-> entering[c].names] ELSE parties[n]]
<1>1. c \in EntryCall
  BY SavedRow
<1>2. entering[c].party = Entry!NoParty \/ entering[c].party \in entering[c].names
      \/ \A m \in entering[c].names : Entry!Key(m) # Entry!Key(entering[c].party)
  BY <1>1 DEF EntryInv, EntryCalls
<1> QED BY <1>2 DEF Entry!Save

\* Rows are added and calls end: what is left of EntryCalls.
LEMMA CallsStay ==
  ASSUME EntryCalls, NEW c \in Calls, entering' = [entering EXCEPT ![c] = Entry!Idle] \/ entering' = entering,
         DOMAIN entries \subseteq DOMAIN entries', DOMAIN parties \subseteq DOMAIN parties',
         \A i \in DOMAIN entries : /\ entries'[i].live => entries[i].live
                                   /\ entries'[i].bill = entries[i].bill
                                   /\ entries'[i].excl = entries[i].excl /\ entries'[i].vat = entries[i].vat
  PROVE  EntryCalls'
<1>1. DOMAIN entering' = Calls
  BY DEF EntryCalls
<1>2. \A d \in EntryCall' : d \in EntryCall /\ entering'[d] = entering[d]
  BY DEF EntryCalls, EntryCall
<1>3. \A i \in DOMAIN entries : \A b, f : Alike(b, f, entries'[i]) => Alike(b, f, entries[i])
  BY DEF Alike, Entry!Total
<1>4. ASSUME NEW d \in EntryCall', NEW i \in entering'[d].saw, entries'[i].live, i # entering'[d].replaces,
             Alike(entering'[d].bill, entering'[d].figures, entries'[i])
      PROVE  "duplicate" \in entering'[d].warned
  BY <1>2, <1>3, <1>4 DEF EntryCalls
<1> QED BY <1>1, <1>2, <1>4 DEF EntryCalls

\* A saved entry is as its call knew the bill, and a twin its call saw was warned of.
LEMMA SaveKept ==
  ASSUME EntryInv, NEW c \in Calls, Entry!Save(c)
  PROVE  EntryInv'
<1> DEFINE t == entering[c]
           n == Len(entries) + 1
<1>1. /\ c \in EntryCall /\ entering' = [entering EXCEPT ![c] = Entry!Idle]
      /\ Len(entries) \in Nat /\ DOMAIN entries = 1..Len(entries) /\ DOMAIN entries' = 1..n
  BY SavedRow
<1>2. \A i \in DOMAIN entries :
        entries'[i] = IF i = t.replaces THEN [entries[i] EXCEPT !.live = FALSE] ELSE entries[i]
  BY SavedRow
<1>3. /\ entries'[n].bill = t.bill /\ entries'[n].excl = t.figures.excl /\ entries'[n].vat = t.figures.vat
      /\ entries'[n].inputVat = IF t.credit THEN t.figures.vat ELSE 0
      /\ entries'[n].tds = Entry!Tds(t.bill, t.figures.excl)
      /\ entries'[n].warned = t.warned /\ entries'[n].saw = t.saw
      /\ DOMAIN entries'[n] = RowFields
  <2> DEFINE row == [bill |-> t.bill, excl |-> t.figures.excl, vat |-> t.figures.vat,
                   inputVat |-> IF t.credit THEN t.figures.vat ELSE 0,
                   tds |-> Entry!Tds(t.bill, t.figures.excl), backdated |-> t.backdated, party |-> t.party,
                   live |-> TRUE, warned |-> t.warned, saw |-> t.saw]
  <2>1. entries'[n] = row
    BY SavedRow
  <2>2. /\ row.bill = t.bill /\ row.excl = t.figures.excl /\ row.vat = t.figures.vat
        /\ row.inputVat = IF t.credit THEN t.figures.vat ELSE 0
        /\ row.tds = Entry!Tds(t.bill, t.figures.excl)
        /\ row.warned = t.warned /\ row.saw = t.saw
        /\ DOMAIN row = RowFields
    BY DEF RowFields
  <2> HIDE DEF row
  <2> QED BY <2>1, <2>2
<1>4. \A i \in DOMAIN entries :
        /\ entries'[i].bill = entries[i].bill /\ entries'[i].excl = entries[i].excl
        /\ entries'[i].vat = entries[i].vat /\ entries'[i].inputVat = entries[i].inputVat
        /\ entries'[i].tds = entries[i].tds /\ entries'[i].warned = entries[i].warned
        /\ entries'[i].saw = entries[i].saw
        /\ DOMAIN entries'[i] = DOMAIN entries[i]
        /\ entries'[i].live => entries[i].live /\ i # t.replaces
  <2> SUFFICES ASSUME NEW i \in DOMAIN entries
               PROVE  /\ entries'[i].bill = entries[i].bill /\ entries'[i].excl = entries[i].excl
                      /\ entries'[i].vat = entries[i].vat /\ entries'[i].inputVat = entries[i].inputVat
                      /\ entries'[i].tds = entries[i].tds /\ entries'[i].warned = entries[i].warned
                      /\ entries'[i].saw = entries[i].saw
                      /\ DOMAIN entries'[i] = DOMAIN entries[i]
                      /\ entries'[i].live => entries[i].live /\ i # t.replaces
    OBVIOUS
  <2>1. DOMAIN entries[i] = RowFields
    BY DEF EntryInv, EntriesSound
  <2>2. CASE i = t.replaces
    BY <1>2, <2>1, <2>2 DEF RowFields
  <2>3. CASE i # t.replaces
    BY <1>2, <2>3
  <2> QED BY <2>2, <2>3
<1>5. DOMAIN parties \subseteq DOMAIN parties'
  BY PartyEffect
<1>6. EntryCalls'
  <2>1. DOMAIN entries \subseteq DOMAIN entries'
    BY <1>1
  <2> HIDE DEF n
  <2> QED BY <1>1, <1>4, <1>5, <2>1, CallsStay DEF EntryInv
<1>7. /\ Shown(t.bill, t.figures, t.warned) /\ t.credit \in BOOLEAN
      /\ \A i \in t.saw : (entries[i].live /\ i # t.replaces /\ Alike(t.bill, t.figures, entries[i])) =>
           "duplicate" \in t.warned
  BY <1>1 DEF EntryInv, EntryCalls
<1>8. EntriesSound'
  <2>1. entries' \in Seq({entries'[i] : i \in DOMAIN entries'})
    <3>1. entries' = [i \in 1..n |-> entries'[i]] /\ n \in Nat
      BY <1>1 DEF Entry!Save
    <3> QED BY <3>1
  <2>2. ASSUME NEW i \in DOMAIN entries'
        PROVE  /\ DOMAIN entries'[i] = RowFields
               /\ Shown(entries'[i].bill, entries'[i], entries'[i].warned)
               /\ entries'[i].inputVat \in {0, entries'[i].vat}
               /\ entries'[i].tds = Entry!Tds(entries'[i].bill, entries'[i].excl)
    <3>1. CASE i = n
      BY <1>3, <1>7, <3>1 DEF Shown, Entry!VatMath
    <3>2. CASE i \in DOMAIN entries
      BY <1>4, <3>2 DEF EntryInv, EntriesSound, Shown, Entry!VatMath
    <3> QED BY <1>1, <3>1, <3>2
  <2>3. ASSUME NEW i \in DOMAIN entries', NEW j \in DOMAIN entries', i < j, Entry!Twins(i, j)', i \in entries'[j].saw
        PROVE  "duplicate" \in entries'[j].warned
    <3>0. i \in DOMAIN entries
      BY <1>1, <2>3
    <3>1. CASE j = n
      <4>1. entries'[i].live /\ Alike(t.bill, t.figures, entries'[i])
        BY <1>3, <2>3, <3>1 DEF Entry!Twins, Alike, Entry!Total
      <4>2. entries[i].live /\ i # t.replaces /\ Alike(t.bill, t.figures, entries[i])
        BY <1>4, <3>0, <4>1 DEF Alike, Entry!Total
      <4> QED BY <1>3, <1>7, <2>3, <3>1, <4>2
    <3>2. CASE j \in DOMAIN entries
      <4>1. Entry!Twins(i, j)
        BY <1>4, <2>3, <3>0, <3>2 DEF Entry!Twins, Entry!Total
      <4> QED BY <1>4, <2>3, <3>0, <3>2, <4>1 DEF EntryInv, EntriesSound, Entry!TwinWarned
    <3> QED BY <1>1, <3>1, <3>2
  <2> HIDE DEF n
  <2> QED BY <2>1, <2>2, <2>3 DEF EntriesSound, Entry!TwinWarned
<1>9. PartiesSound'
  <2>1. CASE parties' = parties
    BY <2>1 DEF EntryInv, PartiesSound, Entry!OneRowPerParty
  <2>2. ASSUME NEW p, p \notin DOMAIN parties, \A m \in t.names : Entry!Key(m) # Entry!Key(p),
               parties' = [m \in DOMAIN parties \cup {p} |->
                 IF m = p THEN [by |-> "entry", saw |-> t.names] ELSE parties[m]]
        PROVE  PartiesSound'
    <3>1. /\ DOMAIN parties' = DOMAIN parties \cup {p} /\ parties'[p].saw = t.names
          /\ \A m \in DOMAIN parties : parties'[m] = parties[m]
      BY <2>2
    <3>2. t.names \subseteq DOMAIN parties
      BY <1>1 DEF EntryInv, EntryCalls
    <3>3. \A m \in DOMAIN parties : p \notin parties[m].saw
      BY <2>2 DEF EntryInv, PartiesSound
    <3>4. \A m \in DOMAIN parties' : parties'[m].saw \subseteq DOMAIN parties'
      BY <3>1, <3>2 DEF EntryInv, PartiesSound
    <3>5. Entry!OneRowPerParty'
      BY <2>2, <3>1, <3>3 DEF EntryInv, PartiesSound, Entry!OneRowPerParty
    <3> QED BY <3>4, <3>5 DEF PartiesSound
  <2> QED BY <2>1, <2>2, PartyEffect
<1> QED BY <1>6, <1>8, <1>9 DEF EntryInv

LEMMA EntryKept == EntryInv /\ [Entry!Next]_entryVars => EntryInv'
<1> SUFFICES ASSUME EntryInv, [Entry!Next]_entryVars PROVE EntryInv'
  OBVIOUS
<1>1. ASSUME entries' = entries, parties' = parties, NEW c \in Calls,
             entering' = [entering EXCEPT ![c] = Entry!Idle] \/ entering' = entering
      PROVE  EntryInv'
  <2>1. EntryCalls'
    BY <1>1, CallsStay DEF EntryInv
  <2> QED BY <1>1, <2>1 DEF EntryInv, EntriesSound, PartiesSound, Entry!TwinWarned, Entry!Twins, Entry!OneRowPerParty
<1>2. ASSUME entries' = entries, parties' = parties, entering' = entering PROVE EntryInv'
  BY <1>2 DEF EntryInv, EntryCalls, EntryCall, EntriesSound, PartiesSound, Entry!TwinWarned, Entry!Twins,
              Entry!OneRowPerParty
<1>3. CASE Entry!NextDay
  BY <1>2, <1>3 DEF Entry!NextDay
<1>4. CASE UNCHANGED entryVars
  BY <1>2, <1>4 DEF entryVars
<1>5. ASSUME NEW c \in Calls, Entry!NameTaken(c) PROVE EntryInv'
  BY <1>1, <1>5 DEF Entry!NameTaken
<1>6. ASSUME NEW n, Entry!UpsertParty(n) PROVE EntryInv'
  <2>1. /\ entries' = entries /\ entering' = entering
        /\ DOMAIN parties' = DOMAIN parties \cup {n}
        /\ \A m \in DOMAIN parties : parties'[m] = parties[m]
        /\ n \notin DOMAIN parties => parties'[n].by = "upsert" /\ parties'[n].saw = {}
    BY <1>6 DEF Entry!UpsertParty
  <2>2. EntryCalls'
    <3>1. DOMAIN parties \subseteq DOMAIN parties'
      BY <2>1
    <3> QED BY <2>1, <3>1 DEF EntryInv, EntryCalls, EntryCall
  <2>3. EntriesSound'
    BY <2>1 DEF EntryInv, EntriesSound, Entry!TwinWarned, Entry!Twins
  <2>4. \A m \in DOMAIN parties' : parties'[m].saw \subseteq DOMAIN parties'
    BY <2>1 DEF EntryInv, PartiesSound
  <2>5. Entry!OneRowPerParty'
    BY <2>1 DEF EntryInv, PartiesSound, Entry!OneRowPerParty
  <2> QED BY <2>2, <2>3, <2>4, <2>5 DEF EntryInv, PartiesSound
<1>7. CASE Entry!Next
  BY <1>3, <1>5, <1>6, <1>7, LookKept, SaveKept DEF Entry!Next
<1> QED BY <1>4, <1>7

LEMMA EntryAlways == Spec => []EntryInv
<1>1. Init => EntryInv
  BY EntryInit DEF Init
<1>2. [Next]_vars => [Entry!Next]_entryVars
  BY DEF Next, vars
<1>3. EntryInv /\ [Next]_vars => EntryInv'
  BY <1>2, EntryKept
<1> QED BY <1>1, <1>3, PTL DEF Spec

\* The taxable value and the VAT stored of a bill add up to it and are the printed ones
\* where it prints them (record_sale, record_expense); VAT off the rate is saved with a
\* warning, and so is an entry like one its call could see; a party gets a second row only
\* from upsert_party or from calls under way together.
THEOREM EntriesAreAsShown == Spec => []EntriesAsShown
<1>1. EntryInv => EntriesAsShown
  <2> SUFFICES ASSUME EntryInv PROVE EntriesAsShown
    OBVIOUS
  <2>1. ASSUME NEW i \in DOMAIN entries
        PROVE  /\ entries[i].bill.inclusive => Entry!Total(entries[i]) = entries[i].bill.amount
               /\ entries[i].bill.printed # <<>> => <<entries[i].excl, entries[i].vat>> = entries[i].bill.printed
               /\ entries[i].inputVat \in {0, entries[i].vat} /\ entries[i].tds <= entries[i].excl
               /\ 2 * Entry!Distance(10000 * entries[i].vat, 1300 * entries[i].excl) > 30000 =>
                    "vat.math" \in entries[i].warned
    <3> DEFINE e == entries[i]
    <3>1. /\ Shown(e.bill, e, e.warned) /\ e.inputVat \in {0, e.vat}
          /\ e.tds = Entry!Tds(e.bill, e.excl)
      BY DEF EntryInv, EntriesSound
    <3> HIDE DEF e
    <3>2. e.bill \in Bills /\ Entry!Resolvable(e.bill) /\ e.excl > 0
          /\ e.excl = Entry!Resolve(e.bill).excl /\ e.vat = Entry!Resolve(e.bill).vat
          /\ (Entry!VatMath(e) \/ "vat.math" \in e.warned)
      BY <3>1 DEF Shown
    <3>3. e.excl \in Int /\ e.vat \in Int
      <4>1. /\ Entry!Resolve(e.bill).excl \in Int /\ Entry!Resolve(e.bill).vat \in Int
        BY <3>2, Figured
      <4> QED BY <3>2, <4>1
    <3>4. e.tds <= e.excl
      BY <3>1, <3>2, <3>3, TdsBelow
    <3>5. 2 * Entry!Distance(10000 * e.vat, 1300 * e.excl) > 30000 => "vat.math" \in e.warned
      <4>1. Entry!VatMath(e) => 2 * Entry!Distance(10000 * e.vat, 1300 * e.excl) <= 30000
        BY <3>3, CloseEnough
      <4>2. Entry!Distance(10000 * e.vat, 1300 * e.excl) \in Int
        BY <3>3 DEF Entry!Distance
      <4> QED BY <3>2, <4>1, <4>2
    <3>6. (e.bill.inclusive => Entry!Total(e) = e.bill.amount) /\ (e.bill.printed # <<>> => <<e.excl, e.vat>> = e.bill.printed)
      BY <3>2, Figured DEF Entry!Total
    <3> QED BY <3>1, <3>4, <3>5, <3>6 DEF e
  <2>2. Entry!FiguresReconcile
    BY <2>1 DEF Entry!FiguresReconcile
  <2>3. Entry!OddVatWarned
    BY <2>1 DEF Entry!OddVatWarned
  <2> QED BY <2>2, <2>3 DEF EntriesAsShown, EntryInv, EntriesSound, PartiesSound
<1> QED BY <1>1, EntryAlways, PTL
-------------------------------------------------------------------------------
(* The audit log *)

Rows == [id: Nat, says: Tax!Said, prev: Seq(Tax!Said), hash: Seq(Tax!Said)]

\* Rows of a log: each id once.
Log(rows) == rows \subseteq Rows /\ \A r, q \in rows : r.id = q.id => r = q

\* The hashes grow: a row's says all that the rows before it say.
Grows(rows) == \A r, q \in rows : r.id < q.id => Len(r.hash) <= Len(q.prev)

LEMMA LargestId ==
  ASSUME NEW rows, rows \subseteq Rows, rows # {}, NEW n \in Nat, \A q \in rows : q.id <= n
  PROVE  \E m \in rows : \A q \in rows : q.id <= m.id
<1> DEFINE N == {n - q.id : q \in rows}
<1>1. \A q \in rows : q.id \in Nat
  BY DEF Rows
<1>2. N \subseteq Nat /\ N # {}
  BY <1>1
<1>3. PICK k \in N : \A m \in N : k <= m
  <2> HIDE DEF N
  <2> QED BY <1>2, LeastNumber
<1>4. PICK m \in rows : k = n - m.id
  BY DEF N
<1>5. ASSUME NEW q \in rows PROVE q.id <= m.id
  <2>1. n - m.id <= n - q.id
    BY <1>3, <1>4
  <2> QED BY <2>1, <1>1
<1> QED BY <1>5

LEMMA SmallestId ==
  ASSUME NEW rows, rows \subseteq Rows, rows # {}
  PROVE  \E m \in rows : \A q \in rows : m.id <= q.id
<1> DEFINE N == {q.id : q \in rows}
<1>1. N \subseteq Nat /\ N # {}
  BY DEF Rows
<1>2. PICK k \in N : \A m \in N : k <= m
  <2> HIDE DEF N
  <2> QED BY <1>1, LeastNumber
<1> QED BY <1>2

LEMMA LastIs ==
  ASSUME NEW rows, Log(rows), NEW m \in rows, \A q \in rows : q.id <= m.id
  PROVE  Tax!LastHash(rows) = m.hash
<1> DEFINE Last(r) == \A q \in rows : q.id <= r.id
<1>1. PICK r \in rows : r = (CHOOSE x \in rows : Last(x)) /\ Last(r)
  OBVIOUS
<1>2. r.id \in Nat /\ m.id \in Nat /\ r.id <= m.id /\ m.id <= r.id
  BY <1>1 DEF Log, Rows
<1>3. r = m
  BY <1>2 DEF Log
<1> QED BY <1>1, <1>3 DEF Tax!LastHash

\* The hash of the row before r is in the log, and shorter than r's own.
LEMMA LastTyped ==
  ASSUME NEW rows, Log(rows), NEW n \in Nat, \A q \in rows : q.id <= n
  PROVE  /\ Tax!LastHash(rows) \in Seq(Tax!Said)
         /\ rows = {} => Tax!LastHash(rows) = <<>>
         /\ rows # {} => \E m \in rows : (\A q \in rows : q.id <= m.id) /\ Tax!LastHash(rows) = m.hash
<1>1. CASE rows = {}
  BY <1>1 DEF Tax!LastHash, Tax!Genesis
<1>2. CASE rows # {}
  <2>1. PICK m \in rows : \A q \in rows : q.id <= m.id
    BY <1>2, LargestId DEF Log
  <2>2. Tax!LastHash(rows) = m.hash
    BY <2>1, LastIs
  <2> QED BY <1>2, <2>1, <2>2 DEF Log, Rows
<1> QED BY <1>1, <1>2

LEMMA Appended ==
  ASSUME NEW s \in Seq(Tax!Said), NEW x \in Tax!Said
  PROVE  /\ Tax!HashRow(s, x) \in Seq(Tax!Said) /\ Len(Tax!HashRow(s, x)) = Len(s) + 1
         /\ \A y \in Tax!Said : Tax!HashRow(s, x) = Tax!HashRow(s, y) => x = y
<1>1. ASSUME NEW y \in Tax!Said, Append(s, x) = Append(s, y) PROVE x = y
  <2>1. Append(s, x)[Len(s) + 1] = x /\ Append(s, y)[Len(s) + 1] = y
    OBVIOUS
  <2> QED BY <1>1, <2>1
<1> QED BY <1>1 DEF Tax!HashRow

\* A row at the end of a chain, with the hash of the last one.
LEMMA ChainGrows ==
  ASSUME NEW rows, Log(rows), Tax!Verified(rows), Grows(rows), NEW n \in Nat, \A q \in rows : q.id < n,
         NEW r \in Rows, r.id = n, r.prev = Tax!LastHash(rows), r.hash = Tax!HashRow(r.prev, r.says)
  PROVE  Log(rows \cup {r}) /\ Tax!Verified(rows \cup {r}) /\ Grows(rows \cup {r})
<1>1. \A q \in rows : q.id \in Nat /\ q.id < r.id /\ Len(q.hash) \in Nat /\ Len(q.prev) \in Nat
  BY DEF Log, Rows
<1>2. Tax!Before(rows \cup {r}, r) = rows
  BY <1>1 DEF Tax!Before
<1>3. \A q \in rows : Tax!Before(rows \cup {r}, q) = Tax!Before(rows, q)
  BY <1>1 DEF Tax!Before
<1>4. Log(rows \cup {r})
  BY <1>1 DEF Log
<1>5. Tax!Verified(rows \cup {r})
  BY <1>2, <1>3 DEF Tax!Verified
<1>6. ASSUME NEW q \in rows PROVE Len(q.hash) <= Len(r.prev)
  <2>1. PICK m \in rows : (\A x \in rows : x.id <= m.id) /\ Tax!LastHash(rows) = m.hash
    BY <1>1, LastTyped
  <2>2. CASE q = m
    BY <1>1, <2>1, <2>2
  <2>3. CASE q # m
    <3>1. q.id < m.id
      BY <1>1, <2>1, <2>3 DEF Log
    <3>2. Len(q.hash) <= Len(m.prev)
      BY <3>1 DEF Grows
    <3>3. m.hash = Tax!HashRow(m.prev, m.says)
      BY DEF Tax!Verified
    <3>4. Len(m.hash) = Len(m.prev) + 1
      <4>1. m.prev \in Seq(Tax!Said) /\ m.says \in Tax!Said
        BY DEF Log, Rows
      <4> QED BY <3>3, <4>1, Appended
    <3> QED BY <1>1, <2>1, <3>2, <3>4
  <2> QED BY <2>2, <2>3
<1>7. Grows(rows \cup {r})
  BY <1>1, <1>6 DEF Grows
<1> QED BY <1>4, <1>5, <1>7

\* What is known of a chain.
Chain(rows) == Log(rows) /\ Tax!Verified(rows) /\ Grows(rows) /\ \E n \in Nat : \A q \in rows : q.id <= n

LEMMA ChainFacts ==
  ASSUME NEW rows, Chain(rows)
  PROVE  /\ \A r \in rows : /\ r.id \in Nat /\ r.says \in Tax!Said /\ r.prev \in Seq(Tax!Said)
                            /\ r.hash \in Seq(Tax!Said) /\ Len(r.prev) \in Nat /\ Len(r.hash) = Len(r.prev) + 1
                            /\ r.hash = Tax!HashRow(r.prev, r.says) /\ r.prev = Tax!LastHash(Tax!Before(rows, r))
         /\ \A r, q \in rows : r.id = q.id => r = q
         /\ \A r, q \in rows : r.id < q.id => Len(r.hash) <= Len(q.prev)
<1>1. ASSUME NEW r \in rows
      PROVE  /\ r.id \in Nat /\ r.says \in Tax!Said /\ r.prev \in Seq(Tax!Said)
             /\ r.hash \in Seq(Tax!Said) /\ Len(r.prev) \in Nat
             /\ r.hash = Tax!HashRow(r.prev, r.says) /\ r.prev = Tax!LastHash(Tax!Before(rows, r))
  <2>1. r.id \in Nat /\ r.says \in Tax!Said /\ r.prev \in Seq(Tax!Said) /\ r.hash \in Seq(Tax!Said)
    BY DEF Chain, Log, Rows
  <2>2. Len(r.prev) \in Nat
    BY <2>1
  <2> QED BY <2>1, <2>2 DEF Chain, Tax!Verified
<1>2. \A r \in rows : Len(r.hash) = Len(r.prev) + 1
  BY <1>1, Appended
<1> QED BY <1>1, <1>2 DEF Chain, Log, Grows

\* The last of some rows, in a log of which they are a part.
LEMMA LastOf ==
  ASSUME NEW rows, Log(rows), NEW n \in Nat, \A q \in rows : q.id <= n, NEW some, some \subseteq rows
  PROVE  /\ Log(some)
         /\ some = {} => Tax!LastHash(some) = <<>>
         /\ some # {} => \E m \in some : (\A q \in some : q.id <= m.id) /\ Tax!LastHash(some) = m.hash
<1>1. Log(some) /\ \A q \in some : q.id <= n
  BY DEF Log
<1> QED BY <1>1, LastTyped

\* A row that says something else has another hash.
LEMMA AlteredShows ==
  ASSUME NEW rows, Chain(rows), NEW r \in rows, NEW says \in Tax!Said, says # r.says,
         NEW other, other.id = r.id, other.says = says, other.prev = r.prev, other.hash = r.hash
  PROVE  ~Tax!Verified((rows \ {r}) \cup {other})
<1> DEFINE new == (rows \ {r}) \cup {other}
<1>2. r.id \in Nat
  BY ChainFacts
<1>3. Tax!Before(new, other) = Tax!Before(rows, r)
  BY <1>2 DEF Tax!Before
<1>4. ASSUME Tax!Verified(new) PROVE FALSE
  <2>1. other.hash = Tax!HashRow(r.prev, says)
    BY <1>3, <1>4, ChainFacts DEF Tax!Verified
  <2>2. r.prev \in Seq(Tax!Said) /\ r.says \in Tax!Said /\ r.hash = Tax!HashRow(r.prev, r.says)
    BY ChainFacts
  <2> QED BY <2>1, <2>2, Appended
<1> QED BY <1>4

\* Without a row, the one after it has a hash before it that is not there.
LEMMA RemovedShows ==
  ASSUME NEW rows, Chain(rows), NEW r \in rows, NEW q \in rows, r.id < q.id
  PROVE  ~Tax!Verified(rows \ {r})
<1> DEFINE later == {x \in rows : r.id < x.id}
<1>1. later \subseteq Rows /\ later # {}
  BY DEF Chain, Log
<1>2. PICK s \in later : \A x \in later : s.id <= x.id
  <2> HIDE DEF later
  <2> QED BY <1>1, SmallestId
<1>3. /\ s \in rows /\ r.id < s.id /\ r.id \in Nat /\ s.id \in Nat
      /\ \A x \in rows : x.id \in Nat
  BY <1>2, ChainFacts
<1>4. \A x \in rows : x.id < s.id => x.id <= r.id
  BY <1>2, <1>3
<1>5. \A x \in rows : x.id = r.id => x = r
  BY ChainFacts
<1>6. Tax!Before(rows \ {r}, s) = Tax!Before(rows, r)
  BY <1>3, <1>4, <1>5 DEF Tax!Before
<1>7. ASSUME Tax!Verified(rows \ {r}) PROVE FALSE
  <2>1. s.prev = Tax!LastHash(Tax!Before(rows, r))
    BY <1>3, <1>6, <1>7 DEF Tax!Verified
  <2>2. s.prev = r.prev
    BY <2>1, ChainFacts
  <2>3. Len(r.hash) <= Len(s.prev) /\ Len(r.hash) = Len(r.prev) + 1 /\ Len(r.prev) \in Nat
    BY <1>3, ChainFacts
  <2> QED BY <2>2, <2>3
<1> QED BY <1>7

\* A later row in the place of an earlier one has too long a hash before it.
LEMMA MovedShows ==
  ASSUME NEW rows, Chain(rows), NEW r \in rows, NEW q \in rows, r.id < q.id,
         NEW a, a.id = q.id, NEW b, b.id = r.id, b.prev = q.prev
  PROVE  ~Tax!Verified((rows \ {r, q}) \cup {a, b})
<1> DEFINE new == (rows \ {r, q}) \cup {a, b}
<1>2. r.id \in Nat /\ q.id \in Nat
  BY ChainFacts
<1>3. Tax!Before(new, b) = Tax!Before(rows, r)
  BY <1>2 DEF Tax!Before
<1>4. ASSUME Tax!Verified(new) PROVE FALSE
  <2>1. q.prev = r.prev
    <3>1. b.prev = Tax!LastHash(Tax!Before(new, b))
      BY <1>4 DEF Tax!Verified
    <3>2. r.prev = Tax!LastHash(Tax!Before(rows, r))
      BY ChainFacts
    <3> HIDE DEF new
    <3> QED BY <1>3, <3>1, <3>2
  <2>2. Len(r.hash) <= Len(q.prev) /\ Len(r.hash) = Len(r.prev) + 1 /\ Len(r.prev) \in Nat
    BY ChainFacts
  <2> QED BY <2>1, <2>2
<1> QED BY <1>4

\* A row that is there twice has two rows before it, and they differ.
LEMMA RepeatedShows ==
  ASSUME NEW rows, Chain(rows), NEW r \in rows, NEW id \in Nat, \A q \in rows : q.id # id,
         NEW a \in Rows, a.id = id, a.prev = r.prev, a.hash = r.hash
  PROVE  ~Tax!Verified(rows \cup {a})
<1> DEFINE new == rows \cup {a}
<1>2. \A q \in rows : q.id \in Nat
  BY ChainFacts
<1>3. PICK n \in Nat : \A q \in rows : q.id <= n
  BY DEF Chain
<1>4. Log(rows)
  BY DEF Chain
<1>5. Tax!Before(new, a) = {q \in rows : q.id < id}
  BY DEF Tax!Before
<1> DEFINE below == {q \in rows : q.id < id}
<1>6. /\ below = {} => Tax!LastHash(below) = <<>>
      /\ below # {} => \E m \in below : (\A q \in below : q.id <= m.id) /\ Tax!LastHash(below) = m.hash
  <2>1. below \subseteq rows
    OBVIOUS
  <2> HIDE DEF below
  <2> QED BY <1>3, <1>4, <2>1, LastOf
<1>7. ASSUME Tax!Verified(new) PROVE FALSE
  <2>1. r.prev = Tax!LastHash(below)
    BY <1>5, <1>7 DEF Tax!Verified
  <2>2. CASE r.id < id
    <3>1. r \in below
      BY <2>2
    <3>2. PICK m \in below : (\A q \in below : q.id <= m.id) /\ r.prev = m.hash
      BY <1>6, <2>1, <3>1
    <3>3. r.id <= m.id /\ m \in rows
      BY <3>1, <3>2
    <3>4. m.id = r.id \/ r.id < m.id
      BY <1>2, <3>3
    <3>5. Len(r.hash) <= Len(m.hash)
      <4>1. CASE m.id = r.id
        <5>1. m = r
          BY <3>3, <4>1, ChainFacts
        <5>2. Len(r.hash) \in Int
          BY ChainFacts
        <5> QED BY <5>1, <5>2
      <4>2. CASE r.id < m.id
        <5>1. Len(r.hash) <= Len(m.prev) /\ Len(m.hash) = Len(m.prev) + 1 /\ Len(m.prev) \in Nat
          BY <3>3, <4>2, ChainFacts
        <5>2. Len(r.hash) \in Nat
          BY ChainFacts
        <5> QED BY <5>1, <5>2
      <4> QED BY <3>4, <4>1, <4>2
    <3>6. Len(r.hash) = Len(r.prev) + 1 /\ Len(r.prev) \in Nat
      BY ChainFacts
    <3> QED BY <3>2, <3>5, <3>6
  <2>3. CASE id < r.id
    <3>1. PICK m \in Tax!Before(new, r) : /\ \A q \in Tax!Before(new, r) : q.id <= m.id
                                          /\ Tax!LastHash(Tax!Before(new, r)) = m.hash
      <4>1. Log(new)
        BY <1>4 DEF Log
      <4>2. PICK k \in Nat : \A q \in new : q.id <= k
        <5>1. (n <= id \/ id <= n)
          BY <1>3
        <5>2. CASE n <= id
          BY <1>2, <1>3, <5>2
        <5>3. CASE id <= n
          BY <1>2, <1>3, <5>3
        <5> QED BY <5>1, <5>2, <5>3
      <4>3. a \in Tax!Before(new, r) /\ Tax!Before(new, r) \subseteq new
        BY <2>3 DEF Tax!Before
      <4> HIDE DEF new
      <4> QED BY <4>1, <4>2, <4>3, LastOf
    <3>2. r.prev = m.hash /\ Len(r.hash) = Len(r.prev) + 1 /\ Len(r.prev) \in Nat
      BY <1>7, <3>1, ChainFacts DEF Tax!Verified
    <3>3. id <= m.id
      BY <2>3, <3>1 DEF Tax!Before
    <3>4. m # a
      BY <3>2
    <3>5. m \in rows /\ id < m.id
      BY <1>2, <3>1, <3>3, <3>4 DEF Tax!Before
    <3>6. Len(m.hash) = Len(m.prev) + 1 /\ Len(m.prev) \in Nat
      BY <3>5, ChainFacts
    <3>7. CASE below = {}
      <4>1. r.prev = <<>> /\ Len(<<>>) = 0
        BY <1>6, <2>1, <3>7
      <4> QED BY <3>2, <3>6, <4>1
    <3>8. CASE below # {}
      <4>1. PICK x \in below : r.prev = x.hash
        BY <1>6, <2>1, <3>8
      <4>2. x \in rows /\ x.id < m.id
        BY <1>2, <3>5, <4>1
      <4>3. Len(x.hash) <= Len(m.prev)
        BY <3>5, <4>2, ChainFacts
      <4> QED BY <3>2, <3>6, <4>1, <4>3
    <3> QED BY <3>7, <3>8
  <2>4. r.id # id
    OBVIOUS
  <2> QED BY <1>2, <2>2, <2>3, <2>4
<1> QED BY <1>7
-------------------------------------------------------------------------------
(* Documents: the types, and who may do what next *)

LEMMA TaxBounds == MaxRows \in Nat /\ MaxDocs \in Nat /\ Months \in Nat
BY CountAssumption

LEMMA TaxCard == \A S : Tax!Cardinality(S) = Cardinality(S)
BY DEF Tax!Cardinality, Cardinality

Reader == [at: {"read"}, opening: Nat, months: UNION {[1..n -> Tax!Net] : n \in 0..Months}]
Writer == [at: {"append", "commit"}, id: Tax!Doc \cup {0}, write: {<<>>} \cup Seq(Tax!Document),
           row: 0..MaxRows, prev: Seq(Tax!Said)]

LEMMA CallKinds == Tax!CallState = {Tax!Idle} \cup Reader \cup Writer
BY DEF Tax!CallState, Reader, Writer, Tax!None, Tax!Hash

\* The states a call may be in, and the document it writes.
LEMMA FilingTyped ==
  ASSUME Tax!TypeOK, NEW c \in Calls
  PROVE  /\ filing[c] = Tax!Idle \/ filing[c] \in Reader \/ filing[c] \in Writer
         /\ filing[c].at \in {"idle", "read", "append", "commit"}
         /\ filing[c].at = "idle" <=> filing[c] = Tax!Idle
         /\ filing[c].at = "read" <=> filing[c] \in Reader
         /\ filing[c].at \in {"append", "commit"} <=> filing[c] \in Writer
         /\ Tax!Writes(c) => filing[c].write[1] \in Tax!Document /\ filing[c].id \in Tax!Doc \cup {0}
<1>1. filing[c] = Tax!Idle \/ filing[c] \in Reader \/ filing[c] \in Writer
  BY CallKinds DEF Tax!TypeOK
<1>2. Tax!Idle.at = "idle"
  BY DEF Tax!Idle
<1>3. (\A s \in Reader : s.at = "read") /\ \A s \in Writer : s.at \in {"append", "commit"}
  BY DEF Reader, Writer
<1>4. ASSUME Tax!Writes(c) PROVE filing[c].write[1] \in Tax!Document /\ filing[c].id \in Tax!Doc \cup {0}
  <2>1. filing[c] \in Writer /\ filing[c].write # <<>>
    BY <1>1, <1>2, <1>3, <1>4 DEF Tax!Writes
  <2>2. filing[c].write \in Seq(Tax!Document) /\ filing[c].id \in Tax!Doc \cup {0}
    BY <2>1 DEF Writer
  <2>3. Len(filing[c].write) \in Nat /\ Len(filing[c].write) # 0
    BY <2>1, <2>2
  <2> QED BY <2>2, <2>3
<1> QED BY <1>1, <1>2, <1>3, <1>4

\* A transaction on its way to the audit log.
LEMMA AppendingTyped ==
  ASSUME NEW id \in Tax!Doc \cup {0}, NEW write \in {<<>>} \cup Seq(Tax!Document)
  PROVE  /\ Tax!Appending(id, write) \in Writer
         /\ Tax!Appending(id, write).at = "append" /\ Tax!Appending(id, write).id = id
         /\ Tax!Appending(id, write).write = write
<1>1. 0 \in 0..MaxRows /\ <<>> \in Seq(Tax!Said)
  BY TaxBounds
<1> QED BY <1>1 DEF Tax!Appending, Writer, Tax!None, Tax!Genesis

\* The step of a call that goes from one state to another.
MovesTo(c, s) == filing' = [filing EXCEPT ![c] = s]

\* What begins, goes on and ends: the steps by what they change.
Begins(c) ==
  /\ filing[c] = Tax!Idle
  /\ sequences' = sequences /\ documents' = documents /\ trail' = trail /\ serial' = serial /\ vat' = vat

Numbers(c) == \E kind \in {"invoice", "note"}, y \in Year, id \in Tax!Doc :
  /\ Begins(c) /\ Tax!SeriesFree(c, y) /\ Tax!NewDoc(id)
  /\ MovesTo(c, Tax!Appending(id, <<[kind |-> kind, year |-> y, number |-> sequences[y] + 1, status |-> "draft"]>>))
Opens(c) == \E y \in Year, id \in Tax!Doc :
  /\ Begins(c) /\ Tax!NewDoc(id)
  /\ MovesTo(c, Tax!Appending(id, <<[kind |-> "vat_credit", year |-> y, number |-> 0, status |-> "draft"]>>))
Confirms(c) == \E d \in Tax!Doc :
  /\ Begins(c) /\ d \in DOMAIN documents /\ Tax!Confirmable(d)
  /\ MovesTo(c, Tax!Appending(d, <<[documents[d] EXCEPT !.status = "confirmed"]>>))
Traces(c) ==
  /\ filing[c] = Tax!Idle \/ filing[c].at = "read"
  /\ sequences' = sequences /\ documents' = documents /\ trail' = trail /\ serial' = serial /\ vat' = vat
  /\ MovesTo(c, Tax!Appending(0, <<>>))

LEMMA TaxSteps ==
  ASSUME Tax!Next
  PROVE  \/ \E c \in Calls : \/ Numbers(c) \/ Opens(c) \/ Confirms(c) \/ Traces(c)
                             \/ \E y \in Year : Tax!BeginYear(c, y)
                             \/ Tax!ReadMonth(c) \/ Tax!AppendAudit(c) \/ Tax!Commit(c) \/ Tax!Rollback(c)
         \/ \E m \in Tax!Month : Tax!BooksChange(m)
<1>1. ASSUME NEW c \in Calls, NEW y \in Year, NEW id \in Tax!Doc, Tax!NextInvoiceNumber(c, y, id) \/ Tax!IssueNote(c, y, id)
      PROVE  Numbers(c)
  BY <1>1 DEF Tax!NextInvoiceNumber, Tax!IssueNote, Tax!AllocateNumber, Tax!Free, Tax!Move, Numbers, Begins, MovesTo
<1>2. ASSUME NEW c \in Calls, NEW y \in Year, NEW id \in Tax!Doc, Tax!RecordOpening(c, y, id) PROVE Opens(c)
  BY <1>2 DEF Tax!RecordOpening, Tax!Free, Tax!Move, Tax!None, Opens, Begins, MovesTo
<1>3. ASSUME NEW c \in Calls, NEW d \in Tax!Doc, Tax!Confirm(c, d) PROVE Confirms(c)
  BY <1>3 DEF Tax!Confirm, Tax!Free, Tax!Move, Confirms, Begins, MovesTo
<1>4. ASSUME NEW c \in Calls, Tax!EndYear(c) \/ Tax!OnlyTrace(c) PROVE Traces(c)
  BY <1>4 DEF Tax!EndYear, Tax!OnlyTrace, Tax!Free, Tax!Move, Tax!None, Traces, MovesTo
<1> QED BY <1>1, <1>2, <1>3, <1>4 DEF Tax!Next

\* The log is a chain; whoever has its lock carries the last row's hash and the highest id.
ChainSound ==
  /\ Log(trail) /\ Tax!Verified(trail) /\ Grows(trail)
  /\ \A r \in trail : r.id <= serial
  /\ \A c, d \in Calls : filing[c].at = "commit" /\ filing[d].at = "commit" => c = d
  /\ \A c \in Calls : filing[c].at = "commit" =>
       /\ filing[c].row = serial /\ serial > 0 /\ filing[c].prev = Tax!LastHash(trail)
       /\ \A r \in trail : r.id < serial

\* A call confirms a document as it is, or adds one, with the next number if it has one.
Prepared(id, doc) ==
  IF id \in DOMAIN documents
  THEN doc.kind = documents[id].kind /\ doc.year = documents[id].year /\ doc.number = documents[id].number
  ELSE doc.number = IF doc.kind = "vat_credit" THEN 0 ELSE sequences[doc.year] + 1

\* Two calls write two documents, and one at a time takes a number of a year; the
\* numbers given out are those of the documents, each once.
NumbersSound ==
  /\ \A c, d \in Calls : Tax!Writes(c) /\ Tax!Writes(d) /\ filing[c].id = filing[d].id => c = d
  /\ \A c \in Calls : Tax!Writes(c) => filing[c].id \in Tax!Doc /\ Prepared(filing[c].id, filing[c].write[1])
  /\ \A y \in Year : \A c, d \in Calls : Tax!Numbering(c, y) /\ Tax!Numbering(d, y) => c = d
  /\ \A d \in DOMAIN documents : documents[d].kind = "vat_credit" => documents[d].number = 0
  /\ \A y \in Year :
       /\ \A d \in Tax!NumbersOf(y) : documents[d].number \in 1..sequences[y]
       /\ \A d, e \in Tax!NumbersOf(y) : documents[d].number = documents[e].number => d = e
       /\ \A n \in 1..sequences[y] : \E d \in Tax!NumbersOf(y) : documents[d].number = n

TaxInv == Tax!TypeOK /\ ChainSound /\ NumbersSound

\* The row a commit adds.
LEMMA CommitAppends ==
  ASSUME Tax!TypeOK, ChainSound, NEW c \in Calls, Tax!Commit(c)
  PROVE  \E r : /\ trail' = trail \cup {r} /\ r \in [id: 1..MaxRows, says: Tax!Said, prev: Tax!Hash, hash: Tax!Hash]
                /\ r.id = serial /\ r.prev = Tax!LastHash(trail) /\ r.hash = Tax!HashRow(r.prev, r.says)
<1> DEFINE t == filing[c]
           says == [wrote |-> Tax!Writes(c), at |-> t.row]
           r == [id |-> t.row, says |-> says, prev |-> t.prev, hash |-> Tax!HashRow(t.prev, says)]
<1>1. t \in Writer /\ t.at = "commit"
  BY FilingTyped DEF Tax!Commit
<1>2. t.row = serial /\ serial > 0 /\ t.prev = Tax!LastHash(trail)
  BY <1>1 DEF ChainSound
<1>3. t.row \in 1..MaxRows /\ t.prev \in Seq(Tax!Said)
  BY <1>1, <1>2, TaxBounds DEF Writer
<1>4. Tax!Writes(c) \in BOOLEAN
  BY DEF Tax!Writes
<1>5. says \in Tax!Said
  BY <1>3, <1>4 DEF Tax!Said
<1>6. trail' = trail \cup {r}
  BY DEF Tax!Commit
<1> HIDE DEF says, t
<1>7. Tax!HashRow(t.prev, says) \in Seq(Tax!Said)
  BY <1>3, <1>5, Appended
<1>8. r \in [id: 1..MaxRows, says: Tax!Said, prev: Tax!Hash, hash: Tax!Hash]
  BY <1>3, <1>5, <1>7 DEF Tax!Hash
<1>9. r.id = t.row /\ r.prev = t.prev /\ r.says = says /\ r.hash = Tax!HashRow(t.prev, says)
  OBVIOUS
<1> HIDE DEF r
<1> QED BY <1>2, <1>6, <1>8, <1>9

LEMMA MoveTyped ==
  ASSUME Tax!TypeOK, NEW c \in Calls, NEW s \in {Tax!Idle} \cup Reader \cup Writer, MovesTo(c, s)
  PROVE  filing' \in [Calls -> Tax!CallState]
BY CallKinds DEF Tax!TypeOK, MovesTo

LEMMA TaxTypesKept == Tax!TypeOK /\ ChainSound /\ NumbersSound /\ Tax!Next => Tax!TypeOK'
<1> SUFFICES ASSUME Tax!TypeOK, ChainSound, NumbersSound, Tax!Next PROVE Tax!TypeOK'
  OBVIOUS
<1> USE TaxBounds
<1>1. ASSUME sequences' = sequences, documents' = documents, trail' = trail, serial' = serial, vat' = vat,
             NEW c \in Calls, NEW s \in {Tax!Idle} \cup Reader \cup Writer, MovesTo(c, s)
      PROVE  Tax!TypeOK'
  BY <1>1, MoveTyped DEF Tax!TypeOK
<1>2. ASSUME NEW c \in Calls, Numbers(c) PROVE Tax!TypeOK'
  <2>1. PICK kind \in {"invoice", "note"}, y \in Year, id \in Tax!Doc :
          /\ Begins(c)
          /\ MovesTo(c, Tax!Appending(id, <<[kind |-> kind, year |-> y, number |-> sequences[y] + 1, status |-> "draft"]>>))
    BY <1>2 DEF Numbers
  <2> DEFINE doc == [kind |-> kind, year |-> y, number |-> sequences[y] + 1, status |-> "draft"]
  <2>2. doc \in Tax!Document
    BY DEF Tax!TypeOK, Tax!Document, Tax!Kind
  <2> HIDE DEF doc
  <2>3. <<doc>> \in Seq(Tax!Document)
    BY <2>2
  <2>4. Tax!Appending(id, <<doc>>) \in Writer
    BY <2>3, AppendingTyped
  <2> QED BY <1>1, <2>1, <2>4 DEF Begins, doc
<1>3. ASSUME NEW c \in Calls, Opens(c) PROVE Tax!TypeOK'
  <2>1. PICK y \in Year, id \in Tax!Doc :
          /\ Begins(c)
          /\ MovesTo(c, Tax!Appending(id, <<[kind |-> "vat_credit", year |-> y, number |-> 0, status |-> "draft"]>>))
    BY <1>3 DEF Opens
  <2> DEFINE doc == [kind |-> "vat_credit", year |-> y, number |-> 0, status |-> "draft"]
  <2>2. doc \in Tax!Document
    BY DEF Tax!Document, Tax!Kind
  <2> HIDE DEF doc
  <2>3. <<doc>> \in Seq(Tax!Document)
    BY <2>2
  <2>4. Tax!Appending(id, <<doc>>) \in Writer
    BY <2>3, AppendingTyped
  <2> QED BY <1>1, <2>1, <2>4 DEF Begins, doc
<1>4. ASSUME NEW c \in Calls, Confirms(c) PROVE Tax!TypeOK'
  <2>1. PICK d \in Tax!Doc :
          /\ Begins(c) /\ d \in DOMAIN documents
          /\ MovesTo(c, Tax!Appending(d, <<[documents[d] EXCEPT !.status = "confirmed"]>>))
    BY <1>4 DEF Confirms
  <2> DEFINE doc == [documents[d] EXCEPT !.status = "confirmed"]
  <2>2. doc \in Tax!Document
    BY <2>1 DEF Tax!TypeOK, Tax!Document
  <2> HIDE DEF doc
  <2>3. <<doc>> \in Seq(Tax!Document)
    BY <2>2
  <2>4. Tax!Appending(d, <<doc>>) \in Writer
    BY <2>3, AppendingTyped
  <2> QED BY <1>1, <2>1, <2>4 DEF Begins, doc
<1>5. ASSUME NEW c \in Calls, Traces(c) PROVE Tax!TypeOK'
  <2>1. Tax!Appending(0, <<>>) \in Writer
    BY AppendingTyped
  <2> QED BY <1>1, <1>5, <2>1 DEF Traces
<1>6. ASSUME NEW c \in Calls, NEW y \in Year, Tax!BeginYear(c, y) PROVE Tax!TypeOK'
  <2> DEFINE S == {d \in DOMAIN documents :
                documents[d].kind = "vat_credit" /\ documents[d].status = "confirmed" /\ documents[d].year = y}
  <2>1. Cardinality(S) \in Nat
    <3>1. IsFiniteSet(Tax!Doc)
      BY IntervalFinite DEF Tax!Doc
    <3>2. S \subseteq Tax!Doc
      BY DEF Tax!TypeOK
    <3> HIDE DEF S
    <3> QED BY <3>1, <3>2, FS_Subset, FS_CardinalityType
  <2>2. Tax!OpeningCredit(y) \in Nat
    BY <2>1, TaxCard DEF Tax!OpeningCredit
  <2>3. <<>> \in [1..0 -> Tax!Net]
    OBVIOUS
  <2>4. [at |-> "read", opening |-> Tax!OpeningCredit(y), months |-> <<>>] \in Reader
    BY <2>2, <2>3 DEF Reader
  <2> QED BY <1>1, <1>6, <2>4 DEF Tax!BeginYear, Tax!Move, MovesTo
<1>7. ASSUME NEW c \in Calls, Tax!ReadMonth(c) PROVE Tax!TypeOK'
  <2> DEFINE t == filing[c]
             n == Len(t.months)
  <2>1. t \in Reader
    BY <1>7, FilingTyped DEF Tax!ReadMonth
  <2>2. PICK k \in 0..Months : t.months \in [1..k -> Tax!Net]
    BY <2>1 DEF Reader
  <2>3. n = k /\ n < Months /\ t.months \in Seq(Tax!Net)
    <3>1. n < Months /\ k \in Nat
      BY <1>7 DEF Tax!ReadMonth
    <3>2. Len(t.months) = k /\ t.months \in Seq(Tax!Net)
      <4> DEFINE s == t.months
      <4>1. s \in [1..k -> Tax!Net]
        BY <2>2
      <4> HIDE DEF s, t
      <4>2. Len(s) = k /\ s \in Seq(Tax!Net)
        BY <3>1, <4>1
      <4> QED BY <4>2 DEF s
    <3> HIDE DEF t
    <3> QED BY <3>1, <3>2
  <2>4. vat[n + 1] \in Tax!Net
    BY <2>3 DEF Tax!TypeOK, Tax!Month
  <2>5. Append(t.months, vat[n + 1]) \in [1..(n + 1) -> Tax!Net]
    <3> DEFINE s == t.months
               x == vat[n + 1]
    <3>1. s \in Seq(Tax!Net) /\ x \in Tax!Net /\ Len(s) = n /\ n \in Nat
      BY <2>3, <2>4
    <3> HIDE DEF s, x, n, t
    <3>2. Append(s, x) \in Seq(Tax!Net) /\ Len(Append(s, x)) = n + 1
      BY <3>1
    <3>3. \A u \in Seq(Tax!Net) : u \in [1..Len(u) -> Tax!Net]
      OBVIOUS
    <3> QED BY <3>2, <3>3 DEF s, x
  <2>6. [t EXCEPT !.months = Append(@, vat[Len(@) + 1])] \in Reader
    <3> DEFINE more == Append(t.months, vat[n + 1])
    <3>1. n + 1 \in 0..Months
      BY <2>2, <2>3
    <3>2. more \in UNION {[1..k_1 -> Tax!Net] : k_1 \in 0..Months}
      <4> HIDE DEF more, n
      <4> QED BY <2>5, <3>1 DEF more
    <3> HIDE DEF more, t
    <3>3. [t EXCEPT !.months = more] \in Reader
      BY <2>1, <3>2 DEF Reader
    <3> QED BY <3>3 DEF more
  <2> QED BY <1>1, <1>7, <2>6 DEF Tax!ReadMonth, Tax!Move, MovesTo
<1>8. ASSUME NEW c \in Calls, Tax!AppendAudit(c) PROVE Tax!TypeOK'
  <2> DEFINE t == filing[c]
  <2>1. t \in Writer /\ serial + 1 \in 0..MaxRows
    BY <1>8, FilingTyped DEF Tax!AppendAudit, Tax!TypeOK
  <2>2. Tax!LastHash(trail) \in Seq(Tax!Said)
    <3>1. CASE trail = {}
      BY <3>1 DEF Tax!LastHash, Tax!Genesis
    <3>2. CASE trail # {}
      <4>1. trail \subseteq Rows /\ \A q \in trail : q.id <= MaxRows
        BY DEF Tax!TypeOK, Rows, Tax!Hash
      <4>2. PICK m \in trail : \A q \in trail : q.id <= m.id
        BY <3>2, <4>1, LargestId
      <4>3. PICK r \in trail : Tax!LastHash(trail) = r.hash
        BY <3>2, <4>2 DEF Tax!LastHash
      <4> QED BY <4>1, <4>3 DEF Rows
    <3> QED BY <3>1, <3>2
  <2>3. [t EXCEPT !.at = "commit", !.row = serial + 1, !.prev = Tax!LastHash(trail)] \in Writer
    BY <2>1, <2>2 DEF Writer
  <2>4. MovesTo(c, [t EXCEPT !.at = "commit", !.row = serial + 1, !.prev = Tax!LastHash(trail)])
    BY <1>8 DEF Tax!AppendAudit, Tax!Move, MovesTo
  <2>5. filing' \in [Calls -> Tax!CallState]
    BY <2>3, <2>4, MoveTyped
  <2> QED BY <1>8, <2>1, <2>5 DEF Tax!AppendAudit, Tax!TypeOK
<1>9. ASSUME NEW c \in Calls, Tax!Rollback(c) PROVE Tax!TypeOK'
  BY <1>1, <1>9 DEF Tax!Rollback, Tax!Move, MovesTo
<1>10. ASSUME NEW m \in Tax!Month, Tax!BooksChange(m) PROVE Tax!TypeOK'
  <2>1. vat' \in [Tax!Month -> Tax!Net]
    BY <1>10 DEF Tax!BooksChange, Tax!TypeOK, Tax!Net
  <2> QED BY <1>10, <2>1 DEF Tax!BooksChange, Tax!TypeOK
<1>11. ASSUME NEW c \in Calls, Tax!Commit(c) PROVE Tax!TypeOK'
  <2> DEFINE t == filing[c]
             doc == t.write[1]
  <2>1. PICK r : /\ trail' = trail \cup {r} /\ r \in [id: 1..MaxRows, says: Tax!Said, prev: Tax!Hash, hash: Tax!Hash]
    BY <1>11, CommitAppends
  <2>2. filing' \in [Calls -> Tax!CallState] /\ serial' = serial /\ vat' = vat
    BY <1>11, MoveTyped DEF Tax!Commit, Tax!Move, MovesTo
  <2>3. CASE ~Tax!Writes(c)
    BY <1>11, <2>1, <2>2, <2>3 DEF Tax!Commit, Tax!TypeOK
  <2>4. CASE Tax!Writes(c)
    <3>1. doc \in Tax!Document /\ t.id \in Tax!Doc
      BY <2>4, FilingTyped DEF NumbersSound
    <3>2. /\ documents' = [d \in DOMAIN documents \cup {t.id} |-> IF d = t.id THEN doc ELSE documents[d]]
          /\ sequences' = IF doc.number > sequences[doc.year]
                          THEN [sequences EXCEPT ![doc.year] = doc.number] ELSE sequences
      BY <1>11, <2>4 DEF Tax!Commit
    <3> HIDE DEF doc, t
    <3>3. sequences' \in [Year -> Nat]
      BY <3>1, <3>2 DEF Tax!TypeOK, Tax!Document
    <3>4. DOMAIN documents' \subseteq Tax!Doc /\ \A d \in DOMAIN documents' : documents'[d] \in Tax!Document
      BY <3>1, <3>2 DEF Tax!TypeOK
    <3> QED BY <2>1, <2>2, <3>3, <3>4 DEF Tax!TypeOK
  <2> QED BY <2>3, <2>4
<1> QED BY <1>2, <1>3, <1>4, <1>5, <1>6, <1>7, <1>8, <1>9, <1>10, <1>11, TaxSteps

\* Before it has the lock, and after it is done, a call has no part in the chain.
LEMMA ChainAlone ==
  ASSUME Tax!TypeOK, ChainSound, trail' = trail, serial' = serial,
         NEW c \in Calls, NEW s, s.at # "commit", filing' = filing \/ MovesTo(c, s)
  PROVE  ChainSound'
<1>1. \A d \in Calls : filing'[d].at = "commit" => filing[d].at = "commit" /\ filing'[d] = filing[d]
  BY DEF Tax!TypeOK, MovesTo
<1> QED BY <1>1 DEF ChainSound

LEMMA ChainKept == TaxInv /\ Tax!Next => ChainSound'
<1> SUFFICES ASSUME TaxInv, Tax!Next PROVE ChainSound'
  OBVIOUS
<1>0. Tax!TypeOK /\ ChainSound /\ serial \in Nat
  BY DEF TaxInv, Tax!TypeOK
<1>1. ASSUME NEW c \in Calls, Tax!AppendAudit(c) PROVE ChainSound'
  <2> DEFINE s == [filing[c] EXCEPT !.at = "commit", !.row = serial + 1, !.prev = Tax!LastHash(trail)]
  <2>1. /\ trail' = trail /\ serial' = serial + 1 /\ filing' = [filing EXCEPT ![c] = s]
        /\ \A d \in Calls : filing[d].at # "commit"
    BY <1>1 DEF Tax!AppendAudit, Tax!Move, Tax!TrailFree
  <2>2. s.at = "commit" /\ s.row = serial + 1 /\ s.prev = Tax!LastHash(trail)
    <3>1. filing[c] \in Writer
      BY <1>0, <1>1, FilingTyped DEF Tax!AppendAudit
    <3> QED BY <3>1 DEF Writer
  <2> HIDE DEF s
  <2>3. \A d \in Calls : filing'[d].at = "commit" => d = c /\ filing'[d] = s
    BY <1>0, <2>1 DEF Tax!TypeOK
  <2>4. \A r \in trail : r.id <= serial' /\ r.id < serial'
    BY <1>0, <2>1 DEF ChainSound, Log, Rows
  <2> QED BY <1>0, <2>1, <2>2, <2>3, <2>4 DEF ChainSound
<1>2. ASSUME NEW c \in Calls, Tax!Commit(c) PROVE ChainSound'
  <2>1. PICK r : /\ trail' = trail \cup {r} /\ r \in [id: 1..MaxRows, says: Tax!Said, prev: Tax!Hash, hash: Tax!Hash]
                 /\ r.id = serial /\ r.prev = Tax!LastHash(trail) /\ r.hash = Tax!HashRow(r.prev, r.says)
    BY <1>0, <1>2, CommitAppends
  <2>2. r \in Rows
    BY <1>0, <2>1, TaxBounds DEF Rows, Tax!Hash
  <2>3. /\ filing[c].at = "commit" /\ \A d \in Calls : filing'[d].at # "commit"
        /\ serial' = serial
    <3>1. filing[c].at = "commit" /\ filing' = [filing EXCEPT ![c] = Tax!Idle] /\ Tax!Idle.at # "commit" /\ serial' = serial
      BY <1>2 DEF Tax!Commit, Tax!Move, Tax!Idle
    <3> QED BY <1>0, <3>1 DEF ChainSound, Tax!TypeOK
  <2>4. \A q \in trail : q.id < serial
    BY <1>0, <2>3 DEF ChainSound
  <2>5. Log(trail \cup {r}) /\ Tax!Verified(trail \cup {r}) /\ Grows(trail \cup {r})
    BY <1>0, <2>1, <2>2, <2>4, ChainGrows DEF ChainSound
  <2>6. \A q \in trail \cup {r} : q.id <= serial
    BY <1>0, <2>1, <2>4 DEF ChainSound
  <2> QED BY <2>1, <2>3, <2>5, <2>6 DEF ChainSound
<1>3. ASSUME NEW c \in Calls, Numbers(c) \/ Opens(c) \/ Confirms(c) \/ Traces(c) PROVE ChainSound'
  <2>1. trail' = trail /\ serial' = serial /\ \E id, write : MovesTo(c, Tax!Appending(id, write))
    BY <1>3 DEF Numbers, Opens, Confirms, Traces, Begins
  <2>2. \A id, write : Tax!Appending(id, write).at # "commit"
    BY DEF Tax!Appending
  <2> QED BY <1>0, <2>1, <2>2, ChainAlone
<1>4. ASSUME NEW c \in Calls, NEW y \in Year, Tax!BeginYear(c, y) PROVE ChainSound'
  <2> DEFINE s == [at |-> "read", opening |-> Tax!OpeningCredit(y), months |-> <<>>]
  <2>1. trail' = trail /\ serial' = serial /\ MovesTo(c, s) /\ s.at # "commit"
    BY <1>4 DEF Tax!BeginYear, Tax!Move, MovesTo
  <2> HIDE DEF s
  <2> QED BY <1>0, <2>1, ChainAlone
<1>5. ASSUME NEW c \in Calls, Tax!ReadMonth(c) PROVE ChainSound'
  <2> DEFINE s == [filing[c] EXCEPT !.months = Append(@, vat[Len(@) + 1])]
  <2>1. trail' = trail /\ serial' = serial /\ MovesTo(c, s)
    BY <1>5 DEF Tax!ReadMonth, Tax!Move, MovesTo
  <2>2. s.at # "commit"
    <3>1. filing[c] \in Reader
      BY <1>0, <1>5, FilingTyped DEF Tax!ReadMonth
    <3> QED BY <3>1 DEF Reader
  <2> HIDE DEF s
  <2> QED BY <1>0, <2>1, <2>2, ChainAlone
<1>6. ASSUME NEW c \in Calls, Tax!Rollback(c) PROVE ChainSound'
  <2>1. trail' = trail /\ serial' = serial /\ MovesTo(c, Tax!Idle) /\ Tax!Idle.at # "commit"
    BY <1>6 DEF Tax!Rollback, Tax!Move, MovesTo, Tax!Idle
  <2> QED BY <1>0, <2>1, ChainAlone
<1>7. ASSUME NEW m \in Tax!Month, Tax!BooksChange(m) PROVE ChainSound'
  BY <1>0, <1>7 DEF Tax!BooksChange, ChainSound
<1> QED BY <1>1, <1>2, <1>3, <1>4, <1>5, <1>6, <1>7, TaxSteps

\* The documents stay, and of the calls at most c goes on to write another one, or none.
LEMMA NumbersStay ==
  ASSUME Tax!TypeOK, NumbersSound, documents' = documents, sequences' = sequences,
         \A d \in Calls : Tax!Writes(d)' =>
           Tax!Writes(d) /\ filing'[d].id = filing[d].id /\ filing'[d].write = filing[d].write
  PROVE  NumbersSound'
<1>1. \A y \in Year, d \in Calls : Tax!Numbering(d, y)' => Tax!Numbering(d, y)
  BY DEF Tax!Numbering
<1>2. \A y : Tax!NumbersOf(y)' = Tax!NumbersOf(y)
  BY DEF Tax!NumbersOf
<1>3. \A d \in Calls : Tax!Writes(d)' =>
        filing'[d].id \in Tax!Doc /\ Prepared(filing[d].id, filing[d].write[1])'
  BY DEF NumbersSound, Prepared
<1>4. \A c, d \in Calls : Tax!Writes(c)' /\ Tax!Writes(d)' /\ filing'[c].id = filing'[d].id => c = d
  BY DEF NumbersSound
<1> QED BY <1>1, <1>2, <1>3, <1>4 DEF NumbersSound

\* A call takes up a document that no other call writes.
LEMMA NumbersBegin ==
  ASSUME Tax!TypeOK, NumbersSound, NEW c \in Calls, Begins(c), NEW id \in Tax!Doc, NEW doc \in Tax!Document,
         MovesTo(c, Tax!Appending(id, <<doc>>)), Prepared(id, doc),
         \A d \in Calls : Tax!Writes(d) => filing[d].id # id,
         id \notin DOMAIN documents /\ doc.number # 0 => Tax!SeriesFree(c, doc.year)
  PROVE  NumbersSound'
<1> DEFINE s == Tax!Appending(id, <<doc>>)
<1>1. s.at = "append" /\ s.id = id /\ s.write = <<doc>>
  <2>1. <<doc>> \in Seq(Tax!Document)
    OBVIOUS
  <2> QED BY <2>1, AppendingTyped
<1> HIDE DEF s
<1>2. /\ filing' = [filing EXCEPT ![c] = s] /\ DOMAIN filing = Calls
      /\ documents' = documents /\ sequences' = sequences
  BY DEF MovesTo, Begins, Tax!TypeOK, s
<1>3. \A d \in Calls \ {c} : filing'[d] = filing[d] /\ (Tax!Writes(d)' <=> Tax!Writes(d))
  BY <1>2 DEF Tax!Writes
<1>4. filing'[c].id = id /\ filing'[c].write[1] = doc
  BY <1>1, <1>2
<1>5. \A a, b \in Calls : Tax!Writes(a)' /\ Tax!Writes(b)' /\ filing'[a].id = filing'[b].id => a = b
  BY <1>3, <1>4 DEF NumbersSound
<1>6. \A d \in Calls : Tax!Writes(d)' =>
        filing'[d].id \in Tax!Doc /\ Prepared(filing[d].id, filing[d].write[1])'
  BY <1>2, <1>3, <1>4 DEF NumbersSound, Prepared
<1>7. ASSUME NEW y \in Year, NEW a \in Calls, NEW b \in Calls, Tax!Numbering(a, y)', Tax!Numbering(b, y)'
      PROVE  a = b
  <2>1. \A d \in Calls \ {c} : Tax!Numbering(d, y)' => Tax!Numbering(d, y)
    BY <1>2, <1>3 DEF Tax!Numbering
  <2>2. Tax!Numbering(c, y)' => id \notin DOMAIN documents /\ doc.number # 0 /\ doc.year = y
    BY <1>2, <1>4 DEF Tax!Numbering, Tax!None
  <2>3. Tax!Numbering(c, y)' => \A d \in Calls \ {c} : ~Tax!Numbering(d, y)
    BY <2>2 DEF Tax!SeriesFree
  <2>4. CASE a = c \/ b = c
    BY <1>7, <2>1, <2>3, <2>4
  <2>5. CASE a # c /\ b # c
    BY <1>7, <2>1, <2>5 DEF NumbersSound
  <2> QED BY <2>4, <2>5
<1>8. \A y : Tax!NumbersOf(y)' = Tax!NumbersOf(y)
  BY <1>2 DEF Tax!NumbersOf
<1> QED BY <1>2, <1>5, <1>6, <1>7, <1>8 DEF NumbersSound

LEMMA NumbersCommit ==
  ASSUME Tax!TypeOK, NumbersSound, NEW c \in Calls, Tax!Commit(c)
  PROVE  NumbersSound'
<1> DEFINE id == filing[c].id
           doc == filing[c].write[1]
<1>1. /\ filing' = [filing EXCEPT ![c] = Tax!Idle] /\ DOMAIN filing = Calls
  BY DEF Tax!Commit, Tax!Move, Tax!TypeOK
<1>2. ~Tax!Writes(c)' /\ \A d \in Calls \ {c} : filing'[d] = filing[d] /\ (Tax!Writes(d)' <=> Tax!Writes(d))
  BY <1>1 DEF Tax!Writes, Tax!Idle
<1>3. CASE ~Tax!Writes(c)
  BY <1>2, <1>3, NumbersStay DEF Tax!Commit
<1>4. CASE Tax!Writes(c)
  <2>1. id \in Tax!Doc /\ doc \in Tax!Document /\ Prepared(id, doc)
    BY <1>4, FilingTyped DEF NumbersSound
  <2>2. /\ documents' = [d \in DOMAIN documents \cup {id} |-> IF d = id THEN doc ELSE documents[d]]
        /\ sequences' = IF doc.number > sequences[doc.year]
                        THEN [sequences EXCEPT ![doc.year] = doc.number] ELSE sequences
    BY <1>4 DEF Tax!Commit
  <2>3. /\ doc.number \in Nat /\ doc.year \in Year /\ doc.kind \in Tax!Kind
        /\ sequences \in [Year -> Nat] /\ \A y \in Year : sequences[y] \in Nat
        /\ \A d \in DOMAIN documents : documents[d] \in Tax!Document
    BY <2>1 DEF Tax!TypeOK, Tax!Document
  <2>4. \A d \in Calls : Tax!Writes(d)' => d # c /\ Tax!Writes(d) /\ filing[d].id # id
    BY <1>2, <1>4 DEF NumbersSound
  <2>5. \A a, b \in Calls : Tax!Writes(a)' /\ Tax!Writes(b)' /\ filing'[a].id = filing'[b].id => a = b
    BY <1>2, <2>4 DEF NumbersSound
  <2> HIDE DEF id, doc
  <2>6. DOMAIN documents' = DOMAIN documents \cup {id} /\ documents'[id] = doc
        /\ \A d \in DOMAIN documents : d # id => documents'[d] = documents[d]
    BY <2>2
  <2>7. \A y \in Year, d \in Calls : Tax!Numbering(d, y)' => Tax!Numbering(d, y)
    BY <1>2, <2>4, <2>6 DEF Tax!Numbering
  <2>8. \A y \in Year : \A a, b \in Calls : Tax!Numbering(a, y)' /\ Tax!Numbering(b, y)' => a = b
    BY <2>7 DEF NumbersSound
  <2>9. CASE id \in DOMAIN documents
    <3>1. doc.kind = documents[id].kind /\ doc.year = documents[id].year /\ doc.number = documents[id].number
      BY <2>1, <2>9 DEF Prepared
    <3>2. /\ DOMAIN documents' = DOMAIN documents
          /\ \A d \in DOMAIN documents : /\ documents'[d].kind = documents[d].kind /\ documents'[d].year = documents[d].year
                                         /\ documents'[d].number = documents[d].number
      BY <2>6, <2>9, <3>1
    <3>3. ~(doc.number > sequences[doc.year])
      <4>1. CASE doc.kind = "vat_credit"
        <5>1. \A d \in DOMAIN documents : documents[d].kind = "vat_credit" => documents[d].number = 0
          BY DEF NumbersSound
        <5>2. doc.number = 0
          BY <2>9, <3>1, <4>1, <5>1
        <5>3. sequences[doc.year] \in Nat
          BY <2>3
        <5> QED BY <5>2, <5>3
      <4>2. CASE doc.kind # "vat_credit"
        <5>1. id \in Tax!NumbersOf(doc.year)
          BY <2>3, <2>9, <3>1, <4>2 DEF Tax!NumbersOf, Tax!Numbered, Tax!Kind
        <5>2. documents[id].number \in 1..sequences[doc.year]
          BY <2>3, <5>1 DEF NumbersSound
        <5>3. sequences[doc.year] \in Nat
          BY <2>3
        <5> QED BY <3>1, <5>2, <5>3
      <4> QED BY <4>1, <4>2
    <3>4. sequences' = sequences
      BY <2>2, <3>3
    <3>5. \A y : Tax!NumbersOf(y)' = Tax!NumbersOf(y)
      BY <3>2 DEF Tax!NumbersOf
    <3>6. \A y \in Year : \A d \in Tax!NumbersOf(y) : documents'[d].number = documents[d].number
      BY <3>2 DEF Tax!NumbersOf
    <3>7. \A d \in Calls : Tax!Writes(d)' =>
            filing'[d].id \in Tax!Doc /\ Prepared(filing[d].id, filing[d].write[1])'
      BY <1>2, <2>4, <3>2, <3>4 DEF NumbersSound, Prepared
    <3>8. \A d \in DOMAIN documents' : documents'[d].kind = "vat_credit" => documents'[d].number = 0
      BY <3>2 DEF NumbersSound
    <3>9. \A y \in Year :
            /\ \A d \in Tax!NumbersOf(y)' : documents'[d].number \in 1..sequences'[y]
            /\ \A d, e \in Tax!NumbersOf(y)' : documents'[d].number = documents'[e].number => d = e
            /\ \A n \in 1..sequences'[y] : \E d \in Tax!NumbersOf(y)' : documents'[d].number = n
      BY <3>4, <3>5, <3>6 DEF NumbersSound
    <3> QED BY <2>5, <2>8, <3>7, <3>8, <3>9 DEF NumbersSound
  <2>10. CASE id \notin DOMAIN documents
    <3>1. doc.number = IF doc.kind = "vat_credit" THEN 0 ELSE sequences[doc.year] + 1
      BY <2>1, <2>10 DEF Prepared
    <3>2. \A y \in Year : sequences'[y] = IF y = doc.year /\ doc.kind # "vat_credit" THEN sequences[y] + 1 ELSE sequences[y]
      BY <2>2, <2>3, <3>1
    <3>3. \A y \in Year : Tax!NumbersOf(y)' =
            IF y = doc.year /\ doc.kind # "vat_credit" THEN Tax!NumbersOf(y) \cup {id} ELSE Tax!NumbersOf(y)
      BY <2>3, <2>6, <2>10 DEF Tax!NumbersOf, Tax!Numbered, Tax!Kind
    <3>4. \A y \in Year : \A d \in Tax!NumbersOf(y) : d # id /\ documents'[d] = documents[d]
      BY <2>6, <2>10 DEF Tax!NumbersOf
    <3>5. ASSUME NEW d \in Calls, Tax!Writes(d)'
          PROVE  filing'[d].id \in Tax!Doc /\ Prepared(filing[d].id, filing[d].write[1])'
      <4>1. /\ d # c /\ Tax!Writes(d) /\ filing'[d] = filing[d] /\ filing[d].id # id
            /\ filing[d].id \in Tax!Doc /\ Prepared(filing[d].id, filing[d].write[1])
            /\ filing[d].write[1] \in Tax!Document
        BY <1>2, <2>4, <3>5, FilingTyped DEF NumbersSound
      <4>2. CASE filing[d].id \in DOMAIN documents
        BY <2>6, <4>1, <4>2 DEF Prepared
      <4>3. CASE filing[d].id \notin DOMAIN documents
        <5> DEFINE w == filing[d].write[1]
        <5>1. w.number = IF w.kind = "vat_credit" THEN 0 ELSE sequences[w.year] + 1
          BY <4>1, <4>3 DEF Prepared
        <5>2. w.year \in Year
          BY <4>1 DEF Tax!Document
        <5>3. CASE w.kind = "vat_credit"
          BY <2>6, <4>1, <4>3, <5>1, <5>3 DEF Prepared
        <5>4. CASE w.kind # "vat_credit" /\ w.year = doc.year /\ doc.kind # "vat_credit"
          <6>1. Tax!Numbering(d, doc.year)
            BY <2>3, <4>1, <4>3, <5>1, <5>4 DEF Tax!Numbering, Tax!None
          <6>2. Tax!Numbering(c, doc.year)
            BY <1>4, <2>3, <2>10, <3>1, <5>4 DEF Tax!Numbering, Tax!None, id, doc
          <6> QED BY <2>3, <4>1, <6>1, <6>2 DEF NumbersSound
        <5>5. CASE w.kind # "vat_credit" /\ (w.year # doc.year \/ doc.kind = "vat_credit")
          <6>1. sequences'[w.year] = sequences[w.year]
            BY <3>2, <5>2, <5>5
          <6> QED BY <2>6, <4>1, <4>3, <5>1, <5>5, <6>1 DEF Prepared
        <5> QED BY <5>3, <5>4, <5>5
      <4> QED BY <4>2, <4>3
    <3>6. \A d \in DOMAIN documents' : documents'[d].kind = "vat_credit" => documents'[d].number = 0
      BY <2>6, <3>1 DEF NumbersSound
    <3>7. ASSUME NEW y \in Year
          PROVE  /\ \A d \in Tax!NumbersOf(y)' : documents'[d].number \in 1..sequences'[y]
                 /\ \A d, e \in Tax!NumbersOf(y)' : documents'[d].number = documents'[e].number => d = e
                 /\ \A n \in 1..sequences'[y] : \E d \in Tax!NumbersOf(y)' : documents'[d].number = n
      <4>0. /\ \A d \in Tax!NumbersOf(y) : documents[d].number \in 1..sequences[y]
            /\ \A d, e \in Tax!NumbersOf(y) : documents[d].number = documents[e].number => d = e
            /\ \A n \in 1..sequences[y] : \E d \in Tax!NumbersOf(y) : documents[d].number = n
        BY DEF NumbersSound
      <4>1. CASE ~(y = doc.year /\ doc.kind # "vat_credit")
        <5>1. sequences'[y] = sequences[y] /\ Tax!NumbersOf(y)' = Tax!NumbersOf(y)
          BY <3>2, <3>3, <4>1
        <5> QED BY <3>4, <4>0, <5>1
      <4>2. CASE y = doc.year /\ doc.kind # "vat_credit"
        <5>1. sequences'[y] = sequences[y] + 1 /\ Tax!NumbersOf(y)' = Tax!NumbersOf(y) \cup {id}
              /\ documents'[id].number = sequences[y] + 1 /\ sequences[y] \in Nat
          BY <2>3, <2>6, <3>1, <3>2, <3>3, <4>2
        <5>2. \A d \in Tax!NumbersOf(y) : documents'[d].number \in 1..sequences[y]
          BY <3>4, <4>0
        <5>3. \A d, e \in Tax!NumbersOf(y) : documents'[d].number = documents'[e].number => d = e
          BY <3>4, <4>0
        <5>4. \A n \in 1..sequences[y] : \E d \in Tax!NumbersOf(y) : documents'[d].number = n
          BY <3>4, <4>0
        <5> QED BY <5>1, <5>2, <5>3, <5>4
      <4> QED BY <4>1, <4>2
    <3> QED BY <2>5, <2>8, <3>5, <3>6, <3>7 DEF NumbersSound
  <2> QED BY <2>9, <2>10
<1> QED BY <1>3, <1>4

LEMMA NumbersKept == TaxInv /\ Tax!Next => NumbersSound'
<1> SUFFICES ASSUME TaxInv, Tax!Next PROVE NumbersSound'
  OBVIOUS
<1>0. Tax!TypeOK /\ NumbersSound /\ DOMAIN filing = Calls /\ sequences \in [Year -> Nat]
  BY DEF TaxInv, Tax!TypeOK
<1>1. ASSUME NEW c \in Calls, Numbers(c) PROVE NumbersSound'
  <2>1. PICK kind \in {"invoice", "note"}, y \in Year, id \in Tax!Doc :
          /\ Begins(c) /\ Tax!SeriesFree(c, y) /\ Tax!NewDoc(id)
          /\ MovesTo(c, Tax!Appending(id, <<[kind |-> kind, year |-> y, number |-> sequences[y] + 1, status |-> "draft"]>>))
    BY <1>1 DEF Numbers
  <2> DEFINE doc == [kind |-> kind, year |-> y, number |-> sequences[y] + 1, status |-> "draft"]
  <2>2. doc \in Tax!Document
    BY <1>0 DEF Tax!Document, Tax!Kind
  <2>3. doc.kind # "vat_credit" /\ doc.number = sequences[y] + 1 /\ doc.year = y
    OBVIOUS
  <2>4. MovesTo(c, Tax!Appending(id, <<doc>>))
    BY <2>1
  <2> HIDE DEF doc
  <2>5. id \notin DOMAIN documents /\ \A d \in Calls : Tax!Writes(d) => filing[d].id # id
    BY <2>1 DEF Tax!NewDoc
  <2>6. Prepared(id, doc)
    BY <2>3, <2>5 DEF Prepared
  <2> QED BY <1>0, <2>1, <2>2, <2>3, <2>4, <2>5, <2>6, NumbersBegin
<1>2. ASSUME NEW c \in Calls, Opens(c) PROVE NumbersSound'
  <2>1. PICK y \in Year, id \in Tax!Doc :
          /\ Begins(c) /\ Tax!NewDoc(id)
          /\ MovesTo(c, Tax!Appending(id, <<[kind |-> "vat_credit", year |-> y, number |-> 0, status |-> "draft"]>>))
    BY <1>2 DEF Opens
  <2> DEFINE doc == [kind |-> "vat_credit", year |-> y, number |-> 0, status |-> "draft"]
  <2>2. doc \in Tax!Document /\ doc.kind = "vat_credit" /\ doc.number = 0
    BY DEF Tax!Document, Tax!Kind
  <2>4. MovesTo(c, Tax!Appending(id, <<doc>>))
    BY <2>1
  <2> HIDE DEF doc
  <2>5. id \notin DOMAIN documents /\ \A d \in Calls : Tax!Writes(d) => filing[d].id # id
    BY <2>1 DEF Tax!NewDoc
  <2>6. Prepared(id, doc)
    BY <2>2, <2>5 DEF Prepared
  <2> QED BY <1>0, <2>1, <2>2, <2>4, <2>5, <2>6, NumbersBegin
<1>3. ASSUME NEW c \in Calls, Confirms(c) PROVE NumbersSound'
  <2>1. PICK id \in Tax!Doc :
          /\ Begins(c) /\ id \in DOMAIN documents /\ Tax!Confirmable(id)
          /\ MovesTo(c, Tax!Appending(id, <<[documents[id] EXCEPT !.status = "confirmed"]>>))
    BY <1>3 DEF Confirms
  <2> DEFINE doc == [documents[id] EXCEPT !.status = "confirmed"]
  <2>2. /\ doc \in Tax!Document /\ doc.kind = documents[id].kind /\ doc.year = documents[id].year
        /\ doc.number = documents[id].number
    BY <1>0, <2>1 DEF Tax!Document, Tax!TypeOK
  <2>4. MovesTo(c, Tax!Appending(id, <<doc>>))
    BY <2>1
  <2> HIDE DEF doc
  <2>5. \A d \in Calls : Tax!Writes(d) => filing[d].id # id
    BY <2>1 DEF Tax!Confirmable
  <2>6. Prepared(id, doc)
    BY <2>1, <2>2 DEF Prepared
  <2> QED BY <1>0, <2>1, <2>2, <2>4, <2>5, <2>6, NumbersBegin
<1>4. ASSUME documents' = documents, sequences' = sequences, NEW c \in Calls, NEW s, MovesTo(c, s),
             s.at \in {"append", "commit"} /\ s.write # <<>> =>
               Tax!Writes(c) /\ s.id = filing[c].id /\ s.write = filing[c].write
      PROVE  NumbersSound'
  <2>1. \A d \in Calls : Tax!Writes(d)' =>
          Tax!Writes(d) /\ filing'[d].id = filing[d].id /\ filing'[d].write = filing[d].write
    BY <1>0, <1>4 DEF MovesTo, Tax!Writes
  <2> QED BY <1>0, <1>4, <2>1, NumbersStay
<1>5. ASSUME NEW c \in Calls, Traces(c) PROVE NumbersSound'
  <2>1. Tax!Appending(0, <<>>).write = <<>>
    BY DEF Tax!Appending
  <2>2. documents' = documents /\ sequences' = sequences /\ MovesTo(c, Tax!Appending(0, <<>>))
    BY <1>5 DEF Traces
  <2> QED BY <1>4, <2>1, <2>2
<1>6. ASSUME NEW c \in Calls, NEW y \in Year, Tax!BeginYear(c, y) PROVE NumbersSound'
  <2> DEFINE s == [at |-> "read", opening |-> Tax!OpeningCredit(y), months |-> <<>>]
  <2>1. documents' = documents /\ sequences' = sequences /\ MovesTo(c, s) /\ s.at = "read"
    BY <1>6 DEF Tax!BeginYear, Tax!Move, MovesTo
  <2> HIDE DEF s
  <2> QED BY <1>4, <2>1
<1>7. ASSUME NEW c \in Calls, Tax!ReadMonth(c) PROVE NumbersSound'
  <2> DEFINE s == [filing[c] EXCEPT !.months = Append(@, vat[Len(@) + 1])]
  <2>1. documents' = documents /\ sequences' = sequences /\ MovesTo(c, s)
    BY <1>7 DEF Tax!ReadMonth, Tax!Move, MovesTo
  <2>2. s.at = "read"
    <3>1. filing[c] \in Reader
      BY <1>0, <1>7, FilingTyped DEF Tax!ReadMonth
    <3> QED BY <3>1 DEF Reader
  <2> HIDE DEF s
  <2> QED BY <1>4, <2>1, <2>2
<1>8. ASSUME NEW c \in Calls, Tax!AppendAudit(c) PROVE NumbersSound'
  <2> DEFINE s == [filing[c] EXCEPT !.at = "commit", !.row = serial + 1, !.prev = Tax!LastHash(trail)]
  <2>1. documents' = documents /\ sequences' = sequences /\ MovesTo(c, s) /\ filing[c].at = "append"
    BY <1>8 DEF Tax!AppendAudit, Tax!Move, MovesTo
  <2>2. s.id = filing[c].id /\ s.write = filing[c].write
    <3>1. filing[c] \in Writer
      BY <1>0, <2>1, FilingTyped
    <3> QED BY <3>1 DEF Writer
  <2> HIDE DEF s
  <2>3. s.write # <<>> => Tax!Writes(c)
    BY <2>1, <2>2 DEF Tax!Writes
  <2> QED BY <1>4, <2>1, <2>2, <2>3
<1>9. ASSUME NEW c \in Calls, Tax!Rollback(c) PROVE NumbersSound'
  <2>1. documents' = documents /\ sequences' = sequences /\ MovesTo(c, Tax!Idle) /\ Tax!Idle.at = "idle"
    BY <1>9 DEF Tax!Rollback, Tax!Move, MovesTo, Tax!Idle
  <2> QED BY <1>4, <2>1
<1>10. ASSUME NEW m \in Tax!Month, Tax!BooksChange(m) PROVE NumbersSound'
  <2>1. documents' = documents /\ sequences' = sequences /\ filing' = filing
    BY <1>10 DEF Tax!BooksChange
  <2>2. \A d \in Calls : Tax!Writes(d)' <=> Tax!Writes(d)
    BY <2>1 DEF Tax!Writes
  <2> QED BY <1>0, <2>1, <2>2, NumbersStay
<1> QED BY <1>0, <1>1, <1>2, <1>3, <1>5, <1>6, <1>7, <1>8, <1>9, <1>10, NumbersCommit, TaxSteps

LEMMA TaxInit == Tax!Init => TaxInv
<1> SUFFICES ASSUME Tax!Init PROVE TaxInv
  OBVIOUS
<1>1. /\ sequences = [y \in Year |-> 0] /\ documents = <<>> /\ trail = {} /\ serial = 0
      /\ vat = [m \in Tax!Month |-> 1] /\ filing = [c \in Calls |-> Tax!Idle] /\ DOMAIN documents = {}
  BY DEF Tax!Init
<1>2. Tax!TypeOK
  BY <1>1, TaxBounds, CallKinds DEF Tax!TypeOK, Tax!Net
<1>3. \A c \in Calls : filing[c].at = "idle" /\ ~Tax!Writes(c)
  BY <1>1 DEF Tax!Idle, Tax!Writes
<1>4. ChainSound
  BY <1>1, <1>3 DEF ChainSound, Log, Grows, Tax!Verified
<1>5. NumbersSound
  <2>1. \A y \in Year : Tax!NumbersOf(y) = {} /\ 1..sequences[y] = {}
    BY <1>1 DEF Tax!NumbersOf
  <2>2. \A y \in Year, c \in Calls : ~Tax!Numbering(c, y)
    BY <1>3 DEF Tax!Numbering
  <2> QED BY <1>1, <1>3, <2>1, <2>2 DEF NumbersSound
<1> QED BY <1>2, <1>4, <1>5 DEF TaxInv

LEMMA TaxKept == TaxInv /\ [Tax!Next]_taxVars => TaxInv'
<1> SUFFICES ASSUME TaxInv, [Tax!Next]_taxVars PROVE TaxInv'
  OBVIOUS
<1>1. CASE Tax!Next
  BY <1>1, TaxTypesKept, ChainKept, NumbersKept DEF TaxInv
<1>2. CASE UNCHANGED taxVars
  <2>1. /\ sequences' = sequences /\ documents' = documents /\ trail' = trail /\ serial' = serial
        /\ vat' = vat /\ filing' = filing
    BY <1>2 DEF taxVars
  <2>2. Tax!TypeOK' /\ ChainSound'
    BY <2>1 DEF TaxInv, Tax!TypeOK, ChainSound
  <2>3. \A d \in Calls : Tax!Writes(d)' <=> Tax!Writes(d)
    BY <2>1 DEF Tax!Writes
  <2>4. NumbersSound'
    BY <2>1, <2>3, NumbersStay DEF TaxInv
  <2> QED BY <2>2, <2>4 DEF TaxInv
<1> QED BY <1>1, <1>2

LEMMA TaxAlways == Spec => []TaxInv
<1>1. Init => TaxInv
  BY TaxInit DEF Init
<1>2. [Next]_vars => [Tax!Next]_taxVars
  BY DEF Next, vars
<1>3. TaxInv /\ [Next]_vars => TaxInv'
  BY <1>2, TaxKept
<1> QED BY <1>1, <1>3, PTL DEF Spec

\* As many documents as numbers.
LEMMA NumbersAreGapFree == TaxInv => Tax!NumbersGapFree
<1> SUFFICES ASSUME TaxInv, NEW y \in Year
             PROVE  /\ {documents[d].number : d \in Tax!NumbersOf(y)} = 1..sequences[y]
                    /\ Tax!Cardinality(Tax!NumbersOf(y)) = sequences[y]
  BY DEF Tax!NumbersGapFree
<1> DEFINE S == Tax!NumbersOf(y)
           T == 1..sequences[y]
           f == [d \in S |-> documents[d].number]
<1>1. /\ \A d \in S : documents[d].number \in T
      /\ \A d, e \in S : documents[d].number = documents[e].number => d = e
      /\ \A n \in T : \E d \in S : documents[d].number = n
      /\ sequences[y] \in Nat
  BY DEF TaxInv, NumbersSound, Tax!TypeOK
<1>2. {documents[d].number : d \in S} = T
  BY <1>1
<1>3. IsFiniteSet(S)
  <2>1. S \subseteq Tax!Doc /\ IsFiniteSet(Tax!Doc)
    BY IntervalFinite, TaxBounds DEF TaxInv, Tax!TypeOK, Tax!NumbersOf, Tax!Doc
  <2> QED BY <2>1, FS_Subset
<1>4. f \in Bijection(S, T)
  <2> HIDE DEF S, T
  <2>1. f \in [S -> T] /\ \A d \in S : f[d] = documents[d].number
    BY <1>1
  <2>2. f \in Injection(S, T)
    BY <1>1, <2>1 DEF Injection, IsInjective
  <2>3. f \in Surjection(S, T)
    BY <1>1, <2>1 DEF Surjection
  <2> QED BY <2>2, <2>3 DEF Bijection
<1>5. Cardinality(S) = Cardinality(T)
  <2> HIDE DEF S, T, f
  <2>1. ExistsBijection(S, T)
    BY <1>4 DEF ExistsBijection
  <2> QED BY <1>3, <2>1, FS_Bijection
<1>6. Cardinality(T) = sequences[y]
  BY <1>1, FS_Interval
<1> QED BY <1>2, <1>5, <1>6, TaxCard

LEMMA TamperingShows == TaxInv => Tax!ChangesNoticed
<1> SUFFICES ASSUME TaxInv, NEW r \in trail
             PROVE  /\ ~Tax!Verified(Tax!Rewrite(r))
                    /\ ~Tax!LastRow(r) => ~Tax!Verified(trail \ {r})
                    /\ \A q \in trail \ {r} : ~Tax!Verified(Tax!Exchange(r, q))
                    /\ \A id \in 1..serial \ {q.id : q \in trail} : ~Tax!Verified(trail \cup {[r EXCEPT !.id = id]})
  BY DEF Tax!ChangesNoticed
<1>1. Chain(trail)
  BY DEF TaxInv, ChainSound, Chain, Tax!TypeOK
<1>2. \A q \in trail : q \in Rows /\ q.id \in Nat
  BY <1>1 DEF Chain, Log, Rows
<1>3. ~Tax!Verified(Tax!Rewrite(r))
  <2> DEFINE other == [r EXCEPT !.says.wrote = ~@]
  <2>1. /\ r.says \in Tax!Said /\ other.says \in Tax!Said /\ other.says # r.says
        /\ other.id = r.id /\ other.prev = r.prev /\ other.hash = r.hash
    BY <1>2 DEF Rows, Tax!Said
  <2> HIDE DEF other
  <2>2. ~Tax!Verified((trail \ {r}) \cup {other})
    BY <1>1, <2>1, AlteredShows
  <2> QED BY <2>2 DEF Tax!Rewrite, other
<1>4. ASSUME ~Tax!LastRow(r) PROVE ~Tax!Verified(trail \ {r})
  <2>1. PICK q \in trail : ~(q.id <= r.id)
    BY <1>4 DEF Tax!LastRow
  <2>2. r.id < q.id
    BY <1>2, <2>1
  <2> QED BY <1>1, <2>2, RemovedShows
<1>5. ASSUME NEW q \in trail \ {r} PROVE ~Tax!Verified(Tax!Exchange(r, q))
  <2> DEFINE a == [r EXCEPT !.id = q.id]
             b == [q EXCEPT !.id = r.id]
  <2>1. a.id = q.id /\ a.prev = r.prev /\ b.id = r.id /\ b.prev = q.prev
    BY <1>2 DEF Rows
  <2>2. Tax!Exchange(r, q) = (trail \ {r, q}) \cup {a, b}
    BY DEF Tax!Exchange
  <2> HIDE DEF a, b
  <2>3. (trail \ {r, q}) \cup {a, b} = (trail \ {q, r}) \cup {b, a}
    OBVIOUS
  <2>4. CASE r.id < q.id
    BY <1>1, <2>1, <2>2, <2>4, MovedShows
  <2>5. CASE q.id < r.id
    BY <1>1, <2>1, <2>2, <2>3, <2>5, MovedShows
  <2>6. r.id # q.id
    BY <1>1, ChainFacts
  <2> QED BY <1>2, <2>4, <2>5, <2>6
<1>6. ASSUME NEW id \in 1..serial \ {q.id : q \in trail} PROVE ~Tax!Verified(trail \cup {[r EXCEPT !.id = id]})
  <2> DEFINE a == [r EXCEPT !.id = id]
  <2>1. id \in Nat /\ \A q \in trail : q.id # id
    OBVIOUS
  <2>2. a \in Rows /\ a.id = id /\ a.prev = r.prev /\ a.hash = r.hash
    BY <1>2, <2>1 DEF Rows
  <2> HIDE DEF a
  <2>3. ~Tax!Verified(trail \cup {a})
    BY <1>1, <2>1, <2>2, RepeatedShows
  <2> QED BY <2>3 DEF a
<1> QED BY <1>3, <1>4, <1>5, <1>6
-------------------------------------------------------------------------------
(* What a request for a report is answered *)

Working == {"tenant", "read", "bills", "payments", "built", "document"}
Refusals == {"report_held", "report_blocked"}

\* The turn's requests in their order: those before next were dispatched.
MailTypes ==
  /\ turn \in [at: {"open", "replied", "over"}, asked: Seq(Report!Requests), next: Nat \ {0}]
  /\ \A m \in chat : m = <<m[1], m[2]>> /\ m[1] \in 1..Len(turn.asked) /\ m[1] < turn.next
  /\ job.at # "idle" => "no" \in DOMAIN job /\ job.no \in 1..Len(turn.asked) /\ job.no < turn.next
  /\ job.at = "idle" <=> job = Report!Idle

\* A job that works has not answered; it answers with a report of what was asked, or
\* with the refusal it has logged.
JobWorks ==
  /\ job.at \in Working => job.request = turn.asked[job.no]
  /\ job.at \notin {"idle", "delivered"} => \A m \in chat : m[1] # job.no
  /\ job.at \in {"bills", "payments"} => job.request.about # "unknown"
  /\ job.at \in {"built", "document"} /\ job.found => job.request.about # "unknown" \/ job.request.type # "statement"
  /\ job.at \in {"log", "text"} => "action" \in DOMAIN job /\ job.action \in Refusals
  /\ job.at = "text" => <<job.no, job.action>> \in audit
  /\ job.at \in Working \cup {"idle", "log", "text", "delivered"}

MailInv == MailTypes /\ JobWorks /\ Report!OneTrueAnswer /\ Report!RefusalsOnRecord

LEMMA MailInit == Report!Init => MailInv
<1> SUFFICES ASSUME Report!Init PROVE MailInv
  OBVIOUS
<1> DEFINE t == [at |-> "open", asked |-> <<>>, next |-> 1]
<1>1. turn = t /\ job = Report!Idle /\ audit = {} /\ chat = {} /\ Report!Idle.at = "idle"
  BY DEF Report!Init, Report!Idle
<1>2. t \in [at: {"open", "replied", "over"}, asked: Seq(Report!Requests), next: Nat \ {0}]
  OBVIOUS
<1> HIDE DEF t
<1> QED BY <1>1, <1>2 DEF MailInv, MailTypes, JobWorks, Working, Report!OneTrueAnswer, Report!RefusalsOnRecord

\* The job goes on; nobody is told anything yet.
LEMMA GoesOn ==
  ASSUME MailInv, turn' = turn, audit' = audit, chat' = chat, lapsed' = lapsed,
         job.at \in Working, job'.at \in Working, "no" \in DOMAIN job', job'.no = job.no, job'.request = job.request,
         job'.at \in {"bills", "payments"} => job'.request.about # "unknown",
         job'.at \in {"built", "document"} /\ job'.found => job'.request.about # "unknown" \/ job'.request.type # "statement"
  PROVE  MailInv'
<1>1. job.at # "idle" /\ job'.at # "idle" /\ job' # Report!Idle /\ job # Report!Idle /\ job.at # "delivered"
      /\ job'.at \notin {"log", "text", "delivered"}
  BY DEF Working, Report!Idle
<1>2. MailTypes'
  BY <1>1 DEF MailInv, MailTypes
<1>3. JobWorks'
  BY <1>1 DEF MailInv, JobWorks
<1>4. Report!OneTrueAnswer' /\ Report!RefusalsOnRecord'
  BY <1>1 DEF MailInv, Report!OneTrueAnswer, Report!RefusalsOnRecord
<1> QED BY <1>2, <1>3, <1>4 DEF MailInv

\* A job that ends leaves its answer on record, or its request among the lapsed.
LEMMA JobEnds ==
  ASSUME MailInv, turn'.asked = turn.asked, turn'.next = turn.next,
         turn' \in [at: {"open", "replied", "over"}, asked: Seq(Report!Requests), next: Nat \ {0}],
         audit \subseteq audit', chat' = chat, lapsed \subseteq lapsed', job' = Report!Idle,
         job # Report!Idle => job.no \in lapsed' \/ <<job.no, "report_delivered">> \in audit'
  PROVE  MailInv'
<1>1. job'.at = "idle"
  BY DEF Report!Idle
<1>2. MailTypes'
  BY <1>1 DEF MailInv, MailTypes
<1>3. JobWorks'
  BY <1>1 DEF JobWorks, Working
<1>4. Report!OneTrueAnswer'
  BY DEF MailInv, Report!OneTrueAnswer
<1>5. ASSUME NEW m \in chat
      PROVE  IF m[2] = "document"
             THEN <<m[1], "report_delivered">> \in audit' \/ m[1] \in lapsed' \/ (job' # Report!Idle /\ job'.no = m[1])
             ELSE m \in audit'
  BY <1>5 DEF MailInv, Report!RefusalsOnRecord
<1>6. Report!RefusalsOnRecord'
  BY <1>5 DEF Report!RefusalsOnRecord
<1> QED BY <1>2, <1>3, <1>4, <1>6 DEF MailInv

\* A step that says nothing about the job.
LEMMA MailStays ==
  ASSUME MailInv, job' = job, chat' = chat, lapsed' = lapsed, audit \subseteq audit',
         turn' \in [at: {"open", "replied", "over"}, asked: Seq(Report!Requests), next: Nat \ {0}],
         turn'.next = turn.next, Len(turn.asked) <= Len(turn'.asked), Len(turn'.asked) \in Nat, Len(turn.asked) \in Nat,
         \A i \in 1..Len(turn.asked) : turn'.asked[i] = turn.asked[i]
  PROVE  MailInv'
<1>1. MailTypes'
  BY DEF MailInv, MailTypes
<1>2. JobWorks'
  BY DEF MailInv, MailTypes, JobWorks, Working
<1>3. Report!OneTrueAnswer' /\ Report!RefusalsOnRecord'
  BY DEF MailInv, MailTypes, Report!OneTrueAnswer, Report!RefusalsOnRecord
<1> QED BY <1>1, <1>2, <1>3 DEF MailInv

\* What a move of the job to another stage leaves as it is.
LEMMA GotoKeeps ==
  ASSUME NEW at, NEW more, Report!Goto(at, more), {"at", "no", "request"} \cap DOMAIN more = {}, Asked \subseteq DOMAIN job
  PROVE  /\ job'.at = at /\ job'.no = job.no /\ job'.request = job.request /\ "no" \in DOMAIN job'
         /\ "found" \in DOMAIN more => job'.found = more.found
         /\ "found" \in DOMAIN job \ DOMAIN more => job'.found = job.found
         /\ turn' = turn /\ audit' = audit /\ chat' = chat /\ lapsed' = lapsed
<1>1. /\ turn' = turn /\ audit' = audit /\ chat' = chat /\ lapsed' = lapsed
  BY DEF Report!Goto
<1>2. "at" \notin DOMAIN more /\ "no" \notin DOMAIN more /\ "request" \notin DOMAIN more
      /\ "at" \in DOMAIN job /\ "no" \in DOMAIN job /\ "request" \in DOMAIN job
  BY DEF Asked
<1>3. /\ DOMAIN job' = DOMAIN more \cup DOMAIN job /\ job'.at = at
      /\ \A x \in DOMAIN more : job'[x] = more[x]
      /\ \A x \in DOMAIN job \ (DOMAIN more \cup {"at"}) : job'[x] = job[x]
  BY <1>2, GotoEffect
<1>4. job'["no"] = job["no"] /\ job'["request"] = job["request"]
  BY <1>2, <1>3
<1>5. ("found" \in DOMAIN more => job'["found"] = more["found"])
      /\ ("found" \in DOMAIN job \ DOMAIN more => job'["found"] = job["found"])
  BY <1>3
<1> QED BY <1>1, <1>2, <1>3, <1>4, <1>5

LEMMA ReadMail ==
  ASSUME ReportInv, MailInv,
         \/ Report!Connect \/ Report!ReadOpen \/ Report!ReadSales \/ Report!ReadInvoices \/ Report!ReadBills
         \/ Report!ReadPayments \/ Report!Render
  PROVE  MailInv'
<1> DEFINE Yes(rows) == Report!Answer(rows)
<1>1. \A rows : DOMAIN Yes(rows) = Answered /\ Yes(rows).found = TRUE
  BY DEF Report!Answer, Answered
<1>2. {"at", "no", "request"} \cap Answered = {} /\ "found" \in Answered
  BY DEF Answered
<1> HIDE DEF Yes
<1>3. job.at \in Working => Asked \subseteq DOMAIN job
  BY DEF ReportInv, JobShape, Working
<1>4. CASE Report!Connect
  <2>1. job.at = "tenant" /\ Report!Goto("read", <<>>) /\ DOMAIN <<>> = {}
    BY <1>4 DEF Report!Connect, Report!Nothing
  <2>2. {"at", "no", "request"} \cap DOMAIN <<>> = {}
    BY <2>1
  <2> QED BY <1>3, <2>1, <2>2, GotoKeeps, GoesOn DEF Working
<1>5. ASSUME NEW rows, job.at = "read", Report!Goto("built", Yes(rows)),
             job.request.type # "statement" \/ job.request.about # "unknown"
      PROVE  MailInv'
  <2>1. /\ job'.at = "built" /\ job'.no = job.no /\ job'.request = job.request /\ "no" \in DOMAIN job'
        /\ turn' = turn /\ audit' = audit /\ chat' = chat /\ lapsed' = lapsed
    BY <1>1, <1>2, <1>3, <1>5, GotoKeeps DEF Working
  <2> QED BY <1>5, <2>1, GoesOn DEF Working
<1>6. CASE Report!ReadOpen
  <2>1. job.at = "read" /\ job.request.type # "statement" /\ \E rows : Report!Goto("built", Yes(rows))
    BY <1>6 DEF Report!ReadOpen, Yes
  <2> QED BY <1>5, <2>1
<1>7. CASE Report!ReadSales
  <2>1. job.at = "read" /\ job.request.type # "statement" /\ \E rows : Report!Goto("built", Yes(rows))
    BY <1>7 DEF Report!ReadSales, Yes
  <2> QED BY <1>5, <2>1
<1>8. CASE Report!ReadInvoices
  <2>1. job.at = "read"
    BY <1>8 DEF Report!ReadInvoices
  <2>2. ASSUME NEW rows, job.request.about = "known", Report!Goto("bills", Yes(rows)) PROVE MailInv'
    <3>1. /\ job'.at = "bills" /\ job'.no = job.no /\ job'.request = job.request /\ "no" \in DOMAIN job'
          /\ turn' = turn /\ audit' = audit /\ chat' = chat /\ lapsed' = lapsed
      BY <1>1, <1>2, <1>3, <2>1, <2>2, GotoKeeps DEF Working
    <3> QED BY <2>1, <2>2, <3>1, GoesOn DEF Working
  <2>3. ASSUME Report!Goto("built", [Yes({}) EXCEPT !.found = FALSE]) PROVE MailInv'
    <3> DEFINE more == [Yes({}) EXCEPT !.found = FALSE]
    <3>1. DOMAIN more = Answered /\ more.found = FALSE
      BY <1>1, <1>2
    <3>2. Report!Goto("built", more)
      BY <2>3
    <3> HIDE DEF more
    <3>3. /\ job'.at = "built" /\ job'.no = job.no /\ job'.request = job.request /\ "no" \in DOMAIN job'
          /\ job'.found = FALSE
          /\ turn' = turn /\ audit' = audit /\ chat' = chat /\ lapsed' = lapsed
      BY <1>2, <1>3, <2>1, <3>1, <3>2, GotoKeeps DEF Working
    <3> QED BY <2>1, <3>3, GoesOn DEF Working
  <2> QED BY <1>8, <2>2, <2>3 DEF Report!ReadInvoices, Yes
<1>9. CASE Report!ReadBills
  <2> DEFINE more == [rows |-> job.rows \cup Report!Listed("bill", Report!Credit)]
  <2>1. job.at = "bills" /\ Report!Goto("payments", more) /\ DOMAIN more = {"rows"}
    BY <1>9 DEF Report!ReadBills
  <2> HIDE DEF more
  <2>2. /\ job'.at = "payments" /\ job'.no = job.no /\ job'.request = job.request /\ "no" \in DOMAIN job'
        /\ turn' = turn /\ audit' = audit /\ chat' = chat /\ lapsed' = lapsed
    BY <1>3, <2>1, GotoKeeps DEF Working
  <2>3. job.request.about # "unknown"
    BY <2>1 DEF MailInv, JobWorks
  <2> QED BY <2>1, <2>2, <2>3, GoesOn DEF Working
<1>10. CASE Report!ReadPayments
  <2> DEFINE all == job.rows \cup Report!PaymentRows
             more == [rows |-> all, total |-> Report!SumOf(all), torn |-> confirmed # job.seen]
  <2>1. job.at = "payments" /\ Report!Goto("built", more) /\ DOMAIN more = {"rows", "total", "torn"}
    BY <1>10 DEF Report!ReadPayments
  <2> HIDE DEF more
  <2>2. /\ job'.at = "built" /\ job'.no = job.no /\ job'.request = job.request /\ "no" \in DOMAIN job'
        /\ turn' = turn /\ audit' = audit /\ chat' = chat /\ lapsed' = lapsed
    BY <1>3, <2>1, GotoKeeps DEF Working
  <2>3. job.request.about # "unknown"
    BY <2>1 DEF MailInv, JobWorks
  <2> QED BY <2>1, <2>2, <2>3, GoesOn DEF Working
<1>11. CASE Report!Render
  <2>1. job.at = "built" /\ job.found /\ Report!Goto("document", <<>>) /\ DOMAIN <<>> = {}
    BY <1>11 DEF Report!Render, Report!Nothing, Report!Reconciled
  <2>2. {"at", "no", "request"} \cap DOMAIN <<>> = {}
    BY <2>1
  <2>3. /\ job'.at = "document" /\ job'.no = job.no /\ job'.request = job.request /\ "no" \in DOMAIN job'
        /\ turn' = turn /\ audit' = audit /\ chat' = chat /\ lapsed' = lapsed
    BY <1>3, <2>1, <2>2, GotoKeeps DEF Working
  <2>4. job.request.about # "unknown" \/ job.request.type # "statement"
    BY <2>1 DEF MailInv, JobWorks
  <2> QED BY <2>1, <2>3, <2>4, GoesOn DEF Working
<1> QED BY <1>4, <1>6, <1>7, <1>8, <1>9, <1>10, <1>11

LEMMA MailKept == ReportInv /\ MailInv /\ [Report!Next]_reportVars => MailInv'
<1> SUFFICES ASSUME ReportInv, MailInv, [Report!Next]_reportVars PROVE MailInv'
  OBVIOUS
<1> DEFINE Turns == [at: {"open", "replied", "over"}, asked: Seq(Report!Requests), next: Nat \ {0}]
<1>0. /\ turn \in Turns /\ "at" \in DOMAIN job /\ turn.asked \in Seq(Report!Requests) /\ Len(turn.asked) \in Nat
      /\ turn.next \in Nat \ {0}
  BY DEF ReportInv, JobShape, MailInv, MailTypes
<1>1. ASSUME job' = job, chat' = chat, lapsed' = lapsed, audit' = audit, turn' = turn PROVE MailInv'
  BY <1>0, <1>1, MailStays
<1>2. ASSUME NEW e \in Report!Entries, Report!Confirm(e) PROVE MailInv'
  BY <1>1, <1>2 DEF Report!Confirm
<1>3. ASSUME NEW r \in Report!Requests, Report!Ask(r) PROVE MailInv'
  <2> DEFINE more == Append(turn.asked, r)
  <2>1. more \in Seq(Report!Requests) /\ Len(more) = Len(turn.asked) + 1
        /\ \A i \in 1..Len(turn.asked) : more[i] = turn.asked[i]
    BY <1>0
  <2>2. turn' = [turn EXCEPT !.asked = more] /\ job' = job /\ chat' = chat /\ lapsed' = lapsed /\ audit \subseteq audit'
    BY <1>3 DEF Report!Ask
  <2> HIDE DEF more
  <2>3. turn' \in Turns /\ turn'.next = turn.next /\ turn'.asked = more
    BY <1>0, <2>1, <2>2
  <2> QED BY <1>0, <2>1, <2>2, <2>3, MailStays
<1>4. ASSUME NEW sent \in BOOLEAN, Report!Reply(sent) PROVE MailInv'
  <2>1. turn' \in Turns /\ turn'.next = turn.next /\ turn'.asked = turn.asked
    BY <1>0, <1>4 DEF Report!Reply
  <2> QED BY <1>0, <1>4, <2>1, MailStays DEF Report!Reply
<1>5. CASE Report!Dispatch
  <2> DEFINE x == [at |-> "tenant", no |-> turn.next, request |-> turn.asked[turn.next]]
  <2>1. /\ job = Report!Idle /\ turn.next <= Len(turn.asked)
        /\ turn' = [turn EXCEPT !.next = @ + 1] /\ job' = x /\ audit' = audit /\ chat' = chat /\ lapsed' = lapsed
    BY <1>5 DEF Report!Dispatch
  <2>2. x.at = "tenant" /\ x.no = turn.next /\ x.request = turn.asked[turn.next] /\ "no" \in DOMAIN x
    OBVIOUS
  <2> HIDE DEF x
  <2>3. turn' \in Turns /\ turn'.next = turn.next + 1 /\ turn'.asked = turn.asked
    BY <1>0, <2>1
  <2>4. x # Report!Idle
    BY <2>2 DEF Report!Idle
  <2>5. MailTypes'
    BY <1>0, <2>1, <2>2, <2>3, <2>4 DEF MailInv, MailTypes
  <2>6. JobWorks'
    BY <1>0, <2>1, <2>2, <2>3 DEF MailInv, MailTypes, JobWorks, Working
  <2>7. Report!OneTrueAnswer' /\ Report!RefusalsOnRecord'
    BY <2>1, <2>3 DEF MailInv, Report!OneTrueAnswer, Report!RefusalsOnRecord
  <2> QED BY <2>5, <2>6, <2>7 DEF MailInv
<1>6. ASSUME NEW action \in Refusals, Report!Refuse(action), job.at \in {"read", "bills", "payments", "built"}
      PROVE  MailInv'
  <2> DEFINE x == [at |-> "log", no |-> job.no, action |-> action]
  <2>1. job' = x /\ turn' = turn /\ audit' = audit /\ chat' = chat /\ lapsed' = lapsed
    BY <1>6 DEF Report!Refuse
  <2>2. x.at = "log" /\ x.no = job.no /\ x.action = action /\ "no" \in DOMAIN x /\ "action" \in DOMAIN x
    OBVIOUS
  <2> HIDE DEF x
  <2>3. x # Report!Idle
    BY <2>2 DEF Report!Idle
  <2>4. MailTypes'
    BY <1>6, <2>1, <2>2, <2>3 DEF MailInv, MailTypes
  <2>5. JobWorks'
    BY <1>6, <2>1, <2>2 DEF MailInv, JobWorks, Working
  <2>6. Report!OneTrueAnswer' /\ Report!RefusalsOnRecord'
    BY <2>1, <2>2, <2>3 DEF MailInv, Report!OneTrueAnswer, Report!RefusalsOnRecord
  <2> QED BY <2>4, <2>5, <2>6 DEF MailInv
<1>7. CASE Report!Hold \/ Report!Block \/ Report!NoPdf
  BY <1>6, <1>7 DEF Report!Hold, Report!Block, Report!NoPdf, Refusals
<1>8. ASSUME Report!Throw, audit' = audit, chat' = chat PROVE MailInv'
  <2>1. job' = Report!Idle /\ turn' = turn /\ lapsed' = lapsed \cup {job.no}
    BY <1>8 DEF Report!Throw
  <2> QED BY <1>0, <1>8, <2>1, JobEnds
<1>9. ASSUME NEW ok \in BOOLEAN, Report!LogRefusal(ok) PROVE MailInv'
  <2>1. CASE Report!Throw /\ UNCHANGED <<audit, chat>>
    BY <1>8, <2>1
  <2>2. CASE /\ audit' = audit \cup {<<job.no, job.action>>} /\ job' = [job EXCEPT !.at = "text"]
             /\ turn' = turn /\ chat' = chat /\ lapsed' = lapsed
    <3>1. /\ job.at = "log" /\ "no" \in DOMAIN job /\ "action" \in DOMAIN job
      BY <1>9 DEF Report!LogRefusal, MailInv, MailTypes, JobWorks
    <3>2. /\ job'.at = "text" /\ job'.no = job.no /\ job'.action = job.action /\ "no" \in DOMAIN job'
          /\ "action" \in DOMAIN job'
      BY <1>0, <2>2, <3>1
    <3>3. job' # Report!Idle /\ job # Report!Idle
      BY <3>1, <3>2 DEF Report!Idle
    <3>4. MailTypes'
      BY <2>2, <3>1, <3>2, <3>3 DEF MailInv, MailTypes
    <3>5. JobWorks'
      BY <2>2, <3>1, <3>2 DEF MailInv, JobWorks, Working
    <3>6. Report!OneTrueAnswer' /\ Report!RefusalsOnRecord'
      BY <2>2, <3>2, <3>3 DEF MailInv, Report!OneTrueAnswer, Report!RefusalsOnRecord
    <3> QED BY <3>4, <3>5, <3>6 DEF MailInv
  <2> QED BY <1>9, <2>1, <2>2 DEF Report!LogRefusal
<1>10. ASSUME NEW ok \in BOOLEAN, Report!SendText(ok) PROVE MailInv'
  <2>1. CASE Report!Throw /\ audit' = audit /\ chat' = chat
    BY <1>8, <2>1
  <2>2. CASE /\ chat' = chat \cup {<<job.no, job.action>>} /\ job' = Report!Idle
             /\ turn' = turn /\ audit' = audit /\ lapsed' = lapsed
    <3>1. /\ job.at = "text" /\ job.no \in 1..Len(turn.asked) /\ job.no < turn.next
          /\ job.action # "document" /\ <<job.no, job.action>> \in audit /\ \A m \in chat : m[1] # job.no
      BY <1>10 DEF Report!SendText, MailInv, MailTypes, JobWorks, Refusals
    <3> DEFINE a == <<job.no, job.action>>
    <3>2. a[1] = job.no /\ a[2] = job.action /\ a = <<a[1], a[2]>> /\ chat' = chat \cup {a} /\ a \in audit
      BY <2>2, <3>1
    <3> HIDE DEF a
    <3>3. job'.at = "idle"
      BY <2>2 DEF Report!Idle
    <3>4. MailTypes'
      BY <2>2, <3>1, <3>2, <3>3 DEF MailInv, MailTypes
    <3>5. JobWorks'
      BY <3>3 DEF JobWorks, Working
    <3>6. \A m \in chat : m[2] = "document" => m[1] # job.no
      BY <3>1
    <3>7. Report!OneTrueAnswer' /\ Report!RefusalsOnRecord'
      BY <2>2, <3>1, <3>2, <3>6 DEF MailInv, Report!OneTrueAnswer, Report!RefusalsOnRecord
    <3> QED BY <3>4, <3>5, <3>7 DEF MailInv
  <2> QED BY <1>10, <2>1, <2>2 DEF Report!SendText
<1>11. ASSUME NEW ok \in BOOLEAN, Report!SendDocument(ok) PROVE MailInv'
  <2>1. CASE Report!Throw /\ audit' = audit /\ chat' = chat
    BY <1>8, <2>1
  <2>2. CASE /\ chat' = chat \cup {<<job.no, "document">>} /\ job' = [at |-> "delivered", no |-> job.no]
             /\ turn' = turn /\ audit' = audit /\ lapsed' = lapsed
    <3>1. /\ job.at = "document" /\ job.no \in 1..Len(turn.asked) /\ job.no < turn.next
          /\ (\A m \in chat : m[1] # job.no) /\ job.request = turn.asked[job.no]
          /\ job.request.about # "unknown" \/ job.request.type # "statement"
      BY <1>11 DEF Report!SendDocument, MailInv, MailTypes, JobWorks, Working, ReportInv, JobSound
    <3> DEFINE a == <<job.no, "document">>
               x == [at |-> "delivered", no |-> job.no]
    <3>2. /\ a[1] = job.no /\ a[2] = "document" /\ a = <<a[1], a[2]>> /\ chat' = chat \cup {a}
          /\ job' = x /\ x.at = "delivered" /\ x.no = job.no /\ "no" \in DOMAIN x
      BY <2>2
    <3> HIDE DEF a, x
    <3>3. x # Report!Idle
      BY <3>2 DEF Report!Idle
    <3>4. MailTypes'
      BY <2>2, <3>1, <3>2, <3>3 DEF MailInv, MailTypes
    <3>5. JobWorks'
      BY <3>2 DEF JobWorks, Working
    <3>6. \A m \in chat : m[2] = "document" => <<m[1], "report_delivered">> \in audit \/ m[1] \in lapsed
      BY <3>1 DEF MailInv, Report!RefusalsOnRecord
    <3>7. Report!OneTrueAnswer' /\ Report!RefusalsOnRecord'
      BY <2>2, <3>1, <3>2, <3>3, <3>6 DEF MailInv, Report!OneTrueAnswer, Report!RefusalsOnRecord
    <3> QED BY <3>4, <3>5, <3>7 DEF MailInv
  <2> QED BY <1>11, <2>1, <2>2 DEF Report!SendDocument
<1>12. ASSUME NEW ok \in BOOLEAN, Report!LogDelivery(ok) PROVE MailInv'
  <2>1. CASE Report!Throw /\ audit' = audit /\ chat' = chat
    BY <1>8, <2>1
  <2>2. CASE /\ audit' = audit \cup {<<job.no, "report_delivered">>} /\ job' = Report!Idle
             /\ turn' = turn /\ chat' = chat /\ lapsed' = lapsed
    BY <1>0, <2>2, JobEnds
  <2> QED BY <1>12, <2>1, <2>2 DEF Report!LogDelivery
<1>13. CASE Report!Unreachable
  BY <1>8, <1>13 DEF Report!Unreachable
<1>14. CASE Report!Kill
  <2>1. turn' \in Turns /\ turn'.next = turn.next /\ turn'.asked = turn.asked
    BY <1>0, <1>14 DEF Report!Kill
  <2>2. /\ job' = Report!Idle /\ audit' = audit /\ chat' = chat /\ lapsed \subseteq lapsed'
        /\ job # Report!Idle => job.no \in lapsed'
    BY <1>14 DEF Report!Kill
  <2> QED BY <2>1, <2>2, JobEnds
<1>15. CASE UNCHANGED reportVars
  BY <1>1, <1>15 DEF reportVars
<1>16. CASE Report!Job
  BY <1>7, <1>9, <1>10, <1>11, <1>12, <1>13, <1>16, ReadMail DEF Report!Job
<1> QED BY <1>2, <1>3, <1>4, <1>5, <1>14, <1>15, <1>16 DEF Report!Next

LEMMA MailAlways == Spec => []MailInv
<1>1. Init => MailInv
  BY MailInit DEF Init
<1>2. [Next]_vars => [Report!Next]_reportVars
  BY DEF Next, vars
<1>3. ReportInv /\ MailInv /\ [Next]_vars => MailInv'
  BY <1>2, MailKept
<1> QED BY <1>1, <1>3, ReportAlways, PTL DEF Spec

\* The numbers of a fiscal year are 1, 2, 3 and so on (allocateNumber), the audit log is
\* one chain that shows every row altered, removed from the middle, moved or repeated
\* (appendAudit, verifyAuditChain), and a request for a report has one answer, of which the
\* log knows (runReportJob), whatever overlaps, is rolled back or is cut off.
THEOREM PaperTrailIsComplete == Spec => []PaperTrail
<1>1. TaxInv /\ MailInv => PaperTrail
  BY NumbersAreGapFree, TamperingShows DEF PaperTrail, TaxInv, ChainSound, MailInv, Tax!ChainVerifies
<1> QED BY <1>1, TaxAlways, MailAlways, PTL
-------------------------------------------------------------------------------
(* The yearly roll-up: what FoldLeft of the library makes of the months *)

Top(s) == CHOOSE x \in s : \A y \in s : x >= y

LEMMA TopIn ==
  ASSUME NEW s, IsFiniteSet(s), s \subseteq Nat, s # {}
  PROVE  Top(s) \in s
<1> DEFINE B == {T \in SUBSET s : T # {} /\ \A x \in T : \E y \in T : ~(x >= y)}
<1>1. B = {}
  <2> SUFFICES ASSUME B # {} PROVE FALSE
    OBVIOUS
  <2>1. PICK T \in B : \A x \in T : T \ {x} \notin B
    <3> HIDE DEF B
    <3>1. B \subseteq SUBSET s
      BY DEF B
    <3> QED BY <3>1, MinimalSubset
  <2>2. PICK x \in T : TRUE
    OBVIOUS
  <2>3. PICK y \in T : ~(x >= y)
    BY <2>2
  <2>4. PICK m \in T \ {x} : \A z \in T \ {x} : m >= z
    BY <2>1, <2>2, <2>3
  <2>5. m > x
    BY <2>2, <2>3, <2>4
  <2>6. \A z \in T : m >= z
    BY <2>4, <2>5
  <2> QED BY <2>4, <2>6
<1>2. \E x \in s : \A y \in s : x >= y
  BY <1>1
<1> QED BY <1>2 DEF Top

Start(opening) == [carry |-> opening, payable |-> 0]

OneMonth(sum, net) ==
  [carry |-> Tax!SettleMonth(net, sum.carry).carry,
   payable |-> sum.payable + Tax!SettleMonth(net, sum.carry).payable]

\* g is the function AnnualVatSummary defines by recursion over the sets of months.
Rolls(g, f, opening, S) ==
  g = [s \in SUBSET S |-> IF s = {} THEN Start(opening) ELSE OneMonth(g[s \ {Top(s)}], f[Top(s)])]

Rolled(f, opening, S) == (CHOOSE g : Rolls(g, f, opening, S))[S]

LEMMA RollIsChosen ==
  ASSUME NEW f, NEW opening
  PROVE  Tax!AnnualVatSummary(f, opening) = Rolled(f, opening, DOMAIN f)
BY DEF Tax!AnnualVatSummary, Tax!FoldLeft, Tax!MapThenFoldSet, Tax!Max, Top, Rolls, Rolled, OneMonth, Start

\* Two such functions agree where both are defined.
LEMMA RollsAgree ==
  ASSUME NEW S, IsFiniteSet(S), S \subseteq Nat, NEW f, NEW opening, NEW g, NEW h, NEW A, NEW C,
         Rolls(g, f, opening, A), Rolls(h, f, opening, C), S \subseteq A, S \subseteq C
  PROVE  g[S] = h[S]
<1> DEFINE B == {T \in SUBSET S : g[T] # h[T]}
<1> SUFFICES ASSUME B # {} PROVE FALSE
  OBVIOUS
<1>1. PICK T \in B : \A x \in T : T \ {x} \notin B
  <2> HIDE DEF B
  <2>1. B \subseteq SUBSET S
    BY DEF B
  <2> QED BY <2>1, MinimalSubset
<1>2. T \in SUBSET A /\ T \in SUBSET C
  OBVIOUS
<1>3. /\ g[T] = IF T = {} THEN Start(opening) ELSE OneMonth(g[T \ {Top(T)}], f[Top(T)])
      /\ h[T] = IF T = {} THEN Start(opening) ELSE OneMonth(h[T \ {Top(T)}], f[Top(T)])
  BY <1>2 DEF Rolls
<1>4. T # {}
  BY <1>1, <1>3
<1>5. Top(T) \in T
  <2>1. IsFiniteSet(T) /\ T \subseteq Nat
    BY FS_Subset
  <2> QED BY <2>1, <1>4, TopIn
<1>6. g[T \ {Top(T)}] = h[T \ {Top(T)}]
  BY <1>1, <1>5
<1> QED BY <1>1, <1>3, <1>4, <1>6

\* The restriction of such a function to fewer sets of months is one.
LEMMA RollsBelow ==
  ASSUME NEW f, NEW opening, NEW g, NEW A, NEW C, Rolls(g, f, opening, A), C \subseteq A
  PROVE  Rolls([s \in SUBSET C |-> g[s]], f, opening, C)
<1> DEFINE h == [s \in SUBSET C |-> g[s]]
<1>1. ASSUME NEW s \in SUBSET C
      PROVE  h[s] = IF s = {} THEN Start(opening) ELSE OneMonth(h[s \ {Top(s)}], f[Top(s)])
  <2>1. s \in SUBSET A /\ s \ {Top(s)} \in SUBSET C
    OBVIOUS
  <2>2. g[s] = IF s = {} THEN Start(opening) ELSE OneMonth(g[s \ {Top(s)}], f[Top(s)])
    BY <2>1 DEF Rolls
  <2>3. h[s] = g[s] /\ h[s \ {Top(s)}] = g[s \ {Top(s)}]
    BY <2>1
  <2> HIDE DEF h
  <2> QED BY <2>2, <2>3
<1> QED BY <1>1 DEF Rolls

\* There is one for every finite set of months.
LEMMA RollsExists ==
  ASSUME NEW S, IsFiniteSet(S), S \subseteq Nat, NEW f, NEW opening
  PROVE  \E g : Rolls(g, f, opening, S)
<1> DEFINE B == {T \in SUBSET S : ~ \E g : Rolls(g, f, opening, T)}
           R(s) == Rolled(f, opening, s)
<1> SUFFICES ASSUME B # {} PROVE FALSE
  OBVIOUS
<1>1. PICK T \in B : \A x \in T : T \ {x} \notin B
  <2> HIDE DEF B
  <2>1. B \subseteq SUBSET S
    BY DEF B
  <2> QED BY <2>1, MinimalSubset
<1>2. ASSUME NEW s \in SUBSET T, s # T PROVE \E g : Rolls(g, f, opening, s)
  <2>1. PICK x \in T : s \subseteq T \ {x}
    BY <1>2
  <2>2. PICK g : Rolls(g, f, opening, T \ {x})
    BY <1>1
  <2> QED BY <2>1, <2>2, RollsBelow
<1>3. ASSUME NEW s \in SUBSET T, s # T
      PROVE  R(s) = IF s = {} THEN Start(opening) ELSE OneMonth(R(s \ {Top(s)}), f[Top(s)])
  <2>1. PICK g : g = (CHOOSE a : Rolls(a, f, opening, s)) /\ Rolls(g, f, opening, s)
    BY <1>2, <1>3
  <2>2. R(s) = g[s]
    BY <2>1 DEF Rolled
  <2>3. g[s] = IF s = {} THEN Start(opening) ELSE OneMonth(g[s \ {Top(s)}], f[Top(s)])
    BY <2>1 DEF Rolls
  <2>4. ASSUME s # {} PROVE g[s \ {Top(s)}] = R(s \ {Top(s)})
    <3> DEFINE u == s \ {Top(s)}
    <3>1. u \in SUBSET T /\ u # T /\ u \subseteq s
      BY <1>3
    <3>2. PICK h : h = (CHOOSE a : Rolls(a, f, opening, u)) /\ Rolls(h, f, opening, u)
      BY <1>2, <3>1
    <3>3. IsFiniteSet(u) /\ u \subseteq Nat
      BY <3>1, FS_Subset
    <3>4. g[u] = h[u]
      <4> HIDE DEF u, R, B
      <4> QED BY <2>1, <3>1, <3>2, <3>3, RollsAgree
    <3> QED BY <3>2, <3>4 DEF Rolled
  <2> HIDE DEF R, B
  <2> QED BY <2>2, <2>3, <2>4
<1> DEFINE h == [s \in SUBSET T |-> IF s = {} THEN Start(opening) ELSE OneMonth(R(s \ {Top(s)}), f[Top(s)])]
<1>4. ASSUME NEW s \in SUBSET T, s # {} PROVE h[s \ {Top(s)}] = R(s \ {Top(s)})
  <2> DEFINE u == s \ {Top(s)}
  <2>0. IsFiniteSet(s) /\ s \subseteq Nat
    BY FS_Subset
  <2>1. u \in SUBSET T /\ u # T
    BY <1>4, <2>0, TopIn
  <2>2. R(u) = IF u = {} THEN Start(opening) ELSE OneMonth(R(u \ {Top(u)}), f[Top(u)])
    <3> HIDE DEF u, R
    <3> QED BY <2>1, <1>3
  <2> HIDE DEF u, R
  <2>3. h[u] = IF u = {} THEN Start(opening) ELSE OneMonth(R(u \ {Top(u)}), f[Top(u)])
    BY <2>1
  <2> QED BY <2>2, <2>3 DEF u
<1>5. h = [s \in SUBSET T |-> IF s = {} THEN Start(opening) ELSE OneMonth(h[s \ {Top(s)}], f[Top(s)])]
  <2> HIDE DEF R, B
  <2>1. ASSUME NEW s \in SUBSET T
        PROVE  h[s] = IF s = {} THEN Start(opening) ELSE OneMonth(h[s \ {Top(s)}], f[Top(s)])
    BY <1>4
  <2> HIDE DEF h
  <2>2. DOMAIN h = SUBSET T /\ h = [s \in DOMAIN h |-> h[s]]
    BY DEF h
  <2> QED BY <2>1, <2>2
<1>6. Rolls(h, f, opening, T)
  <2> HIDE DEF h
  <2> QED BY <1>5 DEF Rolls
<1> QED BY <1>6, <1>1

LEMMA RollStep ==
  ASSUME NEW f, NEW opening, NEW S, IsFiniteSet(S), S \subseteq Nat
  PROVE  Rolled(f, opening, S) =
           IF S = {} THEN Start(opening) ELSE OneMonth(Rolled(f, opening, S \ {Top(S)}), f[Top(S)])
<1> DEFINE U == S \ {Top(S)}
<1>1. PICK g : g = (CHOOSE a : Rolls(a, f, opening, S)) /\ Rolls(g, f, opening, S)
  BY RollsExists
<1>2. IsFiniteSet(U) /\ U \subseteq S /\ U \subseteq Nat
  BY FS_Subset
<1>3. PICK h : h = (CHOOSE a : Rolls(a, f, opening, U)) /\ Rolls(h, f, opening, U)
  BY <1>2, RollsExists
<1>4. g[U] = h[U]
  <2> HIDE DEF U
  <2> QED BY <1>1, <1>2, <1>3, RollsAgree
<1>5. g[S] = IF S = {} THEN Start(opening) ELSE OneMonth(g[U], f[Top(S)])
  BY <1>1 DEF Rolls
<1> QED BY <1>1, <1>3, <1>4, <1>5 DEF Rolled

\* A month's VAT is met by what was brought forward, or carries the rest on.
LEMMA MonthBalances ==
  ASSUME NEW carry \in Int, NEW payable \in Int, NEW net \in Int, NEW sum,
         sum.carry = carry, sum.payable = payable
  PROVE  /\ OneMonth(sum, net).carry \in Int /\ OneMonth(sum, net).payable \in Int
         /\ OneMonth(sum, net).carry - OneMonth(sum, net).payable = (carry - payable) - net
BY DEF OneMonth, Tax!SettleMonth, Tax!Excess

LEMMA RollBalances ==
  ASSUME NEW f, NEW opening \in Int, NEW S, IsFiniteSet(S), S \subseteq Nat, \A x \in S : f[x] \in Int
  PROVE  Rolled(f, opening, S).carry - Rolled(f, opening, S).payable = opening - SumFunctionOnSet(f, S)
<1> DEFINE c(T) == Rolled(f, opening, T).carry
           p(T) == Rolled(f, opening, T).payable
           Sum(T) == SumFunctionOnSet(f, T)
           Good(T) == c(T) \in Int /\ p(T) \in Int /\ c(T) - p(T) = opening - Sum(T)
           B == {T \in SUBSET S : ~Good(T)}
<1> SUFFICES ASSUME B # {} PROVE FALSE
  OBVIOUS
<1>1. PICK T \in B : \A x \in T : T \ {x} \notin B
  <2> HIDE DEF B
  <2>1. B \subseteq SUBSET S
    BY DEF B
  <2> QED BY <2>1, MinimalSubset
<1>2. IsFiniteSet(T) /\ T \subseteq Nat /\ \A x \in T : f[x] \in Int
  BY FS_Subset
<1>3. T # {}
  <2>1. Rolled(f, opening, {}) = Start(opening)
    BY RollStep, FS_EmptySet
  <2>2. Good({})
    BY <2>1, SumEmpty DEF Start
  <2> QED BY <2>2, <1>1
<1> DEFINE t == Top(T)
           u == T \ {t}
<1>4. t \in T /\ f[t] \in Int
  BY <1>2, <1>3, TopIn
<1>5. Good(u)
  BY <1>1, <1>4
<1>6. Rolled(f, opening, T) = OneMonth(Rolled(f, opening, u), f[t])
  BY <1>2, <1>3, RollStep
<1>7. Sum(T) = f[t] + Sum(u)
  <2>1. ASSUME NEW x \in T PROVE SumFunctionOnSet(f, T) = f[x] + SumFunctionOnSet(f, T \ {x})
    <3> HIDE DEF B, t, u, c, p, Sum, Good
    <3>1. IsFiniteSet(T) /\ \A y \in T : f[y] \in Int
      BY <1>2
    <3> QED BY <3>1, SumStep
  <2> HIDE DEF t
  <2> QED BY <1>4, <2>1
<1>8. Sum(u) \in Int
  <2>1. IsFiniteSet(u)
    BY <1>2, FS_Subset
  <2> HIDE DEF t
  <2> QED BY <1>2, <2>1, SumTyped
<1>9. c(T) \in Int /\ p(T) \in Int /\ c(T) - p(T) = (c(u) - p(u)) - f[t]
  <2> HIDE DEF t, u
  <2> QED BY <1>4, <1>5, <1>6, MonthBalances
<1> HIDE DEF c, p, Sum, t, u, B
<1>10. c(T) - p(T) = opening - Sum(T)
  BY <1>4, <1>5, <1>7, <1>8, <1>9
<1>11. Good(T)
  BY <1>9, <1>10
<1> QED BY <1>1, <1>11 DEF B

LEMMA TaxSum == \A f : Tax!SumFunction(f) = SumFunctionOnSet(f, DOMAIN f)
BY DEF Tax!SumFunction, Tax!SumFunctionOnSet, Tax!FoldFunctionOnSet, Tax!MapThenFoldSet,
       SumFunctionOnSet, FoldFunctionOnSet, MapThenFoldSet

LEMMA RollUpIsEven == TaxInv => Tax!YearAddsUp
<1> SUFFICES ASSUME TaxInv, NEW c \in Calls, filing[c].at = "read"
             PROVE  LET s == Tax!AnnualVatSummary(filing[c].months, filing[c].opening)
                    IN s.carry - s.payable = filing[c].opening - Tax!SumFunction(filing[c].months)
  BY DEF Tax!YearAddsUp
<1> DEFINE f == filing[c].months
           o == filing[c].opening
<1>1. o \in Int /\ \E n \in Nat : f \in [1..n -> Tax!Net]
  <2>1. filing[c] \in Reader
    BY FilingTyped DEF TaxInv
  <2>2. 0..Months \subseteq Nat
    BY TaxBounds
  <2> QED BY <2>1, <2>2 DEF Reader
<1>2. PICK n \in Nat : f \in [1..n -> Tax!Net]
  BY <1>1
<1>3. /\ DOMAIN f = 1..n /\ IsFiniteSet(DOMAIN f) /\ DOMAIN f \subseteq Nat
      /\ \A x \in DOMAIN f : f[x] \in Int
  BY <1>2, IntervalFinite DEF Tax!Net
<1>4. Rolled(f, o, DOMAIN f).carry - Rolled(f, o, DOMAIN f).payable = o - SumFunctionOnSet(f, DOMAIN f)
  <2> HIDE DEF f, o
  <2> QED BY <1>1, <1>3, RollBalances
<1> QED BY <1>4, RollIsChosen, TaxSum

\* Balances, statement and ageing report of a party agree, however confirmations overlap,
\* a PDF shows one moment of the ledger, and the yearly roll-up neither loses nor invents
\* a VAT credit (confirm_arap_entry, get_statement, get_receivables_summary, runReportJob,
\* get_annual_summary).
THEOREM BooksAlwaysAgree == Spec => []BooksAgree
<1>1. PartyInv /\ ReportInv /\ TaxInv => BooksAgree
  BY PartyAndReportsAgree, RollUpIsEven DEF BooksAgree
<1> QED BY <1>1, PartyAlways, ReportAlways, TaxAlways, PTL
-------------------------------------------------------------------------------
(* The calendar: where months begin *)

\* The months up to m.
Until(m) == {o \in Date!Month : Date!Earlier(o, m)}

LEMMA CalendarBounds ==
  /\ FirstYear \in Int /\ LastYear \in Int /\ FirstYear + 3 <= LastYear
  /\ Months \in Nat /\ FyStart \in 1..Months /\ FilingDay \in Nat /\ FilingDay > 0
  /\ \A m \in Date!Month : MonthLength[m] \in Nat /\ FilingDay <= MonthLength[m]
  /\ \A m \in Date!Month : m = <<m[1], m[2]>> /\ m[1] \in FirstYear..LastYear /\ m[2] \in 1..Months
  /\ \A y \in FirstYear..LastYear, n \in 1..Months : <<y, n>> \in Date!Month
<1>1. Months \in Nat
  BY CountAssumption
<1>2. DOMAIN MonthLength = Date!Month
  BY CalendarAssumption DEF Date!Month
<1>3. \A m \in Date!Month : MonthLength[m] \in Nat /\ FilingDay <= MonthLength[m]
  BY <1>2, CalendarAssumption DEF Date!Month
<1> QED BY <1>1, <1>3, CalendarAssumption DEF Date!Month

LEMMA MonthsFinite == IsFiniteSet(Date!Month) /\ \A m : IsFiniteSet(Until(m)) /\ Until(m) \subseteq Date!Month
<1>1. IsFiniteSet(FirstYear..LastYear) /\ IsFiniteSet(1..Months)
  <2>1. FirstYear \in Int /\ LastYear \in Int /\ 1 \in Int /\ Months \in Int
    BY CalendarBounds
  <2> QED BY <2>1, FS_Interval
<1>2. IsFiniteSet(Date!Month)
  BY <1>1, FS_Product DEF Date!Month
<1> QED BY <1>2, FS_Subset DEF Until

LEMMA StartIsSum ==
  \A m \in Date!Month :
    Date!StartOf[m] = SumFunctionOnSet(MonthLength, Until(m)) /\ Date!StartOf[m] \in Nat
<1>1. \A S : Date!SumFunctionOnSet(MonthLength, S) = SumFunctionOnSet(MonthLength, S)
  BY DEF Date!SumFunctionOnSet, Date!FoldFunctionOnSet, Date!MapThenFoldSet,
         SumFunctionOnSet, FoldFunctionOnSet, MapThenFoldSet
<1>2. ASSUME NEW m \in Date!Month
      PROVE  Date!StartOf[m] = SumFunctionOnSet(MonthLength, Until(m))
  BY <1>1 DEF Date!StartOf, Until
<1>3. ASSUME NEW m \in Date!Month
      PROVE  SumFunctionOnSet(MonthLength, Until(m)) \in Nat
  <2>1. /\ IsFiniteSet(Until(m))
        /\ \A x \in Until(m) : MonthLength[x] \in Int
        /\ \A x \in Until(m) : MonthLength[x] >= 0
    BY MonthsFinite, CalendarBounds DEF Until
  <2> QED BY <2>1, SumTyped
<1> QED BY <1>2, <1>3

\* A month begins when the one before it is over.
LEMMA StartNext ==
  ASSUME NEW m \in Date!Month, Date!NextMonth(m) \in Date!Month
  PROVE  Date!StartOf[Date!NextMonth(m)] = Date!StartOf[m] + MonthLength[m]
<1> DEFINE n == Date!NextMonth(m)
<1>1. ASSUME NEW o \in Date!Month PROVE Date!Earlier(o, n) <=> Date!Earlier(o, m) \/ o = m
  <2>1. /\ o = <<o[1], o[2]>> /\ o[1] \in Int /\ o[2] \in 1..Months
        /\ m = <<m[1], m[2]>> /\ m[1] \in Int /\ m[2] \in 1..Months /\ Months \in Nat
    BY CalendarBounds
  <2>2. CASE m[2] = Months
    <3>1. n = <<m[1] + 1, 1>>
      BY <2>2 DEF Date!NextMonth
    <3>2. n[1] = m[1] + 1 /\ n[2] = 1
      BY <3>1
    <3> HIDE DEF n
    <3> QED BY <2>1, <2>2, <3>2 DEF Date!Earlier
  <2>3. CASE m[2] # Months
    <3>1. n = <<m[1], m[2] + 1>>
      BY <2>3 DEF Date!NextMonth
    <3>2. n[1] = m[1] /\ n[2] = m[2] + 1
      BY <3>1
    <3> HIDE DEF n
    <3> QED BY <2>1, <3>2 DEF Date!Earlier
  <2> QED BY <2>2, <2>3
<1>2. Until(n) = Until(m) \cup {m}
  BY <1>1 DEF Until
<1>3. m \notin Until(m)
  BY CalendarBounds DEF Until, Date!Earlier
<1>4. /\ IsFiniteSet(Until(m))
      /\ \A y \in Until(m) \cup {m} : MonthLength[y] \in Int
  BY MonthsFinite, CalendarBounds DEF Until
<1> HIDE DEF n
<1>5. SumFunctionOnSet(MonthLength, Until(m) \cup {m}) = SumFunctionOnSet(MonthLength, Until(m)) + MonthLength[m]
  BY <1>3, <1>4, SumAdd
<1>6. Date!StartOf[n] = SumFunctionOnSet(MonthLength, Until(n)) /\ Date!StartOf[m] = SumFunctionOnSet(MonthLength, Until(m))
  BY StartIsSum DEF n
<1> QED BY <1>2, <1>5, <1>6 DEF n

\* A month is over when a later one begins.
LEMMA StartEarlier ==
  ASSUME NEW m \in Date!Month, NEW o \in Date!Month, Date!Earlier(m, o)
  PROVE  Date!StartOf[m] + MonthLength[m] <= Date!StartOf[o]
<1> DEFINE A == Until(m) \cup {m}
           R == Until(o) \ A
           Sum(T) == SumFunctionOnSet(MonthLength, T)
<1>1. A \subseteq Until(o)
  <2>1. ASSUME NEW x \in Date!Month, Date!Earlier(x, m) PROVE Date!Earlier(x, o)
    <3>1. /\ x[1] \in Int /\ x[2] \in Int /\ m[1] \in Int /\ m[2] \in Int /\ o[1] \in Int /\ o[2] \in Int
      BY CalendarBounds
    <3> QED BY <2>1, <3>1 DEF Date!Earlier
  <2> QED BY <2>1 DEF Until
<1>2. A \cup R = Until(o) /\ A \cap R = {}
  BY <1>1
<1>3. m \notin Until(m)
  BY CalendarBounds DEF Until, Date!Earlier
<1>4. /\ IsFiniteSet(Until(m)) /\ IsFiniteSet(A) /\ IsFiniteSet(R)
      /\ A \subseteq Date!Month /\ R \subseteq Date!Month /\ Until(m) \subseteq Date!Month
  <2>1. A \subseteq Date!Month /\ R \subseteq Date!Month /\ Until(m) \subseteq Date!Month
    BY DEF Until
  <2> QED BY <2>1, MonthsFinite, FS_Subset
<1>5. /\ \A y \in A \cup R : MonthLength[y] \in Int
      /\ \A y \in R : MonthLength[y] \in Int
      /\ \A y \in R : MonthLength[y] >= 0
      /\ \A y \in Until(m) \cup {m} : MonthLength[y] \in Int
  BY <1>4, CalendarBounds
<1> HIDE DEF R
<1>6. Sum(A) = Sum(Until(m)) + MonthLength[m]
  BY <1>3, <1>4, <1>5, SumAdd
<1> HIDE DEF A
<1>7. Sum(A \cup R) = Sum(A) + Sum(R)
  BY <1>2, <1>4, <1>5, SumUnion
<1>8. Sum(R) \in Nat
  BY <1>4, <1>5, SumTyped
<1>9. Date!StartOf[m] = Sum(Until(m)) /\ Date!StartOf[o] = Sum(Until(o)) /\ Date!StartOf[m] \in Nat
  BY StartIsSum
<1>10. MonthLength[m] \in Nat
  BY CalendarBounds
<1>11. Date!StartOf[o] = (Date!StartOf[m] + MonthLength[m]) + Sum(R)
  BY <1>2, <1>6, <1>7, <1>9, Zenon
<1> HIDE DEF Sum
<1> QED BY <1>8, <1>9, <1>10, <1>11

LEMMA MonthsCompare ==
  ASSUME NEW m \in Date!Month, NEW o \in Date!Month
  PROVE  m = o \/ Date!Earlier(m, o) \/ Date!Earlier(o, m)
<1>1. /\ m = <<m[1], m[2]>> /\ m[1] \in Int /\ m[2] \in Int
      /\ o = <<o[1], o[2]>> /\ o[1] \in Int /\ o[2] \in Int
  BY CalendarBounds
<1> QED BY <1>1 DEF Date!Earlier
-------------------------------------------------------------------------------
(* The calendar: the month of a day *)

Within(date, m) == Date!StartOf[m] <= date /\ date < Date!StartOf[m] + MonthLength[m]

Opening == <<FirstYear + 1, 1>>
Closing == <<LastYear - 2, Months>>

LEMMA DayBounds ==
  /\ Opening \in Date!Month /\ Closing \in Date!Month
  /\ \A date \in Date!Day : date \in Nat /\ date > 0 /\ Date!StartOf[Opening] <= date
                             /\ date < Date!StartOf[Closing] + MonthLength[Closing]
  /\ Date!StartOf[Opening] \in Date!Day
<1>1. Opening \in Date!Month /\ Closing \in Date!Month
  BY CalendarBounds DEF Opening, Closing
<1>2. Date!StartOf[Opening] \in Nat /\ Date!StartOf[Closing] \in Nat /\ MonthLength[Closing] \in Nat
      /\ MonthLength[Opening] \in Nat /\ MonthLength[Opening] > 0 /\ MonthLength[Closing] > 0
  BY <1>1, StartIsSum, CalendarBounds
<1>3. Date!LastDay(Closing) = Date!StartOf[Closing] + MonthLength[Closing] - 1
  BY DEF Date!LastDay, Date!BsToAd
<1>4. Date!Day = Date!StartOf[Opening]..(Date!StartOf[Closing] + MonthLength[Closing] - 1)
  BY <1>3 DEF Date!Day, Opening, Closing
<1>5. Date!StartOf[Opening] <= Date!StartOf[Closing] + MonthLength[Closing] - 1
  <2>1. Opening = Closing \/ Date!Earlier(Opening, Closing)
    BY CalendarBounds DEF Opening, Closing, Date!Earlier
  <2>2. CASE Date!Earlier(Opening, Closing)
    <3>1. Date!StartOf[Opening] + MonthLength[Opening] <= Date!StartOf[Closing]
      BY <1>1, <2>2, StartEarlier
    <3> QED BY <1>2, <3>1
  <2>3. CASE Opening = Closing
    BY <1>2, <2>3
  <2> QED BY <2>1, <2>2, <2>3
<1>6. Date!StartOf[Opening] > 0
  <2> DEFINE o == <<FirstYear, 1>>
  <2>1. o \in Date!Month /\ Date!Earlier(o, Opening)
    BY CalendarBounds DEF Opening, Date!Earlier
  <2>2. Date!StartOf[o] + MonthLength[o] <= Date!StartOf[Opening]
    BY <1>1, <2>1, StartEarlier
  <2>3. Date!StartOf[o] \in Nat /\ MonthLength[o] \in Nat /\ MonthLength[o] > 0
    BY <2>1, StartIsSum, CalendarBounds
  <2> HIDE DEF o
  <2> QED BY <1>2, <2>2, <2>3
<1> QED BY <1>1, <1>2, <1>4, <1>5, <1>6

LEMMA WithinOne ==
  ASSUME NEW date \in Nat, NEW m \in Date!Month, NEW o \in Date!Month, Within(date, m), Within(date, o)
  PROVE  m = o
<1>1. /\ Date!StartOf[m] \in Nat /\ MonthLength[m] \in Nat /\ Date!StartOf[o] \in Nat /\ MonthLength[o] \in Nat
  BY StartIsSum, CalendarBounds
<1>2. ~Date!Earlier(m, o)
  BY <1>1, StartEarlier DEF Within
<1>3. ~Date!Earlier(o, m)
  BY <1>1, StartEarlier DEF Within
<1> QED BY <1>2, <1>3, MonthsCompare

\* A day of the years the calendar is asked for is in one month, of those years.
LEMMA MonthOfDay ==
  ASSUME NEW date \in Date!Day
  PROVE  /\ Date!MonthOf(date) \in Date!Month /\ Within(date, Date!MonthOf(date))
         /\ Date!MonthOf(date)[1] \in (FirstYear + 1)..(LastYear - 2)
         /\ \A m \in Date!Month : Within(date, m) => m = Date!MonthOf(date)
<1>1. /\ date \in Nat /\ Date!StartOf[Opening] <= date /\ date < Date!StartOf[Closing] + MonthLength[Closing]
      /\ Opening \in Date!Month /\ Closing \in Date!Month
  BY DayBounds
<1>2. \E m \in Date!Month : Within(date, m)
  <2> DEFINE S == {m \in Date!Month : Date!StartOf[m] <= date}
             N == {date - Date!StartOf[m] : m \in S}
  <2>1. N \subseteq Nat /\ N # {}
    <3>1. Opening \in S
      BY <1>1
    <3>2. \A m \in S : Date!StartOf[m] \in Nat /\ Date!StartOf[m] <= date
      BY StartIsSum
    <3> HIDE DEF S
    <3>3. \A m \in S : date - Date!StartOf[m] \in Nat
      BY <1>1, <3>2
    <3> QED BY <3>1, <3>3
  <2>2. PICK n \in N : \A k \in N : n <= k
    <3> HIDE DEF N
    <3> QED BY <2>1, LeastNumber
  <2>3. PICK m \in S : n = date - Date!StartOf[m]
    OBVIOUS
  <2>4. \A o \in S : Date!StartOf[o] <= Date!StartOf[m]
    <3>1. \A o \in S : date - Date!StartOf[m] <= date - Date!StartOf[o]
      BY <2>2, <2>3
    <3> QED BY <1>1, <3>1, StartIsSum
  <2>5. Date!StartOf[m] \in Nat /\ MonthLength[m] \in Nat /\ MonthLength[m] > 0
    BY StartIsSum, CalendarBounds
  <2>6. CASE Date!NextMonth(m) \in Date!Month
    <3>1. Date!StartOf[Date!NextMonth(m)] = Date!StartOf[m] + MonthLength[m]
      BY <2>6, StartNext
    <3>2. Date!NextMonth(m) \notin S
      BY <2>4, <2>5, <3>1
    <3>3. ~(Date!StartOf[m] + MonthLength[m] <= date)
      BY <2>6, <3>1, <3>2
    <3> QED BY <1>1, <2>5, <3>3 DEF Within
  <2>7. CASE Date!NextMonth(m) \notin Date!Month
    <3>1. m = <<m[1], m[2]>> /\ m[1] \in FirstYear..LastYear /\ m[2] \in 1..Months
      BY CalendarBounds
    <3>2. m[1] = LastYear
      <4>1. m[2] = Months \/ m[2] + 1 \in 1..Months
        BY <3>1, CalendarBounds
      <4>2. CASE m[2] = Months
        <5>1. Date!NextMonth(m) = <<m[1] + 1, 1>> /\ 1 \in 1..Months
          BY <4>2, CalendarBounds DEF Date!NextMonth
        <5>2. m[1] + 1 \notin FirstYear..LastYear
          BY <2>7, <5>1, CalendarBounds
        <5> QED BY <3>1, <5>2, CalendarBounds
      <4>3. CASE m[2] # Months
        <5>1. Date!NextMonth(m) = <<m[1], m[2] + 1>>
          BY <4>3 DEF Date!NextMonth
        <5> QED BY <2>7, <3>1, <4>1, <4>3, <5>1, CalendarBounds
      <4> QED BY <4>2, <4>3
    <3>3. Date!Earlier(Closing, m)
      BY <3>2, CalendarBounds DEF Closing, Date!Earlier
    <3>4. Date!StartOf[Closing] + MonthLength[Closing] <= Date!StartOf[m]
      BY <1>1, <3>3, StartEarlier
    <3>5. Date!StartOf[Closing] \in Nat /\ MonthLength[Closing] \in Nat
      BY <1>1, StartIsSum, CalendarBounds
    <3> QED BY <1>1, <2>5, <3>4, <3>5
  <2> QED BY <2>6, <2>7
<1>3. Date!MonthOf(date) \in Date!Month /\ Within(date, Date!MonthOf(date))
  BY <1>2 DEF Date!MonthOf, Within
<1> DEFINE t == Date!MonthOf(date)
<1>4. /\ Date!StartOf[t] \in Nat /\ MonthLength[t] \in Nat
      /\ Date!StartOf[Opening] \in Nat /\ Date!StartOf[Closing] \in Nat /\ MonthLength[Closing] \in Nat
  BY <1>1, <1>3, StartIsSum, CalendarBounds
<1>5. ~Date!Earlier(t, Opening)
  BY <1>1, <1>3, <1>4, StartEarlier DEF Within
<1>6. ~Date!Earlier(Closing, t)
  BY <1>1, <1>3, <1>4, StartEarlier DEF Within
<1>7. t[1] \in FirstYear..LastYear /\ t[2] \in 1..Months
  BY <1>3, CalendarBounds
<1> HIDE DEF t
<1>8. t[1] \in (FirstYear + 1)..(LastYear - 2)
  BY <1>5, <1>6, <1>7, CalendarBounds DEF Opening, Closing, Date!Earlier
<1>9. \A m \in Date!Month : Within(date, m) => m = t
  BY <1>1, <1>3, WithinOne DEF t
<1> QED BY <1>3, <1>8, <1>9 DEF t
-------------------------------------------------------------------------------
(* The calendar: what holds of every day *)

\* Who records an entry late has it flagged.
PostedSound ==
  \A p \in posted :
    p.day <= p.recorded /\ p.backdated = Date!Earlier(Date!MonthOf(p.day), Date!MonthOf(p.recorded))

DateInv == Date!TypeOK /\ PostedSound

LEMMA DateInit == Date!Init => DateInv
BY DayBounds DEF Date!Init, DateInv, Date!TypeOK, PostedSound, Opening, Date!NoDate, Date!Closed

LEMMA DateKept == DateInv /\ [Date!Next]_dateVars => DateInv'
<1> SUFFICES ASSUME DateInv, [Date!Next]_dateVars PROVE DateInv'
  OBVIOUS
<1>1. CASE Date!NextDay
  BY <1>1 DEF DateInv, Date!TypeOK, PostedSound, Date!NextDay
<1>2. ASSUME NEW r \in Ref, Date!Open(r) PROVE DateInv'
  BY <1>2 DEF DateInv, Date!TypeOK, PostedSound, Date!Open
<1>3. ASSUME NEW r \in Ref, Date!Close(r) PROVE DateInv'
  BY <1>3 DEF DateInv, Date!TypeOK, PostedSound, Date!Close
<1>4. ASSUME NEW d \in Date!Day, Date!Post(d) PROVE DateInv'
  <2> DEFINE new == [day |-> d, recorded |-> today, backdated |-> Date!Backdated(d)]
  <2>1. /\ d <= today /\ posted' = posted \cup {new} /\ today' = today /\ items' = items
    BY <1>4 DEF Date!Post
  <2>2. today \in Date!Day /\ items \in [Ref -> Date!Day \cup {Date!NoDate, Date!Closed}]
        /\ posted \subseteq [day : Date!Day, recorded : Date!Day, backdated : BOOLEAN]
    BY DEF DateInv, Date!TypeOK
  <2>3. Date!Backdated(d) \in BOOLEAN
        /\ Date!Backdated(d) = Date!Earlier(Date!MonthOf(d), Date!MonthOf(today))
    BY DEF Date!Backdated, Date!Earlier
  <2>4. /\ new.day = d /\ new.recorded = today /\ new.backdated = Date!Backdated(d)
        /\ new \in [day : Date!Day, recorded : Date!Day, backdated : BOOLEAN]
    BY <2>2, <2>3
  <2> HIDE DEF new
  <2>5. Date!TypeOK'
    BY <2>1, <2>2, <2>4 DEF Date!TypeOK
  <2>6. \A p \in posted' :
          p.day <= p.recorded /\ p.backdated = Date!Earlier(Date!MonthOf(p.day), Date!MonthOf(p.recorded))
    <3>1. ASSUME NEW p \in posted'
          PROVE  p.day <= p.recorded /\ p.backdated = Date!Earlier(Date!MonthOf(p.day), Date!MonthOf(p.recorded))
      <4>1. CASE p \in posted
        BY <4>1 DEF DateInv, PostedSound
      <4>2. CASE p = new
        BY <2>1, <2>3, <2>4, <4>2
      <4> QED BY <2>1, <4>1, <4>2
    <3> QED BY <3>1
  <2>7. PostedSound'
    BY <2>6 DEF PostedSound
  <2> QED BY <2>5, <2>7 DEF DateInv
<1>5. CASE UNCHANGED dateVars
  BY <1>5 DEF DateInv, Date!TypeOK, PostedSound, dateVars
<1> QED BY <1>1, <1>2, <1>3, <1>4, <1>5 DEF Date!Next

LEMMA DateAlways == Spec => []DateInv
<1>1. Init => DateInv
  BY DateInit DEF Init
<1>2. [Next]_vars => [Date!Next]_dateVars
  BY DEF Next, vars
<1>3. DateInv /\ [Next]_vars => DateInv'
  BY <1>2, DateKept
<1> QED BY <1>1, <1>3, PTL DEF Spec
-------------------------------------------------------------------------------
\* An entry without a flag is of the month it is recorded in, which is not over.
LEMMA UnflaggedIsInTime == DateInv => Date!UnflaggedInTime
<1> SUFFICES ASSUME DateInv, NEW p \in posted, ~p.backdated
             PROVE  Date!LastDay(Date!MonthOf(p.day)) + FilingDay > p.recorded
  BY DEF Date!UnflaggedInTime
<1> DEFINE m == Date!MonthOf(p.day)
           t == Date!MonthOf(p.recorded)
<1>1. /\ p.day \in Date!Day /\ p.recorded \in Date!Day /\ p.day <= p.recorded
      /\ p.backdated = Date!Earlier(m, t)
  BY DEF DateInv, Date!TypeOK, PostedSound
<1>2. /\ m \in Date!Month /\ Within(p.day, m) /\ t \in Date!Month /\ Within(p.recorded, t)
      /\ p.day \in Nat /\ p.recorded \in Nat
  BY <1>1, MonthOfDay, DayBounds
<1> HIDE DEF m, t
<1>3. /\ Date!StartOf[m] \in Nat /\ MonthLength[m] \in Nat /\ FilingDay \in Nat /\ FilingDay > 0
      /\ Date!StartOf[t] \in Nat /\ MonthLength[t] \in Nat
  BY <1>2, StartIsSum, CalendarBounds
<1>4. ~Date!Earlier(t, m)
  BY <1>1, <1>2, <1>3, StartEarlier DEF Within
<1>5. m = t
  BY <1>1, <1>2, <1>4, MonthsCompare
<1>6. Date!LastDay(m) = Date!StartOf[m] + MonthLength[m] - 1
  BY DEF Date!LastDay, Date!BsToAd
<1>7. p.recorded < Date!StartOf[m] + MonthLength[m]
  BY <1>2, <1>5 DEF Within
<1>8. Date!LastDay(m) + FilingDay > p.recorded
  BY <1>2, <1>3, <1>6, <1>7
<1> QED BY <1>8 DEF m

\* The limits passed by so many days, and those up to one of them.
LEMMA BucketsByLimits ==
  ASSUME NEW days \in Int
  PROVE  /\ days <= 0 => Date!Bucket(days) = 0
         /\ \A l \in BucketLimits :
              (Date!Bucket(days) > Date!Cardinality({o \in BucketLimits : o <= l})) <=> days > l
<1>0. \A S : Date!Cardinality(S) = Cardinality(S)
  BY DEF Date!Cardinality, Cardinality
<1> DEFINE Passed == {l \in BucketLimits \cup {0} : days > l}
<1>1. Date!Bucket(days) = Cardinality(Passed)
  BY <1>0 DEF Date!Bucket
<1>2. /\ BucketLimits \subseteq Nat /\ 0 \notin BucketLimits /\ IsFiniteSet(BucketLimits)
      /\ IsFiniteSet(BucketLimits \cup {0}) /\ IsFiniteSet(Passed)
  <2>1. BucketLimits \subseteq Nat /\ 0 \notin BucketLimits /\ IsFiniteSet(BucketLimits)
    BY CalendarAssumption
  <2>2. IsFiniteSet(BucketLimits \cup {0})
    BY <2>1, FS_AddElement
  <2> QED BY <2>1, <2>2, FS_Subset
<1>5. days \in Int /\ \A l \in BucketLimits : l \in Nat /\ l > 0
  BY CalendarAssumption
<1>6. \A l : l \in Passed <=> (l = 0 \/ l \in BucketLimits) /\ days > l
  OBVIOUS
<1>3. ASSUME days <= 0 PROVE Date!Bucket(days) = 0
  <2>1. \A l : l \notin Passed
    BY <1>3, <1>5, <1>6
  <2>2. Passed = {}
    BY <2>1
  <2> QED BY <1>1, <2>2, FS_EmptySet
<1>4. ASSUME NEW l \in BucketLimits
      PROVE  (Cardinality(Passed) > Cardinality({o \in BucketLimits : o <= l})) <=> days > l
  <2> DEFINE Upto == {o \in BucketLimits : o <= l}
  <2>1. IsFiniteSet(Upto) /\ l \in Upto /\ 0 \notin Upto /\ l \in Nat
    BY <1>2, FS_Subset
  <2>2. Cardinality(Upto) \in Nat /\ Cardinality(Passed) \in Nat
    BY <1>2, <2>1, FS_CardinalityType
  <2>3. ASSUME days > l PROVE Cardinality(Passed) > Cardinality(Upto)
    <3>1. Upto \cup {0} \subseteq Passed
      <4>1. \A o \in Upto \cup {0} : (o = 0 \/ o \in BucketLimits) /\ days > o
        BY <1>5, <2>1, <2>3
      <4> HIDE DEF Passed, Upto
      <4> QED BY <1>6, <4>1
    <3> HIDE DEF Upto, Passed
    <3>2. Cardinality(Upto \cup {0}) = Cardinality(Upto) + 1
      BY <2>1, FS_AddElement
    <3>3. Cardinality(Upto \cup {0}) <= Cardinality(Passed)
      BY <1>2, <3>1, FS_Subset
    <3> QED BY <2>2, <3>2, <3>3
  <2>4. ASSUME ~(days > l) PROVE ~(Cardinality(Passed) > Cardinality(Upto))
    <3> DEFINE Less == Upto \ {l}
    <3>1. Passed \subseteq Less \cup {0}
      <4>1. \A o : (o = 0 \/ o \in BucketLimits) /\ days > o => o = 0 \/ o \in Less
        <5>1. \A o \in BucketLimits : days > o => o <= l /\ o # l
          BY <1>5, <2>4
        <5> QED BY <5>1
      <4> HIDE DEF Passed, Less
      <4> QED BY <1>6, <4>1
    <3>2. IsFiniteSet(Less) /\ 0 \notin Less /\ IsFiniteSet(Less \cup {0})
      <4>1. IsFiniteSet(Less)
        BY <2>1, FS_Subset
      <4> QED BY <2>1, <4>1, FS_AddElement
    <3> HIDE DEF Upto, Passed
    <3>3. Cardinality(Less) = Cardinality(Upto) - 1
      BY <2>1, FS_RemoveElement
    <3>4. Cardinality(Less \cup {0}) = Cardinality(Less) + 1
      BY <3>2, FS_AddElement
    <3>5. Cardinality(Passed) <= Cardinality(Less \cup {0})
      BY <3>1, <3>2, FS_Subset
    <3> HIDE DEF Less
    <3> QED BY <2>2, <3>3, <3>4, <3>5
  <2> QED BY <2>3, <2>4
<1> QED BY <1>0, <1>1, <1>3, <1>4

LEMMA AgedRight == DateInv => Date!AgedByLimits
<1> SUFFICES ASSUME DateInv, NEW r \in Ref, items[r] \in Date!Day
             PROVE  /\ today <= items[r] => Date!Bucket(Date!DaysPastDue(r)) = 0
                    /\ \A l \in BucketLimits :
                         (Date!Bucket(Date!DaysPastDue(r)) > Date!Cardinality({o \in BucketLimits : o <= l}))
                           <=> (today > items[r] + l)
  BY DEF Date!AgedByLimits
<1> DEFINE days == Date!DaysPastDue(r)
<1>1. today \in Nat /\ items[r] \in Nat /\ days = today - items[r]
  BY DayBounds DEF DateInv, Date!TypeOK, Date!DaysPastDue
<1>2. days \in Int /\ (today <= items[r] => days <= 0)
  BY <1>1
<1>3. \A l \in BucketLimits : days > l <=> today > items[r] + l
  <2>1. BucketLimits \subseteq Nat
    BY CalendarAssumption
  <2> QED BY <1>1, <2>1
<1> HIDE DEF days
<1>4. /\ days <= 0 => Date!Bucket(days) = 0
      /\ \A l \in BucketLimits :
           (Date!Bucket(days) > Date!Cardinality({o \in BucketLimits : o <= l})) <=> days > l
  BY <1>2, BucketsByLimits
<1>5. /\ today <= items[r] => Date!Bucket(days) = 0
      /\ \A l \in BucketLimits :
           (Date!Bucket(days) > Date!Cardinality({o \in BucketLimits : o <= l})) <=> (today > items[r] + l)
  BY <1>2, <1>3, <1>4
<1> QED BY <1>5 DEF days
-------------------------------------------------------------------------------
(* The calendar: what is due *)

\* A return is due on the filing day of the next month, FilingDay days after its own.
LEMMA DueAfterMonth ==
  ASSUME NEW m \in Date!Month, Date!NextMonth(m) \in Date!Month
  PROVE  Date!FilingDeadline(m) = Date!LastDay(m) + FilingDay /\ Date!FilingDeadline(m) \in Nat
<1>1. Date!StartOf[Date!NextMonth(m)] = Date!StartOf[m] + MonthLength[m]
  BY StartNext
<1>2. Date!StartOf[m] \in Nat /\ MonthLength[m] \in Nat /\ FilingDay \in Nat /\ FilingDay > 0
  BY StartIsSum, CalendarBounds
<1> QED BY <1>1, <1>2 DEF Date!FilingDeadline, Date!LastDay, Date!BsToAd

\* The months around one of the years the calendar is asked for.
LEMMA Neighbours ==
  ASSUME NEW m \in Date!Month
  PROVE  /\ m[1] <= LastYear - 1 => Date!NextMonth(m) \in Date!Month
         /\ m[1] >= FirstYear + 1 =>
              Date!PreviousMonth(m) \in Date!Month /\ Date!NextMonth(Date!PreviousMonth(m)) = m
         /\ Date!NextMonth(m) \in Date!Month => Date!PreviousMonth(Date!NextMonth(m)) = m
<1>1. /\ m = <<m[1], m[2]>> /\ m[1] \in FirstYear..LastYear /\ m[2] \in 1..Months
      /\ FirstYear \in Int /\ LastYear \in Int /\ Months \in Nat
      /\ \A y \in FirstYear..LastYear, n \in 1..Months : <<y, n>> \in Date!Month
  BY CalendarBounds
<1> DEFINE n == Date!NextMonth(m)
           p == Date!PreviousMonth(m)
<1>2. /\ m[2] = Months => n = <<m[1] + 1, 1>> /\ n[1] = m[1] + 1 /\ n[2] = 1
      /\ m[2] # Months => n = <<m[1], m[2] + 1>> /\ n[1] = m[1] /\ n[2] = m[2] + 1
  BY DEF Date!NextMonth
<1>3. /\ m[2] = 1 => p = <<m[1] - 1, Months>> /\ p[1] = m[1] - 1 /\ p[2] = Months
      /\ m[2] # 1 => p = <<m[1], m[2] - 1>> /\ p[1] = m[1] /\ p[2] = m[2] - 1
  BY DEF Date!PreviousMonth
<1> HIDE DEF n, p
<1>4. m[1] <= LastYear - 1 => n \in Date!Month
  <2>1. CASE m[2] = Months
    BY <1>1, <1>2, <2>1
  <2>2. CASE m[2] # Months
    BY <1>1, <1>2, <2>2
  <2> QED BY <2>1, <2>2
<1>5. m[1] >= FirstYear + 1 => p \in Date!Month
  <2>1. CASE m[2] = 1
    BY <1>1, <1>3, <2>1
  <2>2. CASE m[2] # 1
    BY <1>1, <1>3, <2>2
  <2> QED BY <2>1, <2>2
<1>6. Date!NextMonth(p) = m
  <2>1. CASE m[2] = 1
    <3>1. Date!NextMonth(p) = <<p[1] + 1, 1>>
      BY <1>3, <2>1 DEF Date!NextMonth
    <3> QED BY <1>1, <1>3, <2>1, <3>1
  <2>2. CASE m[2] # 1
    <3>1. p[2] # Months
      BY <1>1, <1>3, <2>2
    <3>2. Date!NextMonth(p) = <<p[1], p[2] + 1>>
      BY <3>1 DEF Date!NextMonth
    <3> QED BY <1>1, <1>3, <2>2, <3>2
  <2> QED BY <2>1, <2>2
<1>7. Date!PreviousMonth(n) = m
  <2>1. CASE m[2] = Months
    <3>1. Date!PreviousMonth(n) = <<n[1] - 1, Months>>
      BY <1>2, <2>1 DEF Date!PreviousMonth
    <3> QED BY <1>1, <1>2, <2>1, <3>1
  <2>2. CASE m[2] # Months
    <3>1. n[2] # 1
      BY <1>1, <1>2, <2>2
    <3>2. Date!PreviousMonth(n) = <<n[1], n[2] - 1>>
      BY <3>1 DEF Date!PreviousMonth
    <3> QED BY <1>1, <1>2, <2>2, <3>2
  <2> QED BY <2>1, <2>2
<1> QED BY <1>4, <1>5, <1>6, <1>7 DEF n, p

\* The months whose returns are listed today.
LEMMA Filed ==
  ASSUME DateInv
  PROVE  LET t == Date!MonthOf(today)
             p == Date!PreviousMonth(t)
         IN /\ t \in Date!Month /\ p \in Date!Month /\ Within(today, t) /\ today \in Nat
            /\ Date!NextMonth(t) \in Date!Month /\ Date!NextMonth(p) = t
            /\ t[1] \in (FirstYear + 1)..(LastYear - 2)
<1> DEFINE t == Date!MonthOf(today)
<1>1. today \in Date!Day /\ today \in Nat
  BY DayBounds DEF DateInv, Date!TypeOK
<1>2. t \in Date!Month /\ Within(today, t) /\ t[1] \in (FirstYear + 1)..(LastYear - 2)
  BY <1>1, MonthOfDay
<1>3. t[1] <= LastYear - 1 /\ t[1] >= FirstYear + 1
  BY <1>2, CalendarBounds
<1> HIDE DEF t
<1>4. Date!NextMonth(t) \in Date!Month /\ Date!PreviousMonth(t) \in Date!Month
      /\ Date!NextMonth(Date!PreviousMonth(t)) = t
  BY <1>2, <1>3, Neighbours
<1> QED BY <1>1, <1>2, <1>4 DEF t

\* A return is listed until it is due.
LEMMA CurrentOrLast ==
  ASSUME DateInv, NEW m \in Date!Month,
         Date!StartOf[m] <= today, today <= Date!LastDay(m) + FilingDay
  PROVE  /\ m \in {Date!PreviousMonth(Date!MonthOf(today)), Date!MonthOf(today)}
         /\ Date!NextMonth(m) \in Date!Month
<1> DEFINE t == Date!MonthOf(today)
<1>1. /\ t \in Date!Month /\ Within(today, t) /\ today \in Nat /\ today \in Date!Day
      /\ Date!NextMonth(t) \in Date!Month
      /\ t[1] \in (FirstYear + 1)..(LastYear - 2)
  BY Filed DEF DateInv, Date!TypeOK
<1>2. \A o \in Date!Month : Within(today, o) => o = t
  BY <1>1, MonthOfDay
<1> HIDE DEF t
<1>3. /\ Date!StartOf[m] \in Nat /\ MonthLength[m] \in Nat /\ FilingDay \in Nat
      /\ Date!StartOf[t] \in Nat /\ MonthLength[t] \in Nat
      /\ Date!LastDay(m) = Date!StartOf[m] + MonthLength[m] - 1
  BY <1>1, StartIsSum, CalendarBounds DEF Date!LastDay, Date!BsToAd
<1>4. CASE today < Date!StartOf[m] + MonthLength[m]
  <2>1. m = t
    BY <1>2, <1>4 DEF Within
  <2> QED BY <1>1, <2>1 DEF t
<1>5. CASE ~(today < Date!StartOf[m] + MonthLength[m])
  <2>1. ~Date!Earlier(t, m)
    BY <1>1, <1>3, StartEarlier DEF Within
  <2>2. m # t
    BY <1>5, <1>1 DEF Within
  <2>3. Date!Earlier(m, t)
    BY <1>1, <2>1, <2>2, MonthsCompare
  <2>4. m[1] <= LastYear - 1
    BY <1>1, <2>3, CalendarBounds DEF Date!Earlier
  <2> DEFINE n == Date!NextMonth(m)
  <2>5. n \in Date!Month /\ Date!PreviousMonth(n) = m
    BY <2>4, Neighbours
  <2>6. Date!StartOf[n] = Date!StartOf[m] + MonthLength[m] /\ MonthLength[n] \in Nat /\ FilingDay <= MonthLength[n]
    BY <2>5, StartNext, CalendarBounds
  <2>7. Within(today, n)
    <3> HIDE DEF n
    <3> QED BY <1>1, <1>3, <1>5, <2>6 DEF Within
  <2>8. n = t
    BY <1>2, <2>5, <2>7
  <2> QED BY <2>5, <2>8 DEF t
<1> QED BY <1>4, <1>5
\* The filing of the return of m, among what is listed.
LEMMA OneFilingListed ==
  ASSUME DateInv, NEW m \in Date!Month,
         Date!StartOf[m] <= today, today <= Date!LastDay(m) + FilingDay,
         (Date!LastDay(m) + FilingDay) - today <= Horizon
  PROVE  {e.due : e \in {e \in Date!Calendar : e.kind = "vat_filing" /\ e.about = m}}
           = {Date!LastDay(m) + FilingDay}
<1> DEFINE mine == Date!Event("vat_filing", m, Date!FilingDeadline(m))
           due == Date!LastDay(m) + FilingDay
<1>1. /\ m \in {Date!PreviousMonth(Date!MonthOf(today)), Date!MonthOf(today)}
      /\ Date!NextMonth(m) \in Date!Month
  BY CurrentOrLast
<1>2. Date!FilingDeadline(m) = due
  BY <1>1, DueAfterMonth
<1>3. mine = [kind |-> "vat_filing", about |-> m, due |-> due, daysUntil |-> due - today]
  BY <1>2 DEF Date!Event
<1>4. mine \in Date!Calendar
  <2>1. mine \in Date!Statutory
    <3> HIDE DEF mine
    <3>1. mine \in {mine, Date!Event("tds_deposit", m, Date!FilingDeadline(m))}
      OBVIOUS
    <3> QED BY <1>1, <3>1 DEF Date!Statutory, mine
  <2>2. mine.daysUntil <= Horizon
    <3>1. mine.daysUntil = due - today
      BY <1>3
    <3>2. due - today <= Horizon
      OBVIOUS
    <3> HIDE DEF mine, due
    <3> QED BY <3>1, <3>2
  <2> QED BY <2>1, <2>2 DEF Date!Calendar
<1>5. ASSUME NEW e \in Date!Calendar, e.kind = "vat_filing", e.about = m
      PROVE  e = mine
  <2>1. e \in Date!Statutory \/ e \in Date!YearBounds \/ e \in Date!DueItems
    BY DEF Date!Calendar
  <2>2. CASE e \in Date!Statutory
    <3>1. PICK o : e \in {Date!Event("vat_filing", o, Date!FilingDeadline(o)),
                        Date!Event("tds_deposit", o, Date!FilingDeadline(o))}
      BY <2>2 DEF Date!Statutory
    <3>2. e = Date!Event("vat_filing", o, Date!FilingDeadline(o))
      BY <1>5, <3>1 DEF Date!Event
    <3>3. e.about = o
      BY <3>2 DEF Date!Event
    <3> QED BY <1>5, <3>2, <3>3
  <2>3. CASE e \in Date!YearBounds
    BY <1>5, <2>3 DEF Date!YearBounds, Date!Event
  <2>4. CASE e \in Date!DueItems
    BY <1>5, <2>4 DEF Date!DueItems, Date!Event
  <2> QED BY <2>1, <2>2, <2>3, <2>4
<1>6. mine.kind = "vat_filing" /\ mine.about = m /\ mine.due = due
  BY <1>3
<1> HIDE DEF mine, due
<1>7. {e \in Date!Calendar : e.kind = "vat_filing" /\ e.about = m} = {mine}
  BY <1>4, <1>5, <1>6
<1>8. {e.due : e \in {mine}} = {due}
  BY <1>6
<1> QED BY <1>7, <1>8 DEF due

\* What is listed: finitely many events, each due on a day.
LEMMA CalendarEvents ==
  ASSUME DateInv
  PROVE  /\ IsFiniteSet(Date!Calendar)
         /\ \A e \in Date!Calendar : /\ e.due \in Int /\ e.daysUntil = e.due - today
                                     /\ \E i \in DOMAIN Date!Kinds : Date!Kinds[i] = e.kind
<1> DEFINE t == Date!MonthOf(today)
           p == Date!PreviousMonth(t)
           fy == Date!FiscalYear(t)
           begins == <<fy, FyStart>>
           ends == Date!PreviousMonth(<<fy + 1, FyStart>>)
<1>1. /\ t \in Date!Month /\ p \in Date!Month /\ today \in Nat
      /\ Date!NextMonth(t) \in Date!Month /\ Date!NextMonth(p) \in Date!Month
      /\ t[1] \in (FirstYear + 1)..(LastYear - 2)
  BY Filed
<1>2. Date!FilingDeadline(t) \in Nat /\ Date!FilingDeadline(p) \in Nat
  BY <1>1, DueAfterMonth
<1>3. Date!BsToAd(begins, 1) \in Int /\ Date!LastDay(ends) \in Int
  <2>1. fy \in FirstYear..(LastYear - 2)
    BY <1>1, CalendarBounds DEF Date!FiscalYear
  <2>2. begins \in Date!Month /\ <<fy + 1, FyStart>> \in Date!Month
    BY <2>1, CalendarBounds
  <2>3. <<fy + 1, FyStart>>[1] >= FirstYear + 1
    BY <2>1, CalendarBounds
  <2> HIDE DEF fy
  <2>4. ends \in Date!Month
    BY <2>2, <2>3, Neighbours
  <2>5. Date!StartOf[begins] \in Nat /\ Date!StartOf[ends] \in Nat /\ MonthLength[ends] \in Nat
    BY <2>2, <2>4, StartIsSum, CalendarBounds
  <2> HIDE DEF begins, ends
  <2> QED BY <2>5 DEF Date!BsToAd, Date!LastDay
<1> DEFINE Fixed == { Date!Event("vat_filing", p, Date!FilingDeadline(p)),
                      Date!Event("tds_deposit", p, Date!FilingDeadline(p)),
                      Date!Event("vat_filing", t, Date!FilingDeadline(t)),
                      Date!Event("tds_deposit", t, Date!FilingDeadline(t)),
                      Date!Event("fiscal_year_start", begins, Date!BsToAd(begins, 1)),
                      Date!Event("fiscal_year_end", begins, Date!LastDay(ends)) }
           Open == {r \in Ref : items[r] \in Date!Day}
<1>4. Date!Statutory \cup Date!YearBounds \subseteq Fixed
  <2>1. Date!Statutory \subseteq Fixed
    BY DEF Date!Statutory
  <2>2. Date!YearBounds \subseteq Fixed
    BY DEF Date!YearBounds
  <2> QED BY <2>1, <2>2
<1>5. Date!DueItems = {Date!Event("invoice_due", r, items[r]) : r \in Open}
  BY DEF Date!DueItems
<1>6. IsFiniteSet(Date!DueItems)
  <2> DEFINE f == [r \in Open |-> Date!Event("invoice_due", r, items[r])]
  <2>1. f \in Surjection(Open, Date!DueItems)
    BY <1>5 DEF Surjection
  <2>2. IsFiniteSet(Open)
    BY CalendarAssumption, FS_Subset
  <2> HIDE DEF f, Open
  <2> QED BY <2>1, <2>2, FS_Surjection
<1>7. ASSUME NEW a, NEW b, NEW c, NEW d, NEW x, NEW y PROVE IsFiniteSet({a, b, c, d, x, y})
  <2>1. IsFiniteSet({a})
    BY FS_Singleton
  <2>2. IsFiniteSet({a} \cup {b})
    BY <2>1, FS_AddElement
  <2>3. IsFiniteSet(({a} \cup {b}) \cup {c})
    BY <2>2, FS_AddElement
  <2>4. IsFiniteSet((({a} \cup {b}) \cup {c}) \cup {d})
    BY <2>3, FS_AddElement
  <2>5. IsFiniteSet(((({a} \cup {b}) \cup {c}) \cup {d}) \cup {x})
    BY <2>4, FS_AddElement
  <2>6. IsFiniteSet((((({a} \cup {b}) \cup {c}) \cup {d}) \cup {x}) \cup {y})
    BY <2>5, FS_AddElement
  <2>7. {a, b, c, d, x, y} = (((({a} \cup {b}) \cup {c}) \cup {d}) \cup {x}) \cup {y}
    OBVIOUS
  <2> QED BY <2>6, <2>7
<1>8. IsFiniteSet(Date!Calendar)
  <2>1. IsFiniteSet(Fixed)
    BY <1>7
  <2> HIDE DEF Fixed
  <2>2. IsFiniteSet(Fixed \cup Date!DueItems)
    BY <1>6, <2>1, FS_Union
  <2>3. Date!Calendar \subseteq Fixed \cup Date!DueItems
    BY <1>4 DEF Date!Calendar
  <2> QED BY <2>2, <2>3, FS_Subset
<1>9. ASSUME NEW kind, NEW about, NEW due \in Int, \E i \in DOMAIN Date!Kinds : Date!Kinds[i] = kind
      PROVE  LET e == Date!Event(kind, about, due)
             IN /\ e.due \in Int /\ e.daysUntil = e.due - today
                /\ \E i \in DOMAIN Date!Kinds : Date!Kinds[i] = e.kind
  BY <1>9 DEF Date!Event
<1>10. \A k \in {"bill_due", "fiscal_year_end", "fiscal_year_start", "invoice_due", "tds_deposit", "vat_filing"} :
         \E i \in DOMAIN Date!Kinds : Date!Kinds[i] = k
  <2>1. DOMAIN Date!Kinds = 1..6
    BY DEF Date!Kinds
  <2>2. /\ Date!Kinds[1] = "bill_due" /\ Date!Kinds[2] = "fiscal_year_end" /\ Date!Kinds[3] = "fiscal_year_start"
        /\ Date!Kinds[4] = "invoice_due" /\ Date!Kinds[5] = "tds_deposit" /\ Date!Kinds[6] = "vat_filing"
    BY DEF Date!Kinds
  <2> QED BY <2>1, <2>2
<1> HIDE DEF begins, ends, fy, t, p
<1>11. ASSUME NEW e \in Fixed
       PROVE  /\ e.due \in Int /\ e.daysUntil = e.due - today
              /\ \E i \in DOMAIN Date!Kinds : Date!Kinds[i] = e.kind
  <2>1. Date!FilingDeadline(t) \in Int /\ Date!FilingDeadline(p) \in Int
    BY <1>2
  <2> QED BY <1>3, <1>9, <1>10, <2>1
<1>12. ASSUME NEW e \in Date!DueItems
       PROVE  /\ e.due \in Int /\ e.daysUntil = e.due - today
              /\ \E i \in DOMAIN Date!Kinds : Date!Kinds[i] = e.kind
  <2>1. PICK r \in Open : e = Date!Event("invoice_due", r, items[r])
    BY <1>5
  <2>2. items[r] \in Int
    BY <2>1, DayBounds
  <2> QED BY <1>9, <1>10, <2>1, <2>2
<1> HIDE DEF Fixed
<1>13. \A e \in Date!Calendar : e \in Fixed \/ e \in Date!DueItems
  BY <1>4 DEF Date!Calendar
<1> QED BY <1>8, <1>11, <1>12, <1>13
-------------------------------------------------------------------------------
(* The calendar: the list of next deadlines *)

\* What comes before one of the listed is listed before it.
Leads(list, places, coming) ==
  \A i \in places :
    LET listed == {list[j] : j \in 1..(i - 1)}
    IN list[i] \notin listed /\ \A e \in coming : Date!Before(e, list[i]) => e \in listed

LEMMA FirstToCome ==
  ASSUME NEW S, S # {}, \A e \in S : e.due \in Nat /\ Date!KindNumber(e.kind) \in Nat
  PROVE  \E e \in S : \A o \in S : ~Date!Before(o, e)
<1> DEFINE D == {e.due : e \in S}
<1>1. D \subseteq Nat /\ D # {}
  OBVIOUS
<1>2. PICK d \in D : \A o \in D : d <= o
  <2> HIDE DEF D
  <2> QED BY <1>1, LeastNumber
<1> DEFINE K == {Date!KindNumber(e.kind) : e \in {e \in S : e.due = d}}
<1>3. K \subseteq Nat /\ K # {}
  OBVIOUS
<1>4. PICK k \in K : \A o \in K : k <= o
  <2> HIDE DEF K
  <2> QED BY <1>3, LeastNumber
<1>5. PICK e \in S : e.due = d /\ Date!KindNumber(e.kind) = k
  OBVIOUS
<1>6. ASSUME NEW o \in S PROVE ~Date!Before(o, e)
  <2>1. e.due <= o.due /\ e.due \in Nat /\ o.due \in Nat
    BY <1>2, <1>5
  <2>2. o.due = e.due => Date!KindNumber(e.kind) <= Date!KindNumber(o.kind)
    BY <1>4, <1>5
  <2>3. Date!KindNumber(e.kind) \in Nat /\ Date!KindNumber(o.kind) \in Nat
    OBVIOUS
  <2> QED BY <2>1, <2>2, <2>3 DEF Date!Before
<1> QED BY <1>6

LEMMA ListExists ==
  ASSUME NEW coming, IsFiniteSet(coming), NEW k \in Nat, k <= Cardinality(coming),
         \A e \in coming : e.due \in Nat /\ Date!KindNumber(e.kind) \in Nat
  PROVE  \E list \in [1..k -> coming] : Leads(list, 1..k, coming)
<1> DEFINE G == {n \in Nat : \E list \in [1..n -> coming] : Leads(list, 1..n, coming)}
<1>1. 0 \in G
  <2> DEFINE none == [i \in 1..0 |-> {}]
  <2>1. 1..0 = {}
    OBVIOUS
  <2>2. none \in [1..0 -> coming] /\ Leads(none, 1..0, coming)
    BY <2>1 DEF Leads
  <2> QED BY <2>2
<1>2. ASSUME NEW n \in 0..(k - 1), n \in G PROVE n + 1 \in G
  <2>1. PICK list \in [1..n -> coming] : Leads(list, 1..n, coming)
    BY <1>2
  <2> DEFINE taken == {list[j] : j \in 1..n}
             rest == coming \ taken
  <2>2. IsFiniteSet(1..n) /\ Cardinality(1..n) = n /\ n \in Nat /\ n < Cardinality(coming)
    <3>1. Cardinality(coming) \in Nat
      BY FS_CardinalityType
    <3>2. n \in Nat /\ n < Cardinality(coming)
      BY <3>1
    <3>3. IsFiniteSet(1..n) /\ Cardinality(1..n) = IF 1 > n THEN 0 ELSE n - 1 + 1
      BY <3>2, FS_Interval
    <3> QED BY <3>2, <3>3
  <2>3. IsFiniteSet(taken) /\ Cardinality(taken) <= n
    <3>1. list \in Surjection(1..n, taken)
      BY DEF Surjection
    <3> HIDE DEF taken
    <3> QED BY <2>2, <3>1, FS_Surjection
  <2>4. rest # {}
    <3> SUFFICES ASSUME rest = {} PROVE FALSE
      OBVIOUS
    <3>1. coming \subseteq taken
      OBVIOUS
    <3> HIDE DEF taken
    <3>2. Cardinality(coming) <= Cardinality(taken)
      BY <2>3, <3>1, FS_Subset
    <3>3. Cardinality(coming) \in Nat /\ Cardinality(taken) \in Nat
      BY <2>3, FS_CardinalityType
    <3> QED BY <2>2, <2>3, <3>2, <3>3
  <2>5. PICK e \in rest : \A o \in rest : ~Date!Before(o, e)
    <3>1. \A o \in rest : o.due \in Nat /\ Date!KindNumber(o.kind) \in Nat
      OBVIOUS
    <3> HIDE DEF rest
    <3> QED BY <2>4, <3>1, FirstToCome
  <2> DEFINE more == [i \in 1..(n + 1) |-> IF i = n + 1 THEN e ELSE list[i]]
  <2>6. /\ more \in [1..(n + 1) -> coming]
        /\ \A i \in 1..n : more[i] = list[i]
        /\ more[n + 1] = e
    <3>1. \A i \in 1..(n + 1) : i # n + 1 => i \in 1..n
      BY <2>2
    <3>2. \A i \in 1..n : i \in 1..(n + 1) /\ i # n + 1
      BY <2>2
    <3>3. n + 1 \in 1..(n + 1)
      BY <2>2
    <3> QED BY <3>1, <3>2, <3>3
  <2> HIDE DEF more
  <2>7. ASSUME NEW i \in 1..(n + 1)
        PROVE  LET listed == {more[j] : j \in 1..(i - 1)}
               IN more[i] \notin listed /\ \A o \in coming : Date!Before(o, more[i]) => o \in listed
    <3>1. \A j \in 1..(i - 1) : j \in 1..n
      BY <2>2
    <3>2. {more[j] : j \in 1..(i - 1)} = {list[j] : j \in 1..(i - 1)}
      BY <2>6, <3>1
    <3>3. CASE i = n + 1
      <4>1. 1..(i - 1) = 1..n
        BY <2>2, <3>3
      <4>2. {list[j] : j \in 1..(i - 1)} = taken
        BY <4>1
      <4>3. more[i] = e
        BY <2>6, <3>3
      <4>4. e \notin taken /\ \A o \in coming : Date!Before(o, e) => o \in taken
        BY <2>5
      <4> HIDE DEF taken
      <4> QED BY <3>2, <4>2, <4>3, <4>4
    <3>4. CASE i # n + 1
      <4>1. i \in 1..n
        BY <2>2, <3>4
      <4>2. LET listed == {list[j] : j \in 1..(i - 1)}
            IN list[i] \notin listed /\ \A o \in coming : Date!Before(o, list[i]) => o \in listed
        BY <2>1, <4>1 DEF Leads
      <4>3. more[i] = list[i]
        BY <2>6, <4>1
      <4> QED BY <3>2, <4>2, <4>3
    <3> QED BY <3>3, <3>4
  <2>8. Leads(more, 1..(n + 1), coming)
    BY <2>7 DEF Leads
  <2> QED BY <2>2, <2>6, <2>8
<1>3. 0..k \subseteq G
  <2> HIDE DEF G
  <2> QED BY <1>1, <1>2, UpToBound
<1>4. k \in G
  BY <1>3
<1> QED BY <1>4

LEMMA ReturnsAreListed == DateInv => Date!ReturnsListed
<1> SUFFICES ASSUME DateInv PROVE Date!ReturnsListed
  OBVIOUS
<1>1. ASSUME NEW m \in Date!Month, Date!StartOf[m] <= today, today <= Date!LastDay(m) + FilingDay,
             (Date!LastDay(m) + FilingDay) - today <= Horizon
      PROVE  {e.due : e \in {e \in Date!Calendar : e.kind = "vat_filing" /\ e.about = m}}
               = {Date!LastDay(m) + FilingDay}
  BY <1>1, OneFilingListed
<1> DEFINE coming == {e \in Date!Calendar : e.daysUntil >= 0}
           n == Date!Min({Upcoming, Date!Cardinality(coming)})
           list == Date!NextDeadlines
<1>2. /\ IsFiniteSet(coming)
      /\ \A e \in Date!Calendar : e.due \in Int /\ e.daysUntil = e.due - today
      /\ \A e \in coming : e.due \in Nat /\ Date!KindNumber(e.kind) \in Nat
  <2>1. today \in Nat
    BY Filed
  <2>2. DOMAIN Date!Kinds \subseteq Nat
    BY DEF Date!Kinds
  <2>3. \A e \in Date!Calendar : Date!KindNumber(e.kind) \in Nat
    BY <2>2, CalendarEvents DEF Date!KindNumber
  <2>4. \A e \in Date!Calendar : e.due \in Int /\ e.daysUntil = e.due - today
    BY CalendarEvents
  <2>5. IsFiniteSet(coming)
    BY CalendarEvents, FS_Subset
  <2>6. \A e \in coming : e.due \in Nat
    BY <2>1, <2>4
  <2> QED BY <2>3, <2>4, <2>5, <2>6
<1>3. n \in Nat /\ n <= Cardinality(coming)
  <2>1. Date!Cardinality(coming) = Cardinality(coming)
    BY DEF Date!Cardinality, Cardinality
  <2>2. Cardinality(coming) \in Nat /\ Upcoming \in Nat
    BY <1>2, FS_CardinalityType, CalendarAssumption
  <2> DEFINE S == {Upcoming, Cardinality(coming)}
  <2>3. n = CHOOSE x \in S : \A y \in S : x <= y
    BY <2>1 DEF Date!Min
  <2>4. \E x \in S : \A y \in S : x <= y
    BY <2>2
  <2> HIDE DEF S
  <2>5. n \in S /\ \A y \in S : n <= y
    BY <2>3, <2>4
  <2> QED BY <2>2, <2>5 DEF S
<1> HIDE DEF n
<1>4. \E l \in [1..n -> coming] : Leads(l, 1..n, coming)
  <2> HIDE DEF coming
  <2> QED BY <1>2, <1>3, ListExists
<1>5. list = CHOOSE l \in [1..n -> coming] : Leads(l, 1..n, coming)
  BY DEF Date!NextDeadlines, Leads, n
<1> HIDE DEF list, coming
<1>6. list \in [1..n -> coming] /\ Leads(list, 1..n, coming)
  BY <1>4, <1>5
<1>7. ASSUME list # <<>>, NEW e \in Date!Calendar, e.due >= today
      PROVE  list[1].due <= e.due
  <2>1. n # 0
    <3> SUFFICES ASSUME n = 0 PROVE FALSE
      OBVIOUS
    <3>1. 1..n = {}
      OBVIOUS
    <3> QED BY <1>6, <1>7, <3>1
  <2>2. 1 \in 1..n /\ list[1] \in coming
    BY <1>3, <1>6, <2>1
  <2>3. e \in coming
    <3>1. today \in Nat
      BY Filed
    <3> QED BY <1>2, <1>7, <3>1 DEF coming
  <2>4. ~Date!Before(e, list[1])
    <3>1. {list[j] : j \in 1..(1 - 1)} = {}
      OBVIOUS
    <3>2. Date!Before(e, list[1]) => e \in {list[j] : j \in 1..(1 - 1)}
      BY <1>6, <2>2, <2>3 DEF Leads
    <3> QED BY <3>1, <3>2
  <2>5. e.due \in Nat /\ list[1].due \in Nat
    BY <1>2, <2>2, <2>3
  <2> QED BY <2>4, <2>5 DEF Date!Before
<1>8. list # <<>> => \A e \in Date!Calendar : e.due >= today => list[1].due <= e.due
  BY <1>7
<1>9. \A m \in Date!Month :
        LET due == Date!LastDay(m) + FilingDay IN
        Date!StartOf[m] <= today /\ today <= due /\ due - today <= Horizon =>
          {e.due : e \in {e \in Date!Calendar : e.kind = "vat_filing" /\ e.about = m}} = {due}
  BY <1>1
<1> QED BY <1>8, <1>9 DEF Date!ReturnsListed, list

\* The calendar of any years: a return is listed until its day, on its day (bsdate.ts,
\* computeComplianceCalendar), the first of the next deadlines is the nearest, an entry
\* that carries no flag is in time for its return (flagIfBackdated), and invoices age by
\* the limits (agingBucket).
THEOREM FilingsAreRight == Spec => []FilingsRight
<1>1. DateInv => FilingsRight
  BY ReturnsAreListed, UnflaggedIsInTime, AgedRight DEF FilingsRight
<1> QED BY <1>1, DateAlways, PTL
-------------------------------------------------------------------------------
(* The Tally bridge *)

USE CountAssumption, TallyAssumption
-------------------------------------------------------------------------------
(* The invariant *)

\* A tally_connect under way has a row of its own that nobody else knows.
LinksSound ==
  /\ \A k \in Tally!Connector : k > issued => connectors[k].status = "absent"
  /\ \A o \in Setup : setup[o] # Tally!NoSetup =>
       setup[o].row \in 1..issued /\ connectors[setup[o].row].status = "absent"
  /\ \A o, p \in Setup :
       setup[o] # Tally!NoSetup /\ setup[p] # Tally!NoSetup /\ setup[o].row = setup[p].row => o = p

CallsSound == \A t \in Tool : tool[t].pc \in {"wait", "expire"} => tool[t].job \in Tally!Job

\* The result of a job is its own connector's, and about its own company.
ResultsSound ==
  \A j \in Tally!Job : jobs[j].status = "done" =>
    jobs[j].result.by = jobs[j].connector /\ jobs[j].result.company = jobs[j].company

\* A job in somebody's hand has been claimed, and is not queued again.
HandsSound ==
  \A w \in Worker : worker[w].job # 0 =>
    worker[w].connector # 0 /\ jobs[worker[w].job].status \notin {"absent", "queued"}

TallyInv ==
  /\ Tally!TypeOK /\ LinksSound /\ CallsSound /\ ResultsSound /\ HandsSound
  /\ Tally!ToldFromOwnConnector /\ Tally!OneHandPerJob /\ Tally!TokenKillsCode
-------------------------------------------------------------------------------
(* Rows, calls and installations after each of the writes to them *)

LEMMA RowsTyped ==
  ASSUME Tally!TypeOK
  PROVE  /\ \A k \in Tally!Connector : connectors[k] \in Tally!ConnectorRow
         /\ \A j \in Tally!Job : jobs[j] \in Tally!JobRow
         /\ \A t \in Tool : tool[t] \in Tally!Call
         /\ \A w \in Worker : /\ worker[w].connector \in 0..MaxConnectors
                              /\ worker[w].job \in 0..MaxJobs
         /\ MaxConnectors \in Nat \ {0} /\ MaxJobs \in Nat
BY DEF Tally!TypeOK

LEMMA NewConnector ==
  ASSUME NEW r \in Tally!ConnectorRow, NEW b \in BOOLEAN
  PROVE  /\ [r EXCEPT !.live = b] \in Tally!ConnectorRow
         /\ [r EXCEPT !.live = b].status = r.status /\ [r EXCEPT !.live = b].live = b
         /\ [r EXCEPT !.fresh = b] \in Tally!ConnectorRow
         /\ [r EXCEPT !.fresh = b].status = r.status /\ [r EXCEPT !.fresh = b].live = r.live
         /\ Tally!Revoked(r) \in Tally!ConnectorRow /\ Tally!Revoked(r).status = "revoked"
         /\ Tally!Exchanged(r) \in Tally!ConnectorRow
         /\ Tally!Exchanged(r).status = "active" /\ ~Tally!Exchanged(r).live
BY DEF Tally!ConnectorRow, Tally!Exchanged, Tally!Revoked

LEMMA NewCall ==
  ASSUME NEW c \in Tally!Call, NEW s \in Tally!ToolState, NEW k \in Tally!Connector, NEW j \in Tally!Job
  PROVE  /\ [c EXCEPT !.pc = s] \in Tally!Call
         /\ [c EXCEPT !.pc = s].pc = s /\ [c EXCEPT !.pc = s].job = c.job
         /\ [c EXCEPT !.pc = s, !.connector = k] \in Tally!Call
         /\ [c EXCEPT !.pc = s, !.connector = k].pc = s
         /\ [c EXCEPT !.pc = s, !.job = j] \in Tally!Call
         /\ [c EXCEPT !.pc = s, !.job = j].job = j
BY DEF Tally!Call

LEMMA NewJob ==
  ASSUME NEW r \in Tally!JobRow, NEW s \in Tally!JobStatus, NEW a \in Tally!Result
  PROVE  /\ [r EXCEPT !.status = s] \in Tally!JobRow
         /\ [r EXCEPT !.status = s].status = s
         /\ [r EXCEPT !.status = s].connector = r.connector
         /\ [r EXCEPT !.status = s].company = r.company
         /\ [r EXCEPT !.status = s].result = r.result
         /\ [r EXCEPT !.status = s, !.result = a] \in Tally!JobRow
         /\ [r EXCEPT !.status = s, !.result = a].status = s
         /\ [r EXCEPT !.status = s, !.result = a].connector = r.connector
         /\ [r EXCEPT !.status = s, !.result = a].company = r.company
         /\ [r EXCEPT !.status = s, !.result = a].result = a
BY DEF Tally!JobRow

LEMMA FirstState ==
  /\ Tally!NoConnector \in Tally!ConnectorRow /\ Tally!NoConnector.status = "absent"
  /\ Tally!NoResult \in Tally!Result
  /\ Tally!NoJob \in Tally!JobRow /\ Tally!NoJob.status = "absent"
  /\ Tally!NoCall \in Tally!Call /\ Tally!NoCall.pc = "idle" /\ Tally!NoCall.job = 0
  /\ Tally!NoSetup \in [row: 0..MaxConnectors, seen: SUBSET Tally!Connector]
<1>1. 1 \in Tally!Connector /\ NoCompany \in Tally!Scope
  BY DEF Tally!Connector, Tally!Scope
<1>2. Tally!NoConnector \in Tally!ConnectorRow /\ Tally!NoConnector.status = "absent"
  BY DEF Tally!NoConnector, Tally!ConnectorRow
<1>3. Tally!NoResult \in Tally!Result
  BY <1>1 DEF Tally!NoResult, Tally!Result
<1>4. Tally!NoJob \in Tally!JobRow /\ Tally!NoJob.status = "absent"
  BY <1>1, <1>3 DEF Tally!NoJob, Tally!JobRow, Tally!JobStatus
<1>5. Tally!NoCall \in Tally!Call /\ Tally!NoCall.pc = "idle" /\ Tally!NoCall.job = 0
  BY <1>1 DEF Tally!NoCall, Tally!Call, Tally!ToolState
<1>6. Tally!NoSetup \in [row: 0..MaxConnectors, seen: SUBSET Tally!Connector]
  BY DEF Tally!NoSetup
<1> QED BY <1>2, <1>3, <1>4, <1>5, <1>6
-------------------------------------------------------------------------------
(* What disturbs no link, and what no job *)

LEMMA LinksKept ==
  ASSUME TallyInv, issued' = issued, setup' = setup,
         \A k \in Tally!Connector : /\ connectors'[k].status = connectors[k].status
                                    /\ connectors'[k].live => connectors[k].live,
         \A w \in Worker : worker'[w].connector \in {0, worker[w].connector}
  PROVE  LinksSound' /\ (Tally!TokenKillsCode)'
<1>0. LinksSound /\ Tally!TokenKillsCode /\ Tally!TypeOK
  BY DEF TallyInv
<1>1. LinksSound'
  <2>1. \A o \in Setup : setup[o] # Tally!NoSetup => setup[o].row \in Tally!Connector
    BY <1>0 DEF LinksSound, Tally!TypeOK, Tally!Connector
  <2> QED BY <1>0, <2>1 DEF LinksSound
<1>2. (Tally!TokenKillsCode)'
  BY <1>0, RowsTyped DEF Tally!TokenKillsCode, Tally!Connector
<1> QED BY <1>1, <1>2

\* A job only moves on, and one that is done does not move.
MovesOn(j) ==
  /\ jobs[j].status = "done" => jobs'[j] = jobs[j]
  /\ jobs'[j].status \in {"absent", "queued"} => jobs[j].status \in {"absent", "queued"}
  /\ jobs'[j].status = "done" =>
       jobs'[j].result.by = jobs'[j].connector /\ jobs'[j].result.company = jobs'[j].company

LEMMA JobsKept ==
  ASSUME TallyInv, told' = told, \A j \in Tally!Job : MovesOn(j),
         \A w \in Worker : \/ worker'[w].job = 0
                           \/ worker'[w].job = worker[w].job /\ worker'[w].connector = worker[w].connector
  PROVE  ResultsSound' /\ HandsSound' /\ (Tally!ToldFromOwnConnector)' /\ (Tally!OneHandPerJob)'
<1>0. /\ Tally!TypeOK /\ ResultsSound /\ HandsSound
      /\ Tally!ToldFromOwnConnector /\ Tally!OneHandPerJob
  BY DEF TallyInv
<1>1. ResultsSound'
  BY DEF ResultsSound, MovesOn
<1>2. HandsSound'
  <2> SUFFICES ASSUME NEW w \in Worker, worker'[w].job # 0
               PROVE  worker'[w].connector # 0 /\ jobs'[worker'[w].job].status \notin {"absent", "queued"}
    BY DEF HandsSound
  <2>1. worker'[w].job = worker[w].job /\ worker'[w].connector = worker[w].connector
    OBVIOUS
  <2>2. worker[w].job \in Tally!Job
    BY <1>0, <2>1, RowsTyped DEF Tally!Job
  <2> QED BY <1>0, <2>1, <2>2 DEF HandsSound, MovesOn
<1>3. (Tally!ToldFromOwnConnector)'
  <2> SUFFICES ASSUME NEW a \in told
               PROVE  /\ jobs'[a.job].status = "done"
                      /\ jobs'[a.job].result.company = a.asked
                      /\ jobs'[a.job].result.by = jobs'[a.job].connector
                      /\ ~(Production /\ jobs'[a.job].result.simulator)
    BY DEF Tally!ToldFromOwnConnector
  <2>1. a.job \in Tally!Job
    BY <1>0 DEF Tally!TypeOK
  <2>2. jobs[a.job].status = "done"
    BY <1>0 DEF Tally!ToldFromOwnConnector
  <2>3. jobs'[a.job] = jobs[a.job]
    BY <2>1, <2>2 DEF MovesOn
  <2> QED BY <1>0, <2>3 DEF Tally!ToldFromOwnConnector
<1>4. (Tally!OneHandPerJob)'
  BY <1>0 DEF Tally!OneHandPerJob
<1> QED BY <1>1, <1>2, <1>3, <1>4
-------------------------------------------------------------------------------
(* Linking a computer *)

\* A code nobody has seen yet gets the next row.
LEMMA RevokeStep ==
  ASSUME TallyInv, NEW o \in Setup, Tally!RevokePending(o)
  PROVE  TallyInv'
<1>0. Tally!TypeOK /\ LinksSound /\ CallsSound /\ Tally!TokenKillsCode
  BY DEF TallyInv
<1>1. /\ issued < MaxConnectors /\ issued' = issued + 1 /\ issued \in Nat
      /\ setup' = [setup EXCEPT ![o] = [row |-> issued + 1, seen |-> Tally!Pending]]
      /\ UNCHANGED <<connectors, catalog, bound, jobs, tool, worker, told>>
  BY <1>0 DEF Tally!RevokePending, Tally!companyVars, Tally!TypeOK
<1> DEFINE new == [row |-> issued + 1, seen |-> Tally!Pending]
<1>2. new \in [row: 0..MaxConnectors, seen: SUBSET Tally!Connector] /\ new.row = issued + 1
  BY <1>0, <1>1 DEF Tally!Pending, Tally!TypeOK
<1> HIDE DEF new
<1>3. setup'[o] = new /\ \A p \in Setup \ {o} : setup'[p] = setup[p]
  BY <1>0, <1>1 DEF Tally!TypeOK, new
<1>4. (Tally!TypeOK)'
  <2>1. setup' \in [Setup -> [row: 0..MaxConnectors, seen: SUBSET Tally!Connector]]
    BY <1>0, <1>1, <1>2 DEF Tally!TypeOK, new
  <2>2. issued' \in 0..MaxConnectors
    BY <1>0, <1>1 DEF Tally!TypeOK
  <2> QED BY <1>0, <1>1, <2>1, <2>2 DEF Tally!TypeOK
<1>5. LinksSound'
  <2>1. connectors[issued + 1].status = "absent"
    BY <1>0, <1>1, RowsTyped DEF LinksSound, Tally!Connector
  <2>2. \A p \in Setup \ {o} : setup[p] # Tally!NoSetup => setup[p].row # issued + 1
    BY <1>0, <1>1 DEF LinksSound
  <2>3. \A k \in Tally!Connector : k > issued' => connectors'[k].status = "absent"
    BY <1>0, <1>1 DEF LinksSound, Tally!Connector
  <2>4. \A p \in Setup : setup'[p] # Tally!NoSetup =>
          setup'[p].row \in 1..issued' /\ connectors'[setup'[p].row].status = "absent"
    BY <1>0, <1>1, <1>2, <1>3, <2>1 DEF LinksSound
  <2>5. \A p, q \in Setup :
          setup'[p] # Tally!NoSetup /\ setup'[q] # Tally!NoSetup /\ setup'[p].row = setup'[q].row => p = q
    BY <1>0, <1>2, <1>3, <2>2 DEF LinksSound
  <2> QED BY <2>3, <2>4, <2>5 DEF LinksSound
<1>6. CallsSound' /\ (Tally!TokenKillsCode)'
  BY <1>0, <1>1 DEF CallsSound, Tally!TokenKillsCode
<1>7. ResultsSound' /\ HandsSound' /\ (Tally!ToldFromOwnConnector)' /\ (Tally!OneHandPerJob)'
  <2>1. \A j \in Tally!Job : MovesOn(j)
    BY <1>1 DEF MovesOn, TallyInv, ResultsSound
  <2> QED BY <1>1, <2>1, JobsKept
<1> QED BY <1>4, <1>5, <1>6, <1>7 DEF TallyInv

\* The new code's row is nobody's, and the rows it supersedes are pending: no
\* token in use is touched.
LEMMA IssueStep ==
  ASSUME TallyInv, NEW o \in Setup, Tally!IssueCode(o)
  PROVE  TallyInv'
<1> DEFINE r == setup[o].row
           new == [status |-> "pending", live |-> TRUE, fresh |-> FALSE]
<1>0. Tally!TypeOK /\ LinksSound /\ CallsSound /\ Tally!TokenKillsCode
  BY DEF TallyInv
<1>1. /\ setup[o] # Tally!NoSetup /\ setup' = [setup EXCEPT ![o] = Tally!NoSetup]
      /\ connectors' = [k \in Tally!Connector |->
           IF k = r THEN new
           ELSE IF k \in Tally!Superseded(o) THEN Tally!Revoked(connectors[k])
           ELSE connectors[k]]
      /\ UNCHANGED <<issued, catalog, bound, jobs, tool, worker, told>>
  BY DEF Tally!IssueCode, Tally!companyVars
<1>2. new \in Tally!ConnectorRow
  BY DEF Tally!ConnectorRow
<1>3. r \in 1..issued /\ connectors[r].status = "absent" /\ r \in Tally!Connector /\ issued \in 0..MaxConnectors
  BY <1>0, <1>1 DEF LinksSound, Tally!TypeOK, Tally!Connector
<1>4. \A k \in Tally!Superseded(o) : k \in Tally!Connector /\ connectors[k].status = "pending"
  BY DEF Tally!Superseded, Tally!Pending
<1> HIDE DEF r, new
<1>5. /\ \A k \in Tally!Connector : connectors'[k] \in Tally!ConnectorRow
      /\ \A k \in Tally!Connector : k # r /\ connectors[k].status # "pending" => connectors'[k] = connectors[k]
      /\ \A k \in Tally!Connector : k # r /\ connectors[k].status = "absent" => connectors'[k].status = "absent"
  <2> SUFFICES ASSUME NEW k \in Tally!Connector
               PROVE  /\ connectors'[k] \in Tally!ConnectorRow
                      /\ k # r /\ connectors[k].status # "pending" => connectors'[k] = connectors[k]
    OBVIOUS
  <2>1. connectors[k] \in Tally!ConnectorRow
    BY <1>0, RowsTyped
  <2>2. CASE k = r
    BY <1>1, <1>2, <2>2
  <2>3. CASE k # r /\ k \in Tally!Superseded(o)
    BY <1>1, <1>4, <2>1, <2>3, NewConnector
  <2>4. CASE k # r /\ k \notin Tally!Superseded(o)
    BY <1>1, <2>1, <2>4
  <2> QED BY <2>2, <2>3, <2>4
<1>6. connectors' \in [Tally!Connector -> Tally!ConnectorRow]
  BY <1>1, <1>5
<1>7. setup'[o] = Tally!NoSetup /\ \A p \in Setup \ {o} : setup'[p] = setup[p]
  BY <1>0, <1>1 DEF Tally!TypeOK
<1>8. (Tally!TypeOK)'
  <2>1. setup' \in [Setup -> [row: 0..MaxConnectors, seen: SUBSET Tally!Connector]]
    BY <1>0, <1>1, FirstState DEF Tally!TypeOK
  <2> QED BY <1>0, <1>1, <1>6, <2>1 DEF Tally!TypeOK
<1>9. LinksSound'
  <2>1. \A p \in Setup \ {o} : setup[p] # Tally!NoSetup => setup[p].row # r
    BY <1>0, <1>1 DEF LinksSound, r
  <2>2. \A k \in Tally!Connector : k > issued => connectors'[k].status = "absent"
    BY <1>0, <1>3, <1>5 DEF LinksSound, Tally!Connector
  <2>3. \A p \in Setup : setup'[p] # Tally!NoSetup =>
          setup'[p].row \in 1..issued /\ connectors'[setup'[p].row].status = "absent"
    BY <1>0, <1>3, <1>5, <1>7, <2>1 DEF LinksSound, Tally!Connector
  <2>4. \A p, q \in Setup :
          setup'[p] # Tally!NoSetup /\ setup'[q] # Tally!NoSetup /\ setup'[p].row = setup'[q].row => p = q
    BY <1>0, <1>7 DEF LinksSound
  <2> QED BY <1>1, <2>2, <2>3, <2>4 DEF LinksSound
<1>10. CallsSound'
  BY <1>0, <1>1 DEF CallsSound
<1>11. (Tally!TokenKillsCode)'
  <2> SUFFICES ASSUME NEW w \in Worker, worker[w].connector # 0
               PROVE  LET k == worker[w].connector
                      IN connectors'[k].status = "active" /\ ~connectors'[k].live
    BY <1>1 DEF Tally!TokenKillsCode
  <2> DEFINE k == worker[w].connector
  <2>1. k \in Tally!Connector /\ connectors[k].status = "active" /\ ~connectors[k].live
    BY <1>0, RowsTyped DEF Tally!TokenKillsCode, Tally!Connector
  <2>2. connectors'[k] = connectors[k]
    BY <1>3, <1>5, <2>1
  <2> QED BY <2>1, <2>2
<1>12. ResultsSound' /\ HandsSound' /\ (Tally!ToldFromOwnConnector)' /\ (Tally!OneHandPerJob)'
  <2>1. \A j \in Tally!Job : MovesOn(j)
    BY <1>1 DEF MovesOn, TallyInv, ResultsSound
  <2> QED BY <1>1, <2>1, JobsKept
<1> QED BY <1>8, <1>9, <1>10, <1>11, <1>12 DEF TallyInv

\* The exchange consumes the code of the row whose token is given out.
LEMMA RegisterStep ==
  ASSUME TallyInv, NEW w \in Worker, NEW k \in Tally!Connector, NEW saved \in BOOLEAN,
         Tally!Register(w, k, saved)
  PROVE  TallyInv'
<1> DEFINE row == Tally!Exchanged(connectors[k])
           mine == IF saved THEN k ELSE 0
<1>0. /\ Tally!TypeOK /\ LinksSound /\ CallsSound /\ HandsSound /\ Tally!TokenKillsCode
      /\ connectors[k] \in Tally!ConnectorRow
  BY RowsTyped DEF TallyInv
<1>1. /\ worker[w].connector = 0 /\ connectors[k].status = "pending"
      /\ connectors' = [connectors EXCEPT ![k] = row]
      /\ worker' = [worker EXCEPT ![w].connector = mine]
      /\ UNCHANGED <<issued, setup, catalog, bound, jobs, tool, told>>
  BY DEF Tally!Register, Tally!companyVars
<1>2. row \in Tally!ConnectorRow /\ row.status = "active" /\ ~row.live
  BY <1>0, NewConnector
<1>3. mine \in 0..MaxConnectors /\ (mine = 0 \/ mine = k)
  BY DEF Tally!Connector
<1> HIDE DEF row, mine
<1>4. connectors'[k] = row /\ \A m \in Tally!Connector \ {k} : connectors'[m] = connectors[m]
  BY <1>0, <1>1 DEF Tally!TypeOK
<1>5. /\ worker'[w].connector = mine /\ worker'[w].job = worker[w].job
      /\ \A v \in Worker \ {w} : worker'[v] = worker[v]
      /\ worker' \in [Worker -> [connector: 0..MaxConnectors, job: 0..MaxJobs]]
  BY <1>0, <1>1, <1>3 DEF Tally!TypeOK
<1>6. (Tally!TypeOK)'
  BY <1>0, <1>1, <1>2, <1>5 DEF Tally!TypeOK
<1>7. LinksSound'
  <2>1. ASSUME NEW m \in Tally!Connector, m > issued' PROVE connectors'[m].status = "absent"
    <3>1. connectors[m].status = "absent"
      BY <1>0, <1>1, <2>1 DEF LinksSound
    <3> QED BY <1>1, <1>4, <2>1, <3>1
  <2>2. ASSUME NEW o \in Setup, setup'[o] # Tally!NoSetup
        PROVE  setup'[o].row \in 1..issued' /\ connectors'[setup'[o].row].status = "absent"
    <3>1. setup[o].row \in 1..issued /\ connectors[setup[o].row].status = "absent"
      BY <1>0, <1>1, <2>2 DEF LinksSound
    <3>2. setup[o].row # k /\ setup[o].row \in Tally!Connector
      BY <1>0, <1>1, <3>1 DEF Tally!TypeOK, Tally!Connector
    <3> QED BY <1>1, <1>4, <3>1, <3>2
  <2>3. ASSUME NEW o \in Setup, NEW p \in Setup,
               setup'[o] # Tally!NoSetup, setup'[p] # Tally!NoSetup, setup'[o].row = setup'[p].row
        PROVE  o = p
    BY <1>0, <1>1, <2>3 DEF LinksSound
  <2> QED BY <2>1, <2>2, <2>3 DEF LinksSound
<1>8. CallsSound'
  BY <1>0, <1>1 DEF CallsSound
<1>9. (Tally!TokenKillsCode)'
  <2> SUFFICES ASSUME NEW v \in Worker, worker'[v].connector # 0
               PROVE  LET m == worker'[v].connector
                      IN connectors'[m].status = "active" /\ ~connectors'[m].live
    BY DEF Tally!TokenKillsCode
  <2>1. CASE v = w
    BY <1>2, <1>3, <1>4, <1>5, <2>1
  <2>2. CASE v # w
    <3>1. /\ worker'[v].connector = worker[v].connector /\ worker[v].connector \in Tally!Connector
      BY <1>0, <1>5, <2>2, RowsTyped DEF Tally!Connector
    <3> QED BY <1>0, <1>1, <1>2, <1>4, <3>1 DEF Tally!TokenKillsCode
  <2> QED BY <2>1, <2>2
<1>10. worker[w].job = 0
  BY <1>0, <1>1 DEF HandsSound
<1>11. ResultsSound' /\ HandsSound' /\ (Tally!ToldFromOwnConnector)' /\ (Tally!OneHandPerJob)'
  <2>1. \A j \in Tally!Job : MovesOn(j)
    BY <1>1 DEF MovesOn, TallyInv, ResultsSound
  <2>2. \A v \in Worker : \/ worker'[v].job = 0
                          \/ worker'[v].job = worker[v].job /\ worker'[v].connector = worker[v].connector
    BY <1>5, <1>10
  <2> QED BY <1>1, <2>1, <2>2, JobsKept
<1> QED BY <1>6, <1>7, <1>8, <1>9, <1>11 DEF TallyInv

\* Forgetting a token, passing it on, and what time does to codes and connectors.
LEMMA LinkSteps ==
  ASSUME TallyInv, Tally!Link
  PROVE  TallyInv'
<1>0. Tally!TypeOK /\ CallsSound /\ HandsSound /\ Tally!TokenKillsCode
  BY DEF TallyInv
<1>m. ASSUME jobs' = jobs PROVE \A j \in Tally!Job : MovesOn(j)
  BY <1>m DEF MovesOn, TallyInv, ResultsSound
<1>1. ASSUME NEW w \in Worker, Tally!Forget(w) PROVE TallyInv'
  <2>1. /\ worker' = [worker EXCEPT ![w] = [connector |-> 0, job |-> 0]]
        /\ UNCHANGED <<connectors, issued, setup, catalog, bound, jobs, tool, told>>
    BY <1>1 DEF Tally!Forget, Tally!linkVars, Tally!companyVars
  <2>2. /\ worker' \in [Worker -> [connector: 0..MaxConnectors, job: 0..MaxJobs]]
        /\ worker'[w].connector = 0 /\ worker'[w].job = 0
        /\ \A v \in Worker \ {w} : worker'[v] = worker[v]
    BY <1>0, <2>1 DEF Tally!TypeOK
  <2>3. (Tally!TypeOK)' /\ CallsSound'
    BY <1>0, <2>1, <2>2 DEF Tally!TypeOK, CallsSound
  <2>4. \A v \in Worker : worker'[v].connector \in {0, worker[v].connector}
    BY <2>2
  <2>5. LinksSound' /\ (Tally!TokenKillsCode)'
    BY <2>1, <2>4, LinksKept
  <2>6. \A v \in Worker : \/ worker'[v].job = 0
                          \/ worker'[v].job = worker[v].job /\ worker'[v].connector = worker[v].connector
    BY <2>2
  <2>7. ResultsSound' /\ HandsSound' /\ (Tally!ToldFromOwnConnector)' /\ (Tally!OneHandPerJob)'
    BY <1>m, <2>1, <2>6, JobsKept
  <2> QED BY <2>3, <2>5, <2>7 DEF TallyInv
<1>2. ASSUME NEW w \in Worker, NEW v \in Worker, Tally!Copy(w, v) PROVE TallyInv'
  <2>1. /\ worker[w].connector # 0 /\ worker[v].connector = 0
        /\ worker' = [worker EXCEPT ![v].connector = worker[w].connector]
        /\ UNCHANGED <<connectors, issued, setup, catalog, bound, jobs, tool, told>>
    BY <1>2 DEF Tally!Copy, Tally!linkVars, Tally!companyVars
  <2>2. /\ worker' \in [Worker -> [connector: 0..MaxConnectors, job: 0..MaxJobs]]
        /\ worker'[v].connector = worker[w].connector /\ worker'[v].job = worker[v].job
        /\ \A u \in Worker \ {v} : worker'[u] = worker[u]
    BY <1>0, <2>1, RowsTyped DEF Tally!TypeOK
  <2>3. (Tally!TypeOK)' /\ CallsSound'
    BY <1>0, <2>1, <2>2 DEF Tally!TypeOK, CallsSound
  <2>4. LinksSound'
    BY <2>1 DEF TallyInv, LinksSound
  <2>5. (Tally!TokenKillsCode)'
    BY <1>0, <2>1, <2>2 DEF Tally!TokenKillsCode
  <2>6. worker[v].job = 0
    BY <1>0, <2>1 DEF HandsSound
  <2>7. \A u \in Worker : \/ worker'[u].job = 0
                          \/ worker'[u].job = worker[u].job /\ worker'[u].connector = worker[u].connector
    BY <2>2, <2>6
  <2>8. ResultsSound' /\ HandsSound' /\ (Tally!ToldFromOwnConnector)' /\ (Tally!OneHandPerJob)'
    BY <1>m, <2>1, <2>7, JobsKept
  <2> QED BY <2>3, <2>4, <2>5, <2>8 DEF TallyInv
<1>3. ASSUME NEW k \in Tally!Connector, Tally!ExpireCode(k) \/ Tally!GoStale(k) PROVE TallyInv'
  <2> DEFINE a == [connectors[k] EXCEPT !.live = FALSE]
             b == [connectors[k] EXCEPT !.fresh = FALSE]
  <2>1. /\ connectors' = [connectors EXCEPT ![k] = a] \/ connectors' = [connectors EXCEPT ![k] = b]
        /\ UNCHANGED <<issued, setup, catalog, bound, jobs, tool, worker, told>>
    BY <1>3 DEF Tally!ExpireCode, Tally!GoStale, Tally!companyVars
  <2>2. /\ a \in Tally!ConnectorRow /\ a.status = connectors[k].status /\ ~a.live
        /\ b \in Tally!ConnectorRow /\ b.status = connectors[k].status /\ b.live = connectors[k].live
    BY <1>0, RowsTyped, NewConnector
  <2> HIDE DEF a, b
  <2>3. /\ connectors' \in [Tally!Connector -> Tally!ConnectorRow]
        /\ \A m \in Tally!Connector : /\ connectors'[m].status = connectors[m].status
                                      /\ connectors'[m].live => connectors[m].live
    BY <1>0, <2>1, <2>2 DEF Tally!TypeOK
  <2>4. (Tally!TypeOK)' /\ CallsSound'
    BY <1>0, <2>1, <2>3 DEF Tally!TypeOK, CallsSound
  <2>5. LinksSound' /\ (Tally!TokenKillsCode)'
    BY <2>1, <2>3, LinksKept
  <2>6. ResultsSound' /\ HandsSound' /\ (Tally!ToldFromOwnConnector)' /\ (Tally!OneHandPerJob)'
    BY <1>m, <2>1, JobsKept
  <2> QED BY <2>4, <2>5, <2>6 DEF TallyInv
<1> QED BY <1>1, <1>2, <1>3, RevokeStep, IssueStep, RegisterStep DEF Tally!Link
-------------------------------------------------------------------------------
(* Tool calls *)

\* A call moves or returns, and touches neither links nor jobs.
LEMMA CallMoves ==
  ASSUME TallyInv, NEW t \in Tool, NEW c \in Tally!Call, tool' = [tool EXCEPT ![t] = c],
         c.pc \in {"wait", "expire"} => c.job \in Tally!Job,
         connectors' = connectors, issued' = issued, setup' = setup, worker' = worker
  PROVE  CallsSound' /\ tool' \in [Tool -> Tally!Call] /\ LinksSound' /\ (Tally!TokenKillsCode)'
<1>0. Tally!TypeOK /\ CallsSound
  BY DEF TallyInv
<1>1. tool'[t] = c /\ \A u \in Tool \ {t} : tool'[u] = tool[u]
  BY <1>0 DEF Tally!TypeOK
<1>2. CallsSound'
  BY <1>0, <1>1 DEF CallsSound
<1>3. LinksSound' /\ (Tally!TokenKillsCode)'
  BY LinksKept
<1> QED BY <1>0, <1>2, <1>3 DEF Tally!TypeOK

\* The calls that only read.
LEMMA ReadSteps ==
  ASSUME TallyInv, NEW t \in Tool,
         \/ Tally!Ask(t) \/ Tally!PickConnector(t) \/ Tally!Unavailable(t)
         \/ Tally!AnswerFailed(t) \/ Tally!Deadline(t) \/ Tally!ToolDies(t)
  PROVE  TallyInv'
<1>0. Tally!TypeOK /\ CallsSound /\ tool[t] \in Tally!Call /\ tool \in [Tool -> Tally!Call]
  BY RowsTyped DEF TallyInv, Tally!TypeOK
<1>1. UNCHANGED <<connectors, issued, setup, catalog, bound, worker, jobs, told>>
  BY DEF Tally!Ask, Tally!PickConnector, Tally!Unavailable, Tally!AnswerFailed, Tally!Deadline,
         Tally!ToolDies, Tally!toolRest, Tally!linkVars
<1>2. \E c \in Tally!Call :
        tool' = [tool EXCEPT ![t] = c] /\ (c.pc \in {"wait", "expire"} => c.job \in Tally!Job)
  <2>1. ASSUME Tally!Ask(t) PROVE <1>2
    <3>1. PICK c \in {bound, NoCompany} :
            tool' = [tool EXCEPT ![t] = [Tally!NoCall EXCEPT !.pc = "dispatch", !.company = c]]
      BY <2>1 DEF Tally!Ask
    <3> DEFINE new == [Tally!NoCall EXCEPT !.pc = "dispatch", !.company = c]
    <3>2. c \in Tally!Scope
      BY <1>0 DEF Tally!TypeOK, Tally!Scope
    <3>3. new \in Tally!Call /\ new.pc = "dispatch"
      <4>1. Tally!NoCall \in Tally!Call
        BY FirstState
      <4> QED BY <3>2, <4>1 DEF Tally!Call, Tally!ToolState
    <3> HIDE DEF new
    <3> QED BY <3>1, <3>3 DEF new
  <2>2. ASSUME Tally!PickConnector(t) PROVE <1>2
    <3>1. PICK k \in Tally!Connector : tool' = [tool EXCEPT ![t].pc = "queue", ![t].connector = k]
      BY <2>2 DEF Tally!PickConnector
    <3> DEFINE new == [tool[t] EXCEPT !.pc = "queue", !.connector = k]
    <3>2. tool' = [tool EXCEPT ![t] = new]
      BY <1>0, <3>1
    <3>3. "queue" \in Tally!ToolState
      BY DEF Tally!ToolState
    <3>4. new \in Tally!Call /\ new.pc = "queue"
      BY <1>0, <3>3 DEF Tally!Call
    <3> HIDE DEF new
    <3> QED BY <3>2, <3>4
  <2>3. ASSUME tool' = [tool EXCEPT ![t] = Tally!NoCall] PROVE <1>2
    BY <2>3, FirstState
  <2>4. ASSUME Tally!Deadline(t) PROVE <1>2
    <3> DEFINE new == [tool[t] EXCEPT !.pc = "expire"]
    <3>1. tool[t].pc = "wait" /\ tool' = [tool EXCEPT ![t] = new]
      BY <2>4 DEF Tally!Deadline, Tally!Goto
    <3>2. "expire" \in Tally!ToolState
      BY DEF Tally!ToolState
    <3>3. new \in Tally!Call /\ new.job = tool[t].job
      BY <1>0, <3>2 DEF Tally!Call
    <3>4. new.job \in Tally!Job
      BY <1>0, <3>1, <3>3 DEF CallsSound
    <3> HIDE DEF new
    <3> QED BY <3>1, <3>3, <3>4
  <2> QED BY <2>1, <2>2, <2>3, <2>4
        DEF Tally!Unavailable, Tally!AnswerFailed, Tally!ToolDies, Tally!Return
<1>3. CallsSound' /\ tool' \in [Tool -> Tally!Call] /\ LinksSound' /\ (Tally!TokenKillsCode)'
  BY <1>1, <1>2, CallMoves
<1>4. (Tally!TypeOK)'
  BY <1>0, <1>1, <1>3 DEF Tally!TypeOK
<1>5. ResultsSound' /\ HandsSound' /\ (Tally!ToldFromOwnConnector)' /\ (Tally!OneHandPerJob)'
  <2>1. \A j \in Tally!Job : MovesOn(j)
    BY <1>1 DEF MovesOn, TallyInv, ResultsSound
  <2> QED BY <1>1, <2>1, JobsKept
<1> QED BY <1>3, <1>4, <1>5 DEF TallyInv

\* A question becomes a job for the connector it was given to.
LEMMA EnqueueFacts ==
  ASSUME TallyInv, NEW t \in Tool, Tally!Enqueue(t)
  PROVE  \E j \in Tally!Job, row \in Tally!JobRow, c \in Tally!Call :
           /\ jobs[j].status = "absent" /\ jobs' = [jobs EXCEPT ![j] = row]
           /\ row.status = "queued" /\ row.connector \in Tally!Connector /\ row.company \in Tally!Scope
           /\ tool' = [tool EXCEPT ![t] = c] /\ c.job = j
           /\ UNCHANGED <<connectors, issued, setup, catalog, bound, worker, told>>
<1>0. Tally!TypeOK /\ tool[t] \in Tally!Call /\ tool \in [Tool -> Tally!Call]
  BY RowsTyped DEF TallyInv, Tally!TypeOK
<1>1. PICK j \in Tally!Job :
        /\ Tally!Unused = j..MaxJobs
        /\ jobs' = [jobs EXCEPT ![j] = [Tally!NoJob EXCEPT !.status = "queued",
                      !.connector = tool[t].connector, !.company = tool[t].company]]
        /\ tool' = [tool EXCEPT ![t].pc = "wait", ![t].job = j]
  BY DEF Tally!Enqueue
<1>2. UNCHANGED <<connectors, issued, setup, catalog, bound, worker, told>>
  BY DEF Tally!Enqueue, Tally!toolRest, Tally!linkVars
<1>3. jobs[j].status = "absent"
  <2>1. j \in j..MaxJobs
    BY DEF Tally!Job
  <2> QED BY <1>1, <2>1 DEF Tally!Unused
<1> DEFINE k == tool[t].connector
           s == tool[t].company
           row == [Tally!NoJob EXCEPT !.status = "queued", !.connector = k, !.company = s]
           c == [tool[t] EXCEPT !.pc = "wait", !.job = j]
<1>4. k \in Tally!Connector /\ s \in Tally!Scope
  BY <1>0 DEF Tally!Call
<1>5. row \in Tally!JobRow /\ row.status = "queued" /\ row.connector = k /\ row.company = s
  <2> HIDE DEF k, s
  <2>1. Tally!NoJob \in Tally!JobRow /\ "queued" \in Tally!JobStatus
    BY FirstState DEF Tally!JobStatus
  <2> QED BY <1>4, <2>1 DEF Tally!JobRow
<1>6. c \in Tally!Call /\ c.job = j
  <2>1. "wait" \in Tally!ToolState
    BY DEF Tally!ToolState
  <2> QED BY <1>0, <2>1 DEF Tally!Call
<1>7. tool' = [tool EXCEPT ![t] = c]
  BY <1>0, <1>1
<1> HIDE DEF row, c
<1>8. jobs' = [jobs EXCEPT ![j] = row]
  BY <1>1 DEF row
<1> QED BY <1>2, <1>3, <1>4, <1>5, <1>6, <1>7, <1>8

LEMMA EnqueueStep ==
  ASSUME TallyInv, NEW t \in Tool, Tally!Enqueue(t)
  PROVE  TallyInv'
<1>0. Tally!TypeOK /\ CallsSound
  BY DEF TallyInv
<1>1. PICK j \in Tally!Job, row \in Tally!JobRow, c \in Tally!Call :
        /\ jobs[j].status = "absent" /\ jobs' = [jobs EXCEPT ![j] = row] /\ row.status = "queued"
        /\ tool' = [tool EXCEPT ![t] = c] /\ c.job = j
        /\ UNCHANGED <<connectors, issued, setup, catalog, bound, worker, told>>
  BY EnqueueFacts
<1>2. CallsSound' /\ tool' \in [Tool -> Tally!Call] /\ LinksSound' /\ (Tally!TokenKillsCode)'
  BY <1>1, CallMoves
<1>3. jobs'[j] = row /\ \A i \in Tally!Job \ {j} : jobs'[i] = jobs[i]
  BY <1>0, <1>1 DEF Tally!TypeOK
<1>4. (Tally!TypeOK)'
  BY <1>0, <1>1, <1>2 DEF Tally!TypeOK
<1>5. \A i \in Tally!Job : MovesOn(i)
  BY <1>1, <1>3 DEF MovesOn, TallyInv, ResultsSound
<1>6. ResultsSound' /\ HandsSound' /\ (Tally!ToldFromOwnConnector)' /\ (Tally!OneHandPerJob)'
  BY <1>1, <1>5, JobsKept
<1> QED BY <1>2, <1>4, <1>6 DEF TallyInv

\* What is told is the done job's own result, for the company asked about.
LEMMA AnswerFacts ==
  ASSUME TallyInv, NEW t \in Tool, Tally!AnswerOk(t)
  PROVE  LET j == tool[t].job
         IN /\ j \in Tally!Job /\ jobs[j].status = "done" /\ jobs[j].company = tool[t].company
            /\ jobs[j].result.company = tool[t].company
            /\ ~(jobs[j].result.simulator /\ Production)
            /\ told' = told \cup {[asked |-> tool[t].company, job |-> j]}
<1>1. tool[t].pc = "wait"
  BY DEF Tally!AnswerOk, Tally!Return
<1>2. tool[t].job \in Tally!Job
  BY <1>1 DEF TallyInv, CallsSound
<1>3. /\ jobs[tool[t].job].status = "done" /\ jobs[tool[t].job].result.company = tool[t].company
      /\ ~(jobs[tool[t].job].result.simulator /\ Production)
      /\ told' = told \cup {[asked |-> tool[t].company, job |-> tool[t].job]}
  BY DEF Tally!AnswerOk, Tally!Row, Tally!Verified, Tally!Trusted
<1> QED BY <1>2, <1>3 DEF TallyInv, ResultsSound

LEMMA AnswerStep ==
  ASSUME TallyInv, NEW t \in Tool, Tally!AnswerOk(t)
  PROVE  TallyInv'
<1> DEFINE j == tool[t].job
           s == tool[t].company
           a == [asked |-> s, job |-> j]
<1>0. /\ Tally!TypeOK /\ CallsSound /\ ResultsSound /\ HandsSound
      /\ Tally!OneHandPerJob /\ Tally!ToldFromOwnConnector /\ tool[t] \in Tally!Call
  BY RowsTyped DEF TallyInv
<1>1. /\ UNCHANGED <<connectors, issued, setup, bound, worker, jobs>>
      /\ tool' = [tool EXCEPT ![t] = Tally!NoCall]
  BY DEF Tally!AnswerOk, Tally!Return, Tally!linkVars
<1>2. /\ j \in Tally!Job /\ jobs[j].status = "done" /\ jobs[j].result.company = s
      /\ ~(jobs[j].result.simulator /\ Production) /\ told' = told \cup {a}
  BY AnswerFacts
<1>3. s \in Tally!Scope /\ tool[t].connector \in Tally!Connector
  BY <1>0 DEF Tally!Call
<1>4. catalog' \subseteq [connector: Tally!Connector, company: Company]
  <2>1. PICK c \in Company :
          catalog' = IF s = NoCompany THEN catalog \cup {[connector |-> tool[t].connector, company |-> c]}
                     ELSE catalog
    BY DEF Tally!AnswerOk
  <2>2. [connector |-> tool[t].connector, company |-> c] \in [connector: Tally!Connector, company: Company]
    BY <1>3
  <2>3. catalog \subseteq [connector: Tally!Connector, company: Company]
    BY <1>0 DEF Tally!TypeOK
  <2> HIDE DEF s
  <2> QED BY <2>1, <2>2, <2>3
<1>5. CallsSound' /\ tool' \in [Tool -> Tally!Call] /\ LinksSound' /\ (Tally!TokenKillsCode)'
  BY <1>1, FirstState, CallMoves
<1>6. a \in [asked: Tally!Scope, job: Tally!Job] /\ a.asked = s /\ a.job = j
  BY <1>2, <1>3
<1> HIDE DEF a, j, s
<1>7. (Tally!TypeOK)'
  BY <1>0, <1>1, <1>2, <1>4, <1>5, <1>6 DEF Tally!TypeOK
<1>8. ResultsSound' /\ HandsSound' /\ (Tally!OneHandPerJob)'
  BY <1>0, <1>1 DEF ResultsSound, HandsSound, Tally!OneHandPerJob
<1>9. (Tally!ToldFromOwnConnector)'
  <2>1. jobs[j].result.by = jobs[j].connector
    BY <1>0, <1>2 DEF ResultsSound
  <2> QED BY <1>0, <1>1, <1>2, <1>6, <2>1 DEF Tally!ToldFromOwnConnector
<1> QED BY <1>5, <1>7, <1>8, <1>9 DEF TallyInv

\* A job is expired by its call's deadline only while it is open.
LEMMA TimeoutStep ==
  ASSUME TallyInv, NEW t \in Tool, NEW updated \in BOOLEAN, Tally!AnswerTimeout(t, updated)
  PROVE  TallyInv'
<1> DEFINE j == tool[t].job
           row == [jobs[j] EXCEPT !.status = "expired"]
<1>0. Tally!TypeOK /\ CallsSound /\ jobs \in [Tally!Job -> Tally!JobRow]
  BY DEF TallyInv, Tally!TypeOK
<1>1. /\ UNCHANGED <<connectors, issued, setup, catalog, bound, worker, told>>
      /\ tool[t].pc = "expire" /\ tool' = [tool EXCEPT ![t] = Tally!NoCall]
      /\ \/ jobs' = jobs
         \/ jobs[j].status \in {"queued", "running"} /\ jobs' = [jobs EXCEPT ![j] = row]
  BY <1>0 DEF Tally!AnswerTimeout, Tally!Return, Tally!linkVars, Tally!toolRest, Tally!Row, Tally!Expirable
<1>2. j \in Tally!Job /\ jobs[j] \in Tally!JobRow
  BY <1>0, <1>1, RowsTyped DEF CallsSound
<1>3. row \in Tally!JobRow /\ row.status = "expired"
  <2>1. "expired" \in Tally!JobStatus
    BY DEF Tally!JobStatus
  <2> QED BY <1>2, <2>1 DEF Tally!JobRow
<1> HIDE DEF j, row
<1>4. CallsSound' /\ tool' \in [Tool -> Tally!Call] /\ LinksSound' /\ (Tally!TokenKillsCode)'
  BY <1>1, FirstState, CallMoves
<1>5. (Tally!TypeOK)'
  BY <1>0, <1>1, <1>2, <1>3, <1>4 DEF Tally!TypeOK
<1>6. \A i \in Tally!Job : MovesOn(i)
  BY <1>0, <1>1, <1>2, <1>3 DEF MovesOn, TallyInv, ResultsSound
<1>7. ResultsSound' /\ HandsSound' /\ (Tally!ToldFromOwnConnector)' /\ (Tally!OneHandPerJob)'
  BY <1>1, <1>6, JobsKept
<1> QED BY <1>4, <1>5, <1>7 DEF TallyInv

LEMMA BindStep ==
  ASSUME TallyInv, NEW c \in Company, Tally!Bind(c)
  PROVE  TallyInv'
<1>1. bound' = c /\ UNCHANGED <<connectors, issued, setup, catalog, jobs, tool, worker, told>>
  BY DEF Tally!Bind, Tally!linkVars
<1>2. (Tally!TypeOK)'
  BY <1>1 DEF TallyInv, Tally!TypeOK, Tally!Scope
<1>3. CallsSound'
  BY <1>1 DEF TallyInv, CallsSound
<1>4. LinksSound' /\ (Tally!TokenKillsCode)'
  BY <1>1, LinksKept
<1>5. ResultsSound' /\ HandsSound' /\ (Tally!ToldFromOwnConnector)' /\ (Tally!OneHandPerJob)'
  <2>1. \A j \in Tally!Job : MovesOn(j)
    BY <1>1 DEF MovesOn, TallyInv, ResultsSound
  <2> QED BY <1>1, <2>1, JobsKept
<1> QED BY <1>2, <1>3, <1>4, <1>5 DEF TallyInv
-------------------------------------------------------------------------------
(* The connector *)

\* A call of the connector is a heartbeat of its row and of no other.
LEMMA Beat ==
  ASSUME TallyInv, NEW w \in Worker, Tally!Heartbeat(w), issued' = issued, setup' = setup,
         \A v \in Worker : worker'[v].connector \in {0, worker[v].connector}
  PROVE  /\ worker[w].connector \in Tally!Connector
         /\ connectors' \in [Tally!Connector -> Tally!ConnectorRow]
         /\ LinksSound' /\ (Tally!TokenKillsCode)'
<1> DEFINE k == worker[w].connector
           row == [connectors[k] EXCEPT !.fresh = TRUE]
<1>0. Tally!TypeOK
  BY DEF TallyInv
<1>1. k \in Tally!Connector /\ connectors' = [connectors EXCEPT ![k] = row]
  BY DEF Tally!Heartbeat, Tally!Active
<1>2. connectors[k] \in Tally!ConnectorRow
  BY <1>0, <1>1, RowsTyped
<1>3. row \in Tally!ConnectorRow /\ row.status = connectors[k].status /\ row.live = connectors[k].live
  BY <1>2, NewConnector
<1> HIDE DEF k, row
<1>4. /\ connectors' \in [Tally!Connector -> Tally!ConnectorRow]
      /\ \A m \in Tally!Connector : /\ connectors'[m].status = connectors[m].status
                                    /\ connectors'[m].live => connectors[m].live
  BY <1>0, <1>1, <1>3 DEF Tally!TypeOK
<1>5. LinksSound' /\ (Tally!TokenKillsCode)'
  BY <1>4, LinksKept
<1> QED BY <1>1, <1>4, <1>5 DEF k

\* A claimed job is running, and was in nobody's hand.
LEMMA ClaimStep ==
  ASSUME TallyInv, NEW w \in Worker, Tally!Claim(w)
  PROVE  TallyInv'
<1>0. Tally!TypeOK /\ CallsSound /\ HandsSound /\ ResultsSound
  BY DEF TallyInv
<1>1. PICK j \in Tally!Job :
        /\ jobs[j].status = "queued"
        /\ jobs' = [jobs EXCEPT ![j].status = "running"]
        /\ worker' = [worker EXCEPT ![w].job = j]
  BY DEF Tally!Claim, Tally!Oldest, Tally!QueuedFor
<1>2. Tally!Heartbeat(w) /\ UNCHANGED <<issued, setup, catalog, bound, tool, told>>
  BY DEF Tally!Claim, Tally!workerRest
<1> DEFINE row == [jobs[j] EXCEPT !.status = "running"]
<1>3. jobs' = [jobs EXCEPT ![j] = row]
  BY <1>1
<1>4. row \in Tally!JobRow /\ row.status = "running"
  <2>1. jobs[j] \in Tally!JobRow /\ "running" \in Tally!JobStatus
    BY <1>0, RowsTyped DEF Tally!JobStatus
  <2> QED BY <2>1 DEF Tally!JobRow
<1> HIDE DEF row
<1>5. jobs'[j] = row /\ \A i \in Tally!Job \ {j} : jobs'[i] = jobs[i]
  BY <1>0, <1>3 DEF Tally!TypeOK
<1>6. /\ worker' \in [Worker -> [connector: 0..MaxConnectors, job: 0..MaxJobs]]
      /\ worker'[w].job = j /\ worker'[w].connector = worker[w].connector
      /\ \A v \in Worker \ {w} : worker'[v] = worker[v]
  <2>1. worker \in [Worker -> [connector: 0..MaxConnectors, job: 0..MaxJobs]] /\ j \in 0..MaxJobs
    BY <1>0 DEF Tally!TypeOK, Tally!Job
  <2>2. worker' = [worker EXCEPT ![w] = [worker[w] EXCEPT !.job = j]]
    BY <1>1
  <2> QED BY <2>1, <2>2
<1>7. /\ worker[w].connector \in Tally!Connector
      /\ connectors' \in [Tally!Connector -> Tally!ConnectorRow]
      /\ LinksSound' /\ (Tally!TokenKillsCode)'
  <2>1. \A v \in Worker : worker'[v].connector \in {0, worker[v].connector}
    BY <1>6
  <2> QED BY <1>2, <2>1, Beat
<1>8. (Tally!TypeOK)' /\ CallsSound'
  BY <1>0, <1>2, <1>3, <1>4, <1>6, <1>7 DEF Tally!TypeOK, CallsSound
<1>9. \A v \in Worker : worker[v].job # j
  BY <1>0, <1>1 DEF HandsSound, Tally!Job
<1>10. ResultsSound'
  BY <1>0, <1>4, <1>5 DEF ResultsSound
<1>11. HandsSound'
  <2> SUFFICES ASSUME NEW v \in Worker, worker'[v].job # 0
               PROVE  worker'[v].connector # 0 /\ jobs'[worker'[v].job].status \notin {"absent", "queued"}
    BY DEF HandsSound
  <2>1. CASE v = w
    BY <1>4, <1>5, <1>6, <1>7, <2>1 DEF Tally!Connector
  <2>2. CASE v # w
    <3>1. worker'[v] = worker[v] /\ worker[v].job \in Tally!Job \ {j}
      BY <1>0, <1>6, <1>9, <2>2, RowsTyped DEF Tally!Job
    <3> QED BY <1>0, <1>5, <3>1 DEF HandsSound
  <2> QED BY <2>1, <2>2
<1>12. (Tally!OneHandPerJob)'
  BY <1>6, <1>9 DEF Tally!OneHandPerJob, TallyInv
<1>13. (Tally!ToldFromOwnConnector)'
  <2> SUFFICES ASSUME NEW a \in told PROVE jobs'[a.job] = jobs[a.job]
    BY <1>2 DEF Tally!ToldFromOwnConnector, TallyInv
  <2>1. a.job \in Tally!Job /\ jobs[a.job].status = "done"
    BY <1>0 DEF Tally!TypeOK, TallyInv, Tally!ToldFromOwnConnector
  <2> QED BY <1>1, <1>5, <2>1
<1> QED BY <1>7, <1>8, <1>10, <1>11, <1>12, <1>13 DEF TallyInv

\* A result is stored only for a running job of the connector that posts it.
LEMMA PostFacts ==
  ASSUME TallyInv, NEW w \in Worker, NEW outcome, Tally!Post(w, outcome)
  PROVE  /\ Tally!Heartbeat(w) /\ worker' = [worker EXCEPT ![w].job = 0]
         /\ UNCHANGED <<issued, setup, catalog, bound, tool, told>>
         /\ \/ jobs' = jobs
            \/ \E j \in Tally!Job, row \in Tally!JobRow :
                 /\ jobs[j].status = "running" /\ jobs' = [jobs EXCEPT ![j] = row]
                 /\ row.status \in {"done", "failed"}
                 /\ row.connector = jobs[j].connector /\ row.company = jobs[j].company
                 /\ row.result.by = row.connector /\ row.result.company = row.company
<1> DEFINE j == worker[w].job
           k == worker[w].connector
           answer == [company |-> jobs[j].company, by |-> k, simulator |-> w \in Simulated]
           row == [jobs[j] EXCEPT !.status = outcome, !.result = answer]
<1>0. Tally!TypeOK /\ jobs \in [Tally!Job -> Tally!JobRow]
  BY DEF TallyInv, Tally!TypeOK
<1>1. /\ j # 0 /\ Tally!Heartbeat(w) /\ worker' = [worker EXCEPT ![w].job = 0]
      /\ UNCHANGED <<issued, setup, catalog, bound, tool, told>>
  BY DEF Tally!Post, Tally!workerRest
<1>2. jobs' = IF Tally!Parses(outcome) /\ Tally!Accepts(k, j)
                THEN [jobs EXCEPT ![j].status = outcome, ![j].result = answer]
                ELSE jobs
  BY DEF Tally!Post
<1>3. j \in Tally!Job /\ jobs[j] \in Tally!JobRow /\ k \in Tally!Connector
  BY <1>0, <1>1, RowsTyped DEF Tally!Job, Tally!Heartbeat, Tally!Active
<1>4. CASE Tally!Parses(outcome) /\ Tally!Accepts(k, j)
  <2>1. outcome \in {"done", "failed"} /\ jobs[j].status = "running" /\ jobs[j].connector = k
    BY <1>4 DEF Tally!Parses, Tally!Accepts
  <2>2. jobs[j].company \in Tally!Scope
    BY <1>3 DEF Tally!JobRow
  <2>3. answer \in Tally!Result /\ answer.by = k /\ answer.company = jobs[j].company
    BY <1>3, <2>2 DEF Tally!Result
  <2> HIDE DEF answer
  <2>4. outcome \in Tally!JobStatus
    BY <2>1 DEF Tally!JobStatus
  <2>5. /\ row \in Tally!JobRow /\ row.status = outcome /\ row.result = answer
        /\ row.connector = jobs[j].connector /\ row.company = jobs[j].company
    <3> DEFINE r == jobs[j]
    <3>1. r \in Tally!JobRow
      BY <1>3
    <3> HIDE DEF r
    <3>2. LET new == [r EXCEPT !.status = outcome, !.result = answer]
          IN /\ new \in Tally!JobRow /\ new.status = outcome /\ new.result = answer
             /\ new.connector = r.connector /\ new.company = r.company
      BY <2>3, <2>4, <3>1 DEF Tally!JobRow
    <3> QED BY <3>2 DEF r
  <2>6. jobs' = [jobs EXCEPT ![j] = row]
    BY <1>0, <1>2, <1>4
  <2> HIDE DEF row, j, k
  <2> QED BY <1>1, <1>3, <2>1, <2>3, <2>5, <2>6 DEF j
<1>5. CASE ~(Tally!Parses(outcome) /\ Tally!Accepts(k, j))
  <2>1. jobs' = jobs
    BY <1>2, <1>5
  <2> QED BY <1>1, <2>1
<1> QED BY <1>4, <1>5

LEMMA WorkSteps ==
  ASSUME TallyInv, NEW w \in Worker, Tally!Work(w)
  PROVE  TallyInv'
<1>0. Tally!TypeOK /\ CallsSound
  BY DEF TallyInv
<1>1. ASSUME Tally!NothingToDo(w) PROVE TallyInv'
  <2>1. Tally!Heartbeat(w) /\ UNCHANGED <<issued, setup, catalog, bound, tool, told, jobs, worker>>
    BY <1>1 DEF Tally!NothingToDo, Tally!workerRest
  <2>2. connectors' \in [Tally!Connector -> Tally!ConnectorRow] /\ LinksSound' /\ (Tally!TokenKillsCode)'
    BY <2>1, Beat
  <2>3. (Tally!TypeOK)' /\ CallsSound'
    BY <1>0, <2>1, <2>2 DEF Tally!TypeOK, CallsSound
  <2>4. ResultsSound' /\ HandsSound' /\ (Tally!ToldFromOwnConnector)' /\ (Tally!OneHandPerJob)'
    <3>1. \A j \in Tally!Job : MovesOn(j)
      BY <2>1 DEF MovesOn, TallyInv, ResultsSound
    <3> QED BY <2>1, <3>1, JobsKept
  <2> QED BY <2>2, <2>3, <2>4 DEF TallyInv
<1>h. ASSUME worker' = [worker EXCEPT ![w].job = 0]
      PROVE  /\ worker' \in [Worker -> [connector: 0..MaxConnectors, job: 0..MaxJobs]]
             /\ \A v \in Worker : worker'[v].connector \in {0, worker[v].connector}
             /\ \A v \in Worker : \/ worker'[v].job = 0
                                  \/ worker'[v].job = worker[v].job /\ worker'[v].connector = worker[v].connector
  <2>1. worker \in [Worker -> [connector: 0..MaxConnectors, job: 0..MaxJobs]]
    BY <1>0 DEF Tally!TypeOK
  <2>2. /\ worker' \in [Worker -> [connector: 0..MaxConnectors, job: 0..MaxJobs]]
        /\ worker'[w].connector = worker[w].connector /\ worker'[w].job = 0
        /\ \A v \in Worker \ {w} : worker'[v] = worker[v]
    BY <1>h, <2>1
  <2> QED BY <2>2
<1>2. ASSUME Tally!LoseJob(w) PROVE TallyInv'
  <2>1. /\ worker' = [worker EXCEPT ![w].job = 0]
        /\ UNCHANGED <<connectors, issued, setup, catalog, bound, jobs, tool, told>>
    BY <1>2 DEF Tally!LoseJob, Tally!linkVars
  <2>2. (Tally!TypeOK)' /\ CallsSound'
    BY <1>0, <1>h, <2>1 DEF Tally!TypeOK, CallsSound
  <2>3. LinksSound' /\ (Tally!TokenKillsCode)'
    BY <1>h, <2>1, LinksKept
  <2>4. ResultsSound' /\ HandsSound' /\ (Tally!ToldFromOwnConnector)' /\ (Tally!OneHandPerJob)'
    <3>1. \A j \in Tally!Job : MovesOn(j)
      BY <2>1 DEF MovesOn, TallyInv, ResultsSound
    <3> QED BY <1>h, <2>1, <3>1, JobsKept
  <2> QED BY <2>2, <2>3, <2>4 DEF TallyInv
<1>3. ASSUME NEW outcome, Tally!Post(w, outcome) PROVE TallyInv'
  <2>1. /\ Tally!Heartbeat(w) /\ worker' = [worker EXCEPT ![w].job = 0]
        /\ UNCHANGED <<issued, setup, catalog, bound, tool, told>>
    BY <1>3, PostFacts
  <2>2. connectors' \in [Tally!Connector -> Tally!ConnectorRow] /\ LinksSound' /\ (Tally!TokenKillsCode)'
    BY <1>h, <2>1, Beat
  <2>3. jobs' \in [Tally!Job -> Tally!JobRow] /\ \A i \in Tally!Job : MovesOn(i)
    <3>1. CASE jobs' = jobs
      BY <1>0, <3>1 DEF MovesOn, TallyInv, ResultsSound, Tally!TypeOK
    <3>2. ASSUME NEW j \in Tally!Job, NEW row \in Tally!JobRow,
                 jobs[j].status = "running", jobs' = [jobs EXCEPT ![j] = row],
                 row.status \in {"done", "failed"},
                 row.result.by = row.connector, row.result.company = row.company
          PROVE  <2>3
      <4>1. jobs \in [Tally!Job -> Tally!JobRow]
        BY <1>0 DEF Tally!TypeOK
      <4>2. jobs'[j] = row /\ \A i \in Tally!Job \ {j} : jobs'[i] = jobs[i]
        BY <3>2, <4>1
      <4>3. \A i \in Tally!Job : MovesOn(i)
        BY <3>2, <4>2 DEF MovesOn, TallyInv, ResultsSound
      <4> QED BY <3>2, <4>1, <4>3
    <3> QED BY <1>3, <3>1, <3>2, PostFacts
  <2>4. (Tally!TypeOK)' /\ CallsSound'
    BY <1>0, <1>h, <2>1, <2>2, <2>3 DEF Tally!TypeOK, CallsSound
  <2>5. ResultsSound' /\ HandsSound' /\ (Tally!ToldFromOwnConnector)' /\ (Tally!OneHandPerJob)'
    BY <1>h, <2>1, <2>3, JobsKept
  <2> QED BY <2>2, <2>4, <2>5 DEF TallyInv
<1> QED BY <1>1, <1>2, <1>3, ClaimStep DEF Tally!Work
-------------------------------------------------------------------------------
LEMMA TallyInvStep == TallyInv /\ [Tally!Next]_tallyVars => TallyInv'
<1> SUFFICES ASSUME TallyInv, [Tally!Next]_tallyVars PROVE TallyInv'
  OBVIOUS
<1>1. ASSUME NEW t \in Tool, Tally!Ask(t) \/ Tally!Dispatch(t) \/ Tally!ToolDies(t) PROVE TallyInv'
  BY <1>1, ReadSteps, EnqueueStep, AnswerStep, TimeoutStep DEF Tally!Dispatch, Tally!Answer
<1>2. CASE Tally!Next
  BY <1>1, <1>2, LinkSteps, BindStep, WorkSteps DEF Tally!Next
<1>3. CASE UNCHANGED tallyVars
  <2>1. UNCHANGED <<connectors, issued, setup, catalog, bound, jobs, tool, worker, told>>
    BY <1>3 DEF tallyVars
  <2>2. (Tally!TypeOK)' /\ CallsSound'
    BY <2>1 DEF TallyInv, Tally!TypeOK, CallsSound
  <2>3. LinksSound' /\ (Tally!TokenKillsCode)'
    BY <2>1, LinksKept
  <2>4. ResultsSound' /\ HandsSound' /\ (Tally!ToldFromOwnConnector)' /\ (Tally!OneHandPerJob)'
    <3>1. \A j \in Tally!Job : MovesOn(j)
      BY <2>1 DEF MovesOn, TallyInv, ResultsSound
    <3> QED BY <2>1, <3>1, JobsKept
  <2> QED BY <2>2, <2>3, <2>4 DEF TallyInv
<1> QED BY <1>2, <1>3

LEMMA TallyInvInit == Tally!Init => TallyInv
<1> SUFFICES ASSUME Tally!Init PROVE TallyInv
  OBVIOUS
<1>1. /\ connectors = [k \in Tally!Connector |-> Tally!NoConnector] /\ issued = 0
      /\ setup = [o \in Setup |-> Tally!NoSetup] /\ catalog = {} /\ bound = NoCompany
      /\ jobs = [j \in Tally!Job |-> Tally!NoJob] /\ tool = [t \in Tool |-> Tally!NoCall]
      /\ worker = [w \in Worker |-> [connector |-> 0, job |-> 0]] /\ told = {}
  BY DEF Tally!Init
<1>2. Tally!TypeOK
  <2>1. bound \in Tally!Scope
    BY <1>1 DEF Tally!Scope
  <2> QED BY <1>1, <2>1, FirstState DEF Tally!TypeOK
<1>3. LinksSound /\ CallsSound /\ ResultsSound /\ HandsSound
  BY <1>1, FirstState DEF LinksSound, CallsSound, ResultsSound, HandsSound
<1>4. Tally!ToldFromOwnConnector /\ Tally!OneHandPerJob /\ Tally!TokenKillsCode
  BY <1>1 DEF Tally!ToldFromOwnConnector, Tally!OneHandPerJob, Tally!TokenKillsCode
<1> QED BY <1>2, <1>3, <1>4 DEF TallyInv

\* The questions to TallyPrime are asked beside the other stores of the books.
LEMMA TallyInvAlways == Spec => []TallyInv
<1>1. Init => TallyInv
  BY TallyInvInit DEF Init
<1>2. [Next]_vars => [Tally!Next]_tallyVars
  BY DEF Next, vars, tallyVars
<1> QED BY <1>1, <1>2, TallyInvStep, PTL DEF Spec

\* A figure is told from the job's own connector, for the company asked and never from
\* a simulator in production; no job is in the hands of two installations; a token in
\* use belongs to an active row whose setup code cannot be exchanged again
\* (mcp-tally/jobs.ts, connector-api.ts, tally-connector/main.ts).
THEOREM FiguresFromTheLiveLink == Spec => []ToldFromLiveLink
<1>1. TallyInv => ToldFromLiveLink
  BY DEF TallyInv, ToldFromLiveLink
<1> QED BY <1>1, TallyInvAlways, PTL
-------------------------------------------------------------------------------
(* The bridge implements the abstract questions and answers *)

\* A job as TallyAnswers has it.
AsPromised(row) ==
  [state |-> Tally!AbstractState(row.status), connector |-> row.connector, scope |-> row.company]

ShownJobs == [j \in Tally!Job |-> AsPromised(jobs[j])]

LEMMA States ==
  /\ Tally!AbstractState("absent") = "unused"
  /\ \A s \in {"queued", "running"} : Tally!AbstractState(s) = "open"
  /\ \A s \in {"done", "failed", "expired"} : Tally!AbstractState(s) = s
BY DEF Tally!AbstractState

\* Each step of the abstract bridge, read on the jobs shown.
LEMMA Actions ==
  ASSUME NEW j \in Tally!Job
  PROVE  /\ \A k \in Tally!Connector, c \in Tally!Scope :
              /\ ShownJobs[j].state = "unused"
              /\ ShownJobs' = [ShownJobs EXCEPT ![j] = [state |-> "open", connector |-> k, scope |-> c]]
              /\ told' = told
              => Tally!Abstract!Next
         /\ \A s \in {"done", "failed", "expired"} :
              /\ ShownJobs[j].state = "open"
              /\ ShownJobs' = [ShownJobs EXCEPT ![j].state = s]
              /\ told' = told
              => Tally!Abstract!Next
         /\ /\ ShownJobs[j].state = "done"
            /\ told' = told \cup {[asked |-> ShownJobs[j].scope, job |-> j]}
            /\ ShownJobs' = ShownJobs
            => Tally!Abstract!Next
<1>1. ASSUME NEW k \in Tally!Connector, NEW c \in Tally!Scope,
             ShownJobs[j].state = "unused",
             ShownJobs' = [ShownJobs EXCEPT ![j] = [state |-> "open", connector |-> k, scope |-> c]],
             told' = told
      PROVE  Tally!Abstract!Next
  <2>1. Tally!Abstract!Open(j, k, c)
    BY <1>1 DEF Tally!Abstract!Open, ShownJobs, AsPromised
  <2> QED BY <2>1 DEF Tally!Abstract!Next
<1>2. ASSUME NEW s \in {"done", "failed", "expired"},
             ShownJobs[j].state = "open",
             ShownJobs' = [ShownJobs EXCEPT ![j].state = s], told' = told
      PROVE  Tally!Abstract!Next
  <2>1. Tally!Abstract!Close(j, s)
    BY <1>2 DEF Tally!Abstract!Close, ShownJobs, AsPromised
  <2> QED BY <2>1 DEF Tally!Abstract!Next, Tally!Abstract!State
<1>3. ASSUME ShownJobs[j].state = "done",
             told' = told \cup {[asked |-> ShownJobs[j].scope, job |-> j]}, ShownJobs' = ShownJobs
      PROVE  Tally!Abstract!Next
  <2>1. Tally!Abstract!Tell(j)
    BY <1>3 DEF Tally!Abstract!Tell, ShownJobs, AsPromised
  <2> QED BY <2>1 DEF Tally!Abstract!Next
<1> QED BY <1>1, <1>2, <1>3

LEMMA Unseen ==
  ASSUME told' = told, \A j \in Tally!Job : AsPromised(jobs[j])' = AsPromised(jobs[j])
  PROVE  UNCHANGED Tally!Abstract!vars
<1>1. ShownJobs' = ShownJobs
  BY DEF ShownJobs
<1>2. Tally!Abstract!vars = <<ShownJobs, told>> /\ Tally!Abstract!vars' = <<ShownJobs', told'>>
  BY DEF Tally!Abstract!vars, ShownJobs, AsPromised
<1> QED BY <1>1, <1>2

\* A job that is closed, by its result or by its call's deadline.
LEMMA ClosedJob ==
  ASSUME TallyInv, NEW j \in Tally!Job, NEW row \in Tally!JobRow, told' = told,
         jobs[j].status \in {"queued", "running"}, jobs' = [jobs EXCEPT ![j] = row],
         row.status \in {"done", "failed", "expired"},
         row.connector = jobs[j].connector, row.company = jobs[j].company
  PROVE  Tally!Abstract!Next
<1>1. jobs \in [Tally!Job -> Tally!JobRow]
  BY DEF TallyInv, Tally!TypeOK
<1>2. AsPromised(jobs[j]).state = "open"
  BY States DEF AsPromised
<1>3. AsPromised(row) = [AsPromised(jobs[j]) EXCEPT !.state = row.status]
  BY States DEF AsPromised
<1>4. ShownJobs' = [ShownJobs EXCEPT ![j] = AsPromised(row)]
  BY <1>1 DEF ShownJobs, AsPromised
<1>5. ShownJobs' = [ShownJobs EXCEPT ![j].state = row.status]
  BY <1>3, <1>4 DEF ShownJobs
<1>6. ShownJobs[j].state = "open"
  BY <1>2 DEF ShownJobs
<1> QED BY <1>5, <1>6, Actions

LEMMA EnqueueRefines ==
  ASSUME TallyInv, NEW t \in Tool, Tally!Enqueue(t)
  PROVE  Tally!Abstract!Next
<1>1. PICK j \in Tally!Job, row \in Tally!JobRow :
        /\ jobs[j].status = "absent" /\ jobs' = [jobs EXCEPT ![j] = row] /\ told' = told
        /\ row.status = "queued" /\ row.connector \in Tally!Connector /\ row.company \in Tally!Scope
  BY EnqueueFacts
<1>2. jobs \in [Tally!Job -> Tally!JobRow]
  BY DEF TallyInv, Tally!TypeOK
<1>3. AsPromised(row) = [state |-> "open", connector |-> row.connector, scope |-> row.company]
  BY <1>1, States DEF AsPromised
<1>4. ShownJobs' = [ShownJobs EXCEPT ![j] = [state |-> "open", connector |-> row.connector, scope |-> row.company]]
  <2>1. ShownJobs' = [ShownJobs EXCEPT ![j] = AsPromised(row)]
    BY <1>1, <1>2 DEF ShownJobs, AsPromised
  <2> QED BY <1>3, <2>1
<1>5. ShownJobs[j].state = "unused"
  BY <1>1, States DEF ShownJobs, AsPromised
<1> QED BY <1>1, <1>4, <1>5, Actions

LEMMA AnswerRefines ==
  ASSUME TallyInv, NEW t \in Tool, Tally!AnswerOk(t)
  PROVE  Tally!Abstract!Next
<1> DEFINE j == tool[t].job
<1>1. /\ j \in Tally!Job /\ jobs[j].status = "done" /\ jobs[j].company = tool[t].company
      /\ told' = told \cup {[asked |-> tool[t].company, job |-> j]} /\ jobs' = jobs
  BY AnswerFacts DEF Tally!AnswerOk
<1> HIDE DEF j
<1>2. ShownJobs[j].state = "done" /\ ShownJobs[j].scope = tool[t].company /\ ShownJobs' = ShownJobs
  BY <1>1, States DEF ShownJobs, AsPromised
<1> QED BY <1>1, <1>2, Actions

LEMMA TimeoutRefines ==
  ASSUME TallyInv, NEW t \in Tool, NEW updated \in BOOLEAN, Tally!AnswerTimeout(t, updated)
  PROVE  [Tally!Abstract!Next]_(Tally!Abstract!vars)
<1> DEFINE j == tool[t].job
           row == [jobs[j] EXCEPT !.status = "expired"]
<1>1. jobs \in [Tally!Job -> Tally!JobRow] /\ CallsSound
  BY DEF TallyInv, Tally!TypeOK
<1>2. /\ told' = told /\ tool[t].pc = "expire"
      /\ \/ jobs' = jobs
         \/ jobs[j].status \in {"queued", "running"} /\ jobs' = [jobs EXCEPT ![j] = row]
  BY <1>1 DEF Tally!AnswerTimeout, Tally!Return, Tally!toolRest, Tally!Row, Tally!Expirable
<1>3. j \in Tally!Job /\ jobs[j] \in Tally!JobRow
  BY <1>1, <1>2 DEF CallsSound
<1>4. /\ row \in Tally!JobRow /\ row.status = "expired"
      /\ row.connector = jobs[j].connector /\ row.company = jobs[j].company
  <2>1. "expired" \in Tally!JobStatus
    BY DEF Tally!JobStatus
  <2> QED BY <1>3, <2>1 DEF Tally!JobRow
<1> HIDE DEF j, row
<1>5. CASE jobs' = jobs
  BY <1>2, <1>5, Unseen DEF AsPromised
<1>6. CASE jobs[j].status \in {"queued", "running"} /\ jobs' = [jobs EXCEPT ![j] = row]
  BY <1>2, <1>3, <1>4, <1>6, ClosedJob
<1> QED BY <1>2, <1>5, <1>6

LEMMA WorkRefines ==
  ASSUME TallyInv, NEW w \in Worker, Tally!Work(w)
  PROVE  [Tally!Abstract!Next]_(Tally!Abstract!vars)
<1>1. ASSUME Tally!Claim(w) PROVE UNCHANGED Tally!Abstract!vars
  <2>1. PICK j \in Tally!Job :
          /\ jobs[j].status = "queued" /\ jobs' = [jobs EXCEPT ![j].status = "running"]
    BY <1>1 DEF Tally!Claim, Tally!Oldest, Tally!QueuedFor
  <2>2. told' = told
    BY <1>1 DEF Tally!Claim, Tally!workerRest
  <2> DEFINE row == [jobs[j] EXCEPT !.status = "running"]
  <2>3. jobs' = [jobs EXCEPT ![j] = row] /\ jobs \in [Tally!Job -> Tally!JobRow]
    BY <2>1 DEF TallyInv, Tally!TypeOK
  <2>4. row.status = "running" /\ row.connector = jobs[j].connector /\ row.company = jobs[j].company
    BY <2>3 DEF Tally!JobRow
  <2> HIDE DEF row
  <2>5. AsPromised(row) = AsPromised(jobs[j])
    BY <2>1, <2>4, States DEF AsPromised
  <2>6. \A i \in Tally!Job : AsPromised(jobs[i])' = AsPromised(jobs[i])
    BY <2>3, <2>5 DEF AsPromised
  <2> QED BY <2>2, <2>6, Unseen
<1>2. ASSUME Tally!NothingToDo(w) \/ Tally!LoseJob(w) PROVE UNCHANGED Tally!Abstract!vars
  <2>1. jobs' = jobs /\ told' = told
    BY <1>2 DEF Tally!NothingToDo, Tally!LoseJob, Tally!workerRest
  <2> QED BY <2>1, Unseen DEF AsPromised
<1>3. ASSUME NEW outcome, Tally!Post(w, outcome) PROVE [Tally!Abstract!Next]_(Tally!Abstract!vars)
  <2>1. told' = told
    BY <1>3, PostFacts
  <2>2. CASE jobs' = jobs
    BY <2>1, <2>2, Unseen DEF AsPromised
  <2>3. CASE jobs' # jobs
    <3>1. PICK j \in Tally!Job, row \in Tally!JobRow :
            /\ jobs[j].status = "running" /\ jobs' = [jobs EXCEPT ![j] = row]
            /\ row.status \in {"done", "failed"}
            /\ row.connector = jobs[j].connector /\ row.company = jobs[j].company
      BY <1>3, <2>3, PostFacts
    <3> QED BY <2>1, <3>1, ClosedJob
  <2> QED BY <2>2, <2>3
<1> QED BY <1>1, <1>2, <1>3 DEF Tally!Work

LEMMA AnswersStep == TallyInv /\ [Tally!Next]_tallyVars => [Tally!Abstract!Next]_(Tally!Abstract!vars)
<1> SUFFICES ASSUME TallyInv, [Tally!Next]_tallyVars PROVE [Tally!Abstract!Next]_(Tally!Abstract!vars)
  OBVIOUS
<1>1. ASSUME jobs' = jobs, told' = told PROVE [Tally!Abstract!Next]_(Tally!Abstract!vars)
  BY <1>1, Unseen DEF AsPromised
<1>2. ASSUME Tally!Link PROVE jobs' = jobs /\ told' = told
  BY <1>2 DEF Tally!Link, Tally!RevokePending, Tally!IssueCode, Tally!ExpireCode, Tally!GoStale,
              Tally!Forget, Tally!Copy, Tally!Register
<1>3. ASSUME NEW t \in Tool,
             \/ Tally!Ask(t) \/ Tally!PickConnector(t) \/ Tally!Unavailable(t)
             \/ Tally!AnswerFailed(t) \/ Tally!Deadline(t) \/ Tally!ToolDies(t)
      PROVE  jobs' = jobs /\ told' = told
  BY <1>3 DEF Tally!Ask, Tally!PickConnector, Tally!Unavailable, Tally!AnswerFailed, Tally!Deadline,
              Tally!ToolDies
<1>4. ASSUME NEW c \in Company, Tally!Bind(c) PROVE jobs' = jobs /\ told' = told
  BY <1>4 DEF Tally!Bind
<1>5. ASSUME NEW t \in Tool, Tally!Ask(t) \/ Tally!Dispatch(t) \/ Tally!ToolDies(t)
      PROVE  [Tally!Abstract!Next]_(Tally!Abstract!vars)
  BY <1>1, <1>3, <1>5, EnqueueRefines, AnswerRefines, TimeoutRefines DEF Tally!Dispatch, Tally!Answer
<1>6. CASE UNCHANGED tallyVars
  BY <1>1, <1>6 DEF tallyVars
<1>7. CASE Tally!Next
  BY <1>1, <1>2, <1>4, <1>5, <1>7, WorkRefines DEF Tally!Next
<1> QED BY <1>6, <1>7

LEMMA AnswersInit == Tally!Init => Tally!Abstract!Init
<1> SUFFICES ASSUME Tally!Init PROVE Tally!Abstract!Init
  OBVIOUS
<1>1. jobs = [j \in Tally!Job |-> Tally!NoJob] /\ told = {}
  BY DEF Tally!Init
<1>2. /\ Tally!NoJob.status = "absent" /\ Tally!NoJob.connector \in Tally!Connector
      /\ Tally!NoJob.company \in Tally!Scope
  BY DEF Tally!NoJob, Tally!Connector, Tally!Scope
<1>3. AsPromised(Tally!NoJob) \in {j \in Tally!Abstract!AJob : j.state = "unused"}
  BY <1>2, States DEF AsPromised, Tally!Abstract!AJob, Tally!Abstract!State
<1>4. ShownJobs \in [Tally!Job -> {j \in Tally!Abstract!AJob : j.state = "unused"}]
  BY <1>1, <1>3 DEF ShownJobs
<1> QED BY <1>1, <1>4 DEF Tally!Abstract!Init, ShownJobs, AsPromised

\* A question becomes one job for one connector, closed once and for good ("a late
\* connector result is inert"), and what the owner is told is the result of a done job
\* for the company he asked about.
THEOREM BridgeKeepsThePromise == Spec => ImplementsAnswers
<1>1. Init => Tally!Abstract!Init
  BY AnswersInit DEF Init
<1>2. [Next]_vars => [Tally!Next]_tallyVars
  BY DEF Next, vars, tallyVars
<1>3. TallyInv /\ [Next]_vars => [Tally!Abstract!Next]_(Tally!Abstract!vars)
  BY <1>2, AnswersStep
<1> QED BY <1>1, <1>3, TallyInvAlways, PTL
        DEF Spec, ImplementsAnswers, Tally!ImplementsAnswers, Tally!Abstract!Spec
===============================================================================
