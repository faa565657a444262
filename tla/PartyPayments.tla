----------------------------- MODULE PartyPayments -----------------------------
(***************************************************************************)
(* Receivables and payables of one party (mcp-ledger/src/arap-tools.ts).   *)
(*                                                                         *)
(* An invoice is drafted and confirmed.  A payment is drafted together     *)
(* with its plan, which invoice gets how much, computed from the balances  *)
(* of that moment; confirming it re-checks the plan against the balances   *)
(* of the new moment, under row locks, and takes them down.  The same code *)
(* serves money received (ar_invoices) and money paid (ap_bills).          *)
(*                                                                         *)
(* A tool call is a transaction at READ COMMITTED: what it reads without a *)
(* lock may have changed when it writes.  The owner's approval is left     *)
(* out: a call that lacks it changes nothing.                              *)
(***************************************************************************)
EXTENDS Integers, FiniteSets, Functions

CONSTANTS
  Call,         \* tool calls that may run at the same time
  Key,          \* idempotency keys the client uses
  Invoices,     \* invoices are 1..Invoices, the oldest first
  Total,        \* total_paisa of an invoice, the same for all, above 0
  MaxPayments,  \* bound: payment rows
  Amount        \* amounts of payments, above 0

Invoice == 1..Invoices
Payment == 1..MaxPayments

VARIABLES
  invoices,    \* ar_invoices
  payments,    \* party_payments, with their payment_allocations
  keys,        \* idempotency_keys: the result of each key, or who is producing it
  call,        \* what each tool call is doing
  applied,     \* history: how often each payment was taken off the balances
  overlapped   \* history: payments two calls were confirming at the same time

vars == <<invoices, payments, keys, call, applied, overlapped>>
-------------------------------------------------------------------------------
\* A plan gives each invoice its part of a payment, 0 without a line.
Money == 0..Total
Plan == [Invoice -> Money]
InvoiceRow == [status: {"absent", "draft", "confirmed"}, balance: Money]
PaymentRow == [status: {"absent", "draft", "confirmed"}, amount: Amount \cup {0}, plan: Plan]

NoPlan == [i \in Invoice |-> 0]
NoPayment == [status |-> "absent", amount |-> 0, plan |-> NoPlan]

Free == [state |-> "free"]
Rejected == [state |-> "rejected"]
KeyRow == {Free, Rejected} \cup [state: {"saved"}, payment: Payment]
            \cup [state: {"claimed"}, by: Call]

Idle == [at |-> "idle"]
CallState == {Idle}
  \cup [at: {"plan"}, key: Key]
  \cup [at: {"save"}, key: Key, amount: Amount, plan: Plan, seen: Plan, auto: BOOLEAN]
  \cup [at: {"apply"}, payment: Payment]

TypeOK ==
  /\ invoices \in [Invoice -> InvoiceRow]
  /\ payments \in [Payment -> PaymentRow]
  /\ keys \in [Key -> KeyRow]
  /\ call \in [Call -> CallState]
  /\ applied \in [Payment -> 0..Cardinality(Call)]
  /\ overlapped \subseteq Payment

Init ==
  /\ invoices = [i \in Invoice |-> [status |-> "absent", balance |-> 0]]
  /\ payments = [p \in Payment |-> NoPayment]
  /\ keys = [k \in Key |-> Free]
  /\ call = [c \in Call |-> Idle]
  /\ applied = [p \in Payment |-> 0]
  /\ overlapped = {}
-------------------------------------------------------------------------------
\* Operators named ...Mutant are wrong versions of the definition after them,
\* kept to show that a property notices the change; the model does not use them.

RecordInvoice(i) ==
  /\ invoices[i].status = "absent"
  /\ invoices' = [invoices EXCEPT ![i] = [status |-> "draft", balance |-> Total]]
  /\ UNCHANGED <<payments, keys, call, applied, overlapped>>

ConfirmInvoice(i) ==
  /\ invoices[i].status = "draft"
  /\ invoices' = [invoices EXCEPT ![i].status = "confirmed"]
  /\ UNCHANGED <<payments, keys, call, applied, overlapped>>
-------------------------------------------------------------------------------
(* record_party_payment, in the transaction of withIdempotency *)

\* Mutant: a key is looked up before it is used, but not claimed.
UnusedMutant(k) == keys[k].state \in {"free", "claimed"}

\* A used key replays its result, and one that is claimed makes the call wait.
Unused(k) == keys[k].state = "free"

ClaimKey(c, k) ==
  /\ call[c] = Idle /\ Unused(k)
  /\ keys' = [keys EXCEPT ![k] = [state |-> "claimed", by |-> c]]
  /\ call' = [call EXCEPT ![c] = [at |-> "plan", key |-> k]]
  /\ UNCHANGED <<invoices, payments, applied, overlapped>>

\* What can be paid on each invoice.
Open == [i \in Invoice |-> IF invoices[i].status = "confirmed" THEN invoices[i].balance ELSE 0]

\* Mutant: the newest first.
AutoPlanMutant(amount, open) ==
  LET left[i \in 1..(Invoices + 1)] ==
        IF i > Invoices THEN amount
        ELSE IF left[i + 1] < open[i] THEN 0 ELSE left[i + 1] - open[i]
  IN [i \in Invoice |-> left[i + 1] - left[i]]

\* Oldest first: left[i] is what the first i invoices leave of the payment.
AutoPlan(amount, open) ==
  LET left[i \in 0..Invoices] ==
        IF i = 0 THEN amount
        ELSE IF left[i - 1] < open[i] THEN 0 ELSE left[i - 1] - open[i]
  IN [i \in Invoice |-> left[i - 1] - left[i]]

\* A plan given by the owner, line by line.
ManualPlans(open) == {plan \in Plan : \A i \in Invoice : plan[i] <= open[i]}

\* Every paisa of the payment has its place.
Allocates(plan, amount) == SumFunction(plan) = amount

Propose(c, amount, plan, auto) ==
  /\ call[c].at = "plan"
  /\ Allocates(plan, amount)
  /\ call' = [call EXCEPT ![c] =
       [at |-> "save", key |-> call[c].key, amount |-> amount, plan |-> plan,
        seen |-> Open, auto |-> auto]]
  /\ UNCHANGED <<invoices, payments, keys, applied, overlapped>>

\* More money than is owed, or lines from the owner that the balances do not
\* allow, are refused, and the refusal is the result of the key.
Reject(c) ==
  /\ call[c].at = "plan"
  /\ keys' = [keys EXCEPT ![call[c].key] = Rejected]
  /\ call' = [call EXCEPT ![c] = Idle]
  /\ UNCHANGED <<invoices, payments, applied, overlapped>>

Save(c, p) ==
  /\ call[c].at = "save"
  /\ payments[p].status = "absent" /\ \A q \in 1..(p - 1) : payments[q].status # "absent"
  /\ payments' = [payments EXCEPT ![p] =
       [status |-> "draft", amount |-> call[c].amount, plan |-> call[c].plan]]
  /\ keys' = [keys EXCEPT ![call[c].key] = [state |-> "saved", payment |-> p]]
  /\ call' = [call EXCEPT ![c] = Idle]
  /\ UNCHANGED <<invoices, applied, overlapped>>
-------------------------------------------------------------------------------
(* confirm_arap_entry of a payment *)

\* Mutant: any payment that is there.
ConfirmableMutant(p) == payments[p].status # "absent"

Confirmable(p) == payments[p].status = "draft"

\* The payment is read, not locked.
BeginConfirm(c, p) ==
  /\ call[c] = Idle /\ Confirmable(p)
  /\ call' = [call EXCEPT ![c] = [at |-> "apply", payment |-> p]]
  /\ overlapped' =
       overlapped \cup {q \in {p} : \E d \in Call : call[d] = [at |-> "apply", payment |-> q]}
  /\ UNCHANGED <<invoices, payments, keys, applied>>

\* Mutant: the plan is trusted as it was drafted.
CoveredMutant(plan) == TRUE

\* The locked balances still cover the plan.
Covered(plan) == \A i \in Invoice : plan[i] <= invoices[i].balance

\* Mutant: the balance is worked out from the total.
ReducedMutant(i, part) == Total - part

Reduced(i, part) == invoices[i].balance - part

\* From the locks on the invoices to the commit nobody else sees or changes them.
Apply(c) ==
  /\ call[c].at = "apply"
  /\ LET p == call[c].payment
         plan == payments[p].plan
     IN /\ Covered(plan)
        /\ invoices' = [i \in Invoice |-> IF plan[i] = 0 THEN invoices[i]
                          ELSE [invoices[i] EXCEPT !.balance = Reduced(i, plan[i])]]
        /\ payments' = [payments EXCEPT ![p].status = "confirmed"]
        /\ applied' = [applied EXCEPT ![p] = @ + 1]
  /\ call' = [call EXCEPT ![c] = Idle]
  /\ UNCHANGED <<keys, overlapped>>

\* The plan no longer fits.
Refuse(c) ==
  /\ call[c].at = "apply" /\ ~Covered(payments[call[c].payment].plan)
  /\ call' = [call EXCEPT ![c] = Idle]
  /\ UNCHANGED <<invoices, payments, keys, applied, overlapped>>
-------------------------------------------------------------------------------
\* The server or its connection dies: the transaction never was.
Rollback(c) ==
  /\ call[c] # Idle
  /\ call' = [call EXCEPT ![c] = Idle]
  /\ keys' = [k \in Key |-> IF keys[k] = [state |-> "claimed", by |-> c] THEN Free ELSE keys[k]]
  /\ UNCHANGED <<invoices, payments, applied, overlapped>>

Next ==
  \/ \E i \in Invoice : RecordInvoice(i) \/ ConfirmInvoice(i)
  \/ \E c \in Call :
       \/ \E k \in Key : ClaimKey(c, k)
       \/ \E amount \in Amount :
            \/ Propose(c, amount, AutoPlan(amount, Open), TRUE)
            \/ \E plan \in ManualPlans(Open) : Propose(c, amount, plan, FALSE)
       \/ \E p \in Payment : Save(c, p) \/ BeginConfirm(c, p)
       \/ Reject(c) \/ Apply(c) \/ Refuse(c) \/ Rollback(c)

Spec == Init /\ [][Next]_vars
-------------------------------------------------------------------------------
(* The reads: get_statement and get_receivables_summary *)

\* Confirmed invoices on one side, confirmed payments on the other.
ClosingBalance ==
  Total * Cardinality({i \in Invoice : invoices[i].status = "confirmed"})
    - SumFunction([p \in Payment |-> IF payments[p].status = "confirmed" THEN payments[p].amount ELSE 0])

\* What the ageing report adds up to: the balances of the open invoices.
Outstanding == SumFunction(Open)

\* The statement of a party closes with what the ageing report says it owes, unless
\* a payment was confirmed by two calls at the same time.
StatementAgrees == overlapped = {} => ClosingBalance = Outstanding

\* A balance is what the invoice was for, less what confirmed payments planned
\* for it, whatever was confirmed between a plan and its confirmation.
BooksBalance ==
  \A i \in Invoice : invoices[i].status # "absent" =>
    invoices[i].balance =
      Total - SumFunction([p \in Payment |-> applied[p] * payments[p].plan[i]])

\* However often, and however much at once, a call is repeated with its key,
\* every payment row is the result of one key.
OnePaymentPerKey ==
  \A p \in Payment : payments[p].status # "absent" =>
    Cardinality({k \in Key : keys[k] = [state |-> "saved", payment |-> p]}) = 1

\* A payment without instructions clears the invoices it saw open in order of
\* age: nothing goes to an invoice while an older one is left open.
OldestFirst ==
  \A c \in Call : (call[c].at = "save" /\ call[c].auto) =>
    \A j \in Invoice : call[c].plan[j] > 0 =>
      /\ call[c].plan[j] <= call[c].seen[j]
      /\ \A i \in 1..(j - 1) : call[c].plan[i] = call[c].seen[i]

\* A payment comes off the balances twice only if two calls were confirming it
\* at the same time: one after the other they cannot.
TwiceOnlyByOverlap ==
  \A p \in Payment : applied[p] > 1 => p \in overlapped

\* "The exactly-once core": it is not, two calls that both read the payment as a
\* draft take it off the balances one after the other.
AppliedOnce ==
  \A p \in Payment : applied[p] <= 1
===============================================================================
