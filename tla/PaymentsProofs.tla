----------------------------- MODULE PaymentsProofs ----------------------------
(***************************************************************************)
(* Proofs about both uses of the payment gateway (PaymentsMC), for every   *)
(* set of payments, requests, sale ids and amounts, any number of dunning  *)
(* passes and any lengths of the periods.                                  *)
(* What a business collects: IInv is inductive; the properties of the runs *)
(* are its conjuncts, and the latch's action property follows from it.     *)
(* What it pays for its subscription (BillingInv): that a period is        *)
(* extended only for money the gateway collected, that a receipt is queued *)
(* exactly when one is, and how often one payment may extend it.           *)
(***************************************************************************)
EXTENDS PaymentsMC, FiniteSetTheorems, TLAPS
-------------------------------------------------------------------------------
(* What a business collects (CollectionSettlement) *)

USE DEF RowStatus, GatewayStatus, RequestState, Collected

\* The null row and the null answer are a row and an answer.
LEMMA NullsTyped == NoRow \in Row /\ NoLookup \in Lookup
<1>1. AnyAmount \in Amount
  BY AmountAssumption DEF AnyAmount
<1> QED BY <1>1 DEF NoRow, NoLookup, Row, Lookup

\* Writing a status into one row, or one gateway record, keeps the table typed.
LEMMA RowStatusUpdate ==
  ASSUME NEW f \in [Pidx -> Row], NEW p \in Pidx, NEW s \in RowStatus
  PROVE  [f EXCEPT ![p].status = s] \in [Pidx -> Row]
BY DEF Row

LEMMA GatewayStatusUpdate ==
  ASSUME NEW f \in [Pidx -> Lookup], NEW p \in Pidx, NEW s \in GatewayStatus
  PROVE  [f EXCEPT ![p].status = s] \in [Pidx -> Lookup]
BY DEF Lookup

\* What a request holds is typed when the row it reads is.
LEMMA HeldTyped ==
  ASSUME NEW p \in Pidx, NEW r \in Row, NEW a \in Lookup
  PROVE  [pidx |-> p, row |-> r, answer |-> a] \in Held
BY DEF Held

\* The initial state satisfies the inductive invariant.
LEMMA InitIInv == Init => IInv
<1> SUFFICES ASSUME Init PROVE IInv
  OBVIOUS
<1>1. TypeOK
  BY NullsTyped DEF Init, TypeOK
<1>2. RowsIssued /\ LatchPointsAtOwnSale /\ RefundedAtGateway
  BY DEF Init, RowsIssued, LatchPointsAtOwnSale, RefundedAtGateway, NoRow, NoLookup
<1>3. RequestsInSync
  BY DEF Init, RequestsInSync, InsertReady, HeldRowTrue, AnswerTrue
<1>4. SaleBacked /\ NoOpenRowWithSale /\ TrailMatchesSales
  BY DEF Init, SaleBacked, NoOpenRowWithSale, TrailMatchesSales
<1> QED BY <1>1, <1>2, <1>3, <1>4 DEF IInv

\* Every step keeps every variable in its type.
LEMMA StepTyped == TypeOK /\ [Next]_vars => TypeOK'
<1> SUFFICES ASSUME TypeOK, [Next]_vars PROVE TypeOK'
  OBVIOUS
<1> USE DEF TypeOK, Goto
<1>a. ASSUME NEW t \in Request
      PROVE  req[t].pidx \in Pidx /\ req[t].row \in Row /\ req[t].answer \in Lookup
  BY DEF Held
<1>b. ASSUME NEW a \in {"initiated", "amount_mismatch", "completed", "refunded",
                        "expired", "canceled"},
             NEW p \in Pidx, NEW s \in SaleId \cup {NoSale}, Log(a, p, s)
      PROVE  audit' \subseteq Trail
  BY <1>b DEF Log, Trail
<1>1. ASSUME NEW t \in Request, Initiate(t) PROVE TypeOK'
  <2>1. PICK p \in Pidx, amount \in Amount, total \in Amount :
             InitiateAtGateway(t, p, amount, total)
    BY <1>1 DEF Initiate
  <2>2. [NoRow EXCEPT !.status = "initiated", !.amount = amount] \in Row
    BY DEF NoRow, Row
  <2>3. req' \in [Request -> Held]
    BY <2>1, <2>2, HeldTyped, NullsTyped DEF InitiateAtGateway, Hold
  <2>4. gateway' \in [Pidx -> Lookup]
    BY <2>1 DEF InitiateAtGateway, Lookup
  <2> QED BY <2>1, <2>3, <2>4 DEF InitiateAtGateway
<1>2. ASSUME NEW t \in Request, InsertPayment(t) PROVE TypeOK'
  BY <1>2, <1>a, <1>b DEF InsertPayment
<1>3. ASSUME NEW t \in Request, NEW p \in Pidx, ReadForSettlement(t, p) PROVE TypeOK'
  BY <1>3, HeldTyped, NullsTyped DEF ReadForSettlement, Hold
<1>4. ASSUME NEW t \in Request, LookupPayment(t) PROVE TypeOK'
  BY <1>4, <1>a DEF LookupPayment, Held
<1>5. ASSUME NEW t \in Request, Settle(t) PROVE TypeOK'
  <2>1. CASE FlagMismatch(t)
    BY <2>1, <1>a, <1>b, RowStatusUpdate DEF FlagMismatch
  <2>2. CASE AlreadyRecorded(t) \/ StillInFlight(t)
    BY <2>2 DEF AlreadyRecorded, StillInFlight
  <2>3. CASE RecordSale(t)
    <3>1. PICK id \in FreshSale :
            /\ sales' = sales \cup {[id |-> id, ref |-> req[t].pidx, amount |-> req[t].row.amount]}
            /\ payments' = Completion(req[t].pidx, id)
            /\ Log("completed", req[t].pidx, id)
      BY <2>3 DEF RecordSale
    <3>2. id \in SaleId
      BY DEF FreshSale
    <3>3. payments' \in [Pidx -> Row]
      BY <3>1, <3>2, <1>a DEF Completion, Row
    <3>4. sales' \subseteq Sale
      BY <3>1, <3>2, <1>a DEF Sale, Row
    <3> QED BY <2>3, <3>1, <3>2, <3>3, <3>4, <1>a, <1>b DEF RecordSale
  <2>4. CASE CloseUnpaid(t)
    <3> DEFINE terminal == RowStatusFor(req[t].answer.status)
    <3>1. req[t].answer.status \in GatewayStatus
      BY <1>a DEF Lookup
    <3>2. terminal \in {"refunded", "expired", "canceled"}
      BY <2>4, <3>1 DEF CloseUnpaid, RowStatusFor
    <3> HIDE DEF terminal
    <3>3. CASE req[t].row.status = "initiated"
      <4>1. payments' = [payments EXCEPT ![req[t].pidx].status = terminal]
            /\ Log(terminal, req[t].pidx, NoSale)
        BY <2>4, <3>3 DEF CloseUnpaid, terminal
      <4>2. payments' \in [Pidx -> Row]
        BY <4>1, <3>2, <1>a, RowStatusUpdate
      <4>3. audit' \subseteq Trail
        BY <4>1, <3>2, <1>a, <1>b
      <4> QED BY <2>4, <4>2, <4>3 DEF CloseUnpaid
    <3>4. CASE req[t].row.status # "initiated"
      BY <2>4, <3>4 DEF CloseUnpaid
    <3> QED BY <3>3, <3>4
  <2> QED BY <1>5, <2>1, <2>2, <2>3, <2>4 DEF Settle
<1>6. ASSUME NEW t \in Request, NEW p \in Pidx, ReadForRefund(t, p) PROVE TypeOK'
  BY <1>6, HeldTyped, NullsTyped DEF ReadForRefund, Hold
<1>7. ASSUME NEW t \in Request, RefundAtGateway(t) PROVE TypeOK'
  BY <1>7, <1>a, GatewayStatusUpdate DEF RefundAtGateway
<1>8. ASSUME NEW t \in Request, RecordRefund(t) PROVE TypeOK'
  BY <1>8, <1>a, <1>b, RowStatusUpdate DEF RecordRefund
<1>9. ASSUME NEW t \in Request, Fail(t) PROVE TypeOK'
  BY <1>9 DEF Fail
<1>10. ASSUME NEW p \in Pidx, GatewayStep(p) PROVE TypeOK'
  <2>1. PICK s \in GatewayStatus : gateway' = [gateway EXCEPT ![p].status = s]
    BY <1>10 DEF GatewayStep
  <2> QED BY <1>10, <2>1, GatewayStatusUpdate DEF GatewayStep
<1>11. CASE UNCHANGED vars
  BY <1>11 DEF vars
<1> QED
  BY <1>1, <1>2, <1>3, <1>4, <1>5, <1>6, <1>7, <1>8, <1>9, <1>10, <1>11 DEF Next

\* Type correctness of every reachable state.
THEOREM TypeCorrect == Spec => []TypeOK
<1>1. Init => TypeOK
  BY InitIInv DEF IInv
<1> QED BY <1>1, StepTyped, PTL DEF Spec

\* The components of what a request holds, and the fields of the rows.
LEMMA Fields ==
  ASSUME TypeOK
  PROVE  /\ \A t \in Request : /\ req[t].pidx \in Pidx /\ req[t].row \in Row
                               /\ req[t].answer \in Lookup
                               /\ req[t].answer.status \in GatewayStatus
         /\ \A p \in Pidx : /\ payments[p] \in Row /\ gateway[p] \in Lookup
                            /\ payments[p].saleId \in SaleId \cup {NoSale}
BY DEF TypeOK, Held, Row, Lookup

\* What no step undoes: rows and gateway records stay, amounts and totals are
\* fixed, a latch keeps its sale, collected and refunded money stays so.
Grows ==
  \A p \in Pidx :
    /\ payments[p].status # "absent" =>
         payments'[p].status # "absent" /\ payments'[p].amount = payments[p].amount
    /\ payments[p].status \notin {"absent", "initiated"} =>
         payments'[p].status \notin {"absent", "initiated"}
    /\ payments[p].saleId # NoSale => payments'[p].saleId = payments[p].saleId
    /\ gateway[p].status # "none" =>
         gateway'[p].status # "none" /\ gateway'[p].total = gateway[p].total
    /\ gateway[p].status \in Collected => gateway'[p].status \in Collected
    /\ gateway[p].status \in {"Refunded", "Partially Refunded"} =>
         gateway'[p].status \in {"Refunded", "Partially Refunded"}
    /\ gateway[p].status = "Refunded" => gateway'[p].status = "Refunded"

\* A step that writes only a status into one existing row.
StatusWritten(p, s) ==
  \A q \in Pidx :
    /\ payments'[q].amount = payments[q].amount
    /\ payments'[q].saleId = payments[q].saleId
    /\ payments'[q].status = IF q = p THEN s ELSE payments[q].status

LEMMA StatusWrite ==
  ASSUME TypeOK, NEW p \in Pidx, NEW s \in RowStatus,
         payments' = [payments EXCEPT ![p].status = s]
  PROVE  StatusWritten(p, s)
<1> SUFFICES ASSUME NEW q \in Pidx
             PROVE  /\ payments'[q].amount = payments[q].amount
                    /\ payments'[q].saleId = payments[q].saleId
                    /\ payments'[q].status = IF q = p THEN s ELSE payments[q].status
  BY DEF StatusWritten
<1>1. payments[q] \in Row /\ payments \in [Pidx -> Row]
  BY DEF TypeOK
<1>2. CASE q = p
  <2>1. payments'[q] = [payments[q] EXCEPT !.status = s]
    BY <1>1, <1>2
  <2> QED BY <1>1, <1>2, <2>1 DEF Row
<1>3. CASE q # p
  BY <1>1, <1>3
<1> QED BY <1>2, <1>3

\* Closing an unpaid row copies one of three statuses, or writes nothing.
LEMMA CloseEffect ==
  ASSUME IInv, NEW t \in Request, CloseUnpaid(t)
  PROVE  \/ UNCHANGED <<payments, sales, audit, gateway>>
         \/ \E s \in {"refunded", "expired", "canceled"} :
              /\ StatusWritten(req[t].pidx, s)
              /\ Log(s, req[t].pidx, NoSale)
              /\ UNCHANGED <<sales, gateway>>
              /\ s = "refunded" => gateway[req[t].pidx].status \in {"Refunded", "Partially Refunded"}
<1> DEFINE s == RowStatusFor(req[t].answer.status)
<1>1. TypeOK /\ req[t].pidx \in Pidx /\ req[t].answer.status \in GatewayStatus
  BY Fields DEF IInv
<1>2. s \in {"refunded", "expired", "canceled"}
  BY <1>1 DEF CloseUnpaid, RowStatusFor
<1>3. s = "refunded" => gateway[req[t].pidx].status \in {"Refunded", "Partially Refunded"}
  BY DEF CloseUnpaid, Goto, IInv, RequestsInSync, AnswerTrue
<1>4. CASE req[t].row.status = "initiated"
  <2>1. /\ payments' = [payments EXCEPT ![req[t].pidx].status = s]
        /\ Log(s, req[t].pidx, NoSale)
        /\ UNCHANGED <<sales, gateway>>
    BY <1>4 DEF CloseUnpaid
  <2> HIDE DEF s
  <2>2. StatusWritten(req[t].pidx, s)
    BY <1>1, <1>2, <2>1, StatusWrite
  <2> QED BY <1>2, <1>3, <2>1, <2>2
<1>5. CASE req[t].row.status # "initiated"
  BY <1>5 DEF CloseUnpaid
<1> QED BY <1>4, <1>5

\* Flagging and refunding write one status as well.
LEMMA FlagEffect ==
  ASSUME IInv, NEW t \in Request, FlagMismatch(t)
  PROVE  /\ StatusWritten(req[t].pidx, "amount_mismatch")
         /\ Log("amount_mismatch", req[t].pidx, NoSale)
         /\ UNCHANGED <<sales, gateway>>
BY Fields, StatusWrite DEF IInv, FlagMismatch

LEMMA RefundEffect ==
  ASSUME IInv, NEW t \in Request, RecordRefund(t)
  PROVE  /\ StatusWritten(req[t].pidx, "refunded")
         /\ Log("refunded", req[t].pidx, NoSale)
         /\ UNCHANGED <<sales, gateway>>
BY Fields, StatusWrite DEF IInv, RecordRefund

\* A new sale is for the request's own payment; the row is completed if open.
LEMMA SaleEffect ==
  ASSUME IInv, NEW t \in Request, RecordSale(t)
  PROVE  \E id \in SaleId :
           LET p == req[t].pidx IN
           /\ sales' = sales \cup {[id |-> id, ref |-> p, amount |-> req[t].row.amount]}
           /\ Log("completed", p, id)
           /\ gateway' = gateway
           /\ \A q \in Pidx :
                /\ payments'[q].amount = payments[q].amount
                /\ q # p => payments'[q] = payments[q]
                /\ payments[p].status = "initiated" =>
                     payments'[p].status = "completed" /\ payments'[p].saleId = id
                /\ payments[p].status # "initiated" => payments'[p] = payments[p]
<1> DEFINE p == req[t].pidx
<1>1. TypeOK /\ p \in Pidx /\ payments \in [Pidx -> Row]
  BY Fields DEF IInv, TypeOK
<1>2. PICK id \in FreshSale :
        /\ sales' = sales \cup {[id |-> id, ref |-> p, amount |-> req[t].row.amount]}
        /\ payments' = Completion(p, id)
        /\ Log("completed", p, id)
  BY DEF RecordSale
<1>3. id \in SaleId /\ gateway' = gateway
  BY DEF FreshSale, RecordSale
<1> HIDE DEF p
<1>4. CASE payments[p].status = "initiated"
  <2>1. payments' = [payments EXCEPT ![p] = [payments[p] EXCEPT !.status = "completed", !.saleId = id]]
    BY <1>1, <1>2, <1>4 DEF Completion, Row
  <2>2. payments'[p] = [payments[p] EXCEPT !.status = "completed", !.saleId = id]
    BY <1>1, <2>1
  <2>3. /\ payments'[p].status = "completed" /\ payments'[p].saleId = id
        /\ payments'[p].amount = payments[p].amount
    BY <1>1, <2>2 DEF Row
  <2>4. \A q \in Pidx : q # p => payments'[q] = payments[q]
    BY <1>1, <2>1
  <2> QED BY <1>2, <1>3, <1>4, <2>3, <2>4 DEF p
<1>5. CASE payments[p].status # "initiated"
  BY <1>2, <1>3, <1>5 DEF Completion, p
<1> QED BY <1>4, <1>5

\* The gateway's moves never forget money that reached it.
LEMMA GatewayEffect ==
  ASSUME TypeOK, NEW p \in Pidx, GatewayStep(p)
  PROVE  \E s \in GatewayStatus :
           /\ gateway'[p].status = s /\ gateway'[p].total = gateway[p].total
           /\ \A q \in Pidx : q # p => gateway'[q] = gateway[q]
           /\ <<gateway[p].status, s>> \in GatewayMove
           /\ UNCHANGED <<payments, sales, audit, pc, req>>
<1>1. PICK s \in GatewayStatus :
        /\ <<gateway[p].status, s>> \in GatewayMove
        /\ gateway' = [gateway EXCEPT ![p].status = s]
        /\ UNCHANGED <<payments, sales, audit, pc, req>>
  BY DEF GatewayStep
<1>2. gateway \in [Pidx -> Lookup] /\ gateway[p] \in Lookup
  BY DEF TypeOK
<1>3. gateway'[p] = [gateway[p] EXCEPT !.status = s]
  BY <1>1, <1>2
<1>4. gateway'[p].status = s /\ gateway'[p].total = gateway[p].total
  BY <1>2, <1>3 DEF Lookup
<1> QED BY <1>1, <1>2, <1>4

\* No step undoes what Grows lists.
LEMMA StepGrows == IInv /\ [Next]_vars => Grows
<1> SUFFICES ASSUME IInv, [Next]_vars PROVE Grows
  OBVIOUS
<1>0. TypeOK
  BY DEF IInv
<1>1. ASSUME UNCHANGED <<payments, gateway>> PROVE Grows
  BY <1>1 DEF Grows
<1>2. ASSUME NEW p \in Pidx, NEW s \in RowStatus \ {"absent", "initiated"},
             StatusWritten(p, s), UNCHANGED gateway
      PROVE  Grows
  BY <1>2 DEF StatusWritten, Grows
<1>3. ASSUME NEW t \in Request, Initiate(t) PROVE Grows
  <2>1. PICK p \in Pidx, amount \in Amount, total \in Amount :
             InitiateAtGateway(t, p, amount, total)
    BY <1>3 DEF Initiate
  <2>2. /\ payments' = payments /\ gateway[p].status = "none"
        /\ \A q \in Pidx : q # p => gateway'[q] = gateway[q]
    BY <1>0, <2>1 DEF InitiateAtGateway, TypeOK
  <2> QED BY <2>2 DEF Grows
<1>4. ASSUME NEW t \in Request, InsertPayment(t) PROVE Grows
  <2>1. /\ payments[req[t].pidx].status = "absent" /\ gateway' = gateway
        /\ req[t].pidx \in Pidx
    BY <1>0, <1>4, Fields DEF InsertPayment, Goto, IInv, RequestsInSync, InsertReady
  <2>2. payments[req[t].pidx].saleId = NoSale
    BY <2>1 DEF IInv, RowsIssued
  <2>3. \A q \in Pidx : q # req[t].pidx => payments'[q] = payments[q]
    BY <1>0, <1>4 DEF InsertPayment, TypeOK
  <2> QED BY <2>1, <2>2, <2>3 DEF Grows
<1>5. ASSUME NEW t \in Request, RecordSale(t) PROVE Grows
  <2>1. payments[req[t].pidx].status = "initiated" => payments[req[t].pidx].saleId = NoSale
    <3>1. req[t].pidx \in Pidx
      BY <1>0, Fields
    <3>2. LatchPointsAtOwnSale /\ NoOpenRowWithSale
      BY DEF IInv
    <3> QED BY <3>1, <3>2 DEF LatchPointsAtOwnSale, NoOpenRowWithSale
  <2> QED BY <1>5, <2>1, SaleEffect DEF Grows
<1>6. ASSUME NEW t \in Request, FlagMismatch(t) \/ RecordRefund(t) PROVE Grows
  BY <1>0, <1>2, <1>6, Fields, FlagEffect, RefundEffect
<1>7. ASSUME NEW t \in Request, CloseUnpaid(t) PROVE Grows
  BY <1>0, <1>1, <1>2, <1>7, Fields, CloseEffect
<1>8. ASSUME NEW t \in Request, RefundAtGateway(t) PROVE Grows
  <2>1. /\ payments' = payments /\ req[t].pidx \in Pidx
        /\ gateway[req[t].pidx] \in Lookup
        /\ gateway' = [gateway EXCEPT ![req[t].pidx] = [gateway[req[t].pidx] EXCEPT !.status = "Refunded"]]
    BY <1>0, <1>8, Fields DEF RefundAtGateway
  <2>2. /\ gateway'[req[t].pidx].status = "Refunded"
        /\ gateway'[req[t].pidx].total = gateway[req[t].pidx].total
        /\ \A q \in Pidx : q # req[t].pidx => gateway'[q] = gateway[q]
    BY <1>0, <2>1 DEF TypeOK, Lookup
  <2> QED BY <2>1, <2>2 DEF Grows
<1>9. ASSUME NEW p \in Pidx, GatewayStep(p) PROVE Grows
  <2>1. PICK s \in GatewayStatus :
          /\ gateway'[p].status = s /\ gateway'[p].total = gateway[p].total
          /\ \A q \in Pidx : q # p => gateway'[q] = gateway[q]
          /\ <<gateway[p].status, s>> \in GatewayMove
          /\ payments' = payments
    BY <1>0, <1>9, GatewayEffect
  <2>2. /\ s # "none"
        /\ gateway[p].status \in Collected => s \in {"Refunded", "Partially Refunded"}
        /\ gateway[p].status \notin {"Refunded", "Partially Refunded"}
    BY <2>1 DEF GatewayMove
  <2> QED BY <2>1, <2>2 DEF Grows
<1>10. ASSUME NEW t \in Request, NEW p \in Pidx,
              ReadForSettlement(t, p) \/ ReadForRefund(t, p)
       PROVE  Grows
  BY <1>1, <1>10 DEF ReadForSettlement, ReadForRefund
<1>11. CASE UNCHANGED vars
  BY <1>1, <1>11 DEF vars
<1>12. ASSUME NEW t \in Request,
              LookupPayment(t) \/ AlreadyRecorded(t) \/ StillInFlight(t) \/ Fail(t)
       PROVE  Grows
  BY <1>1, <1>12 DEF LookupPayment, AlreadyRecorded, StillInFlight, Fail
<1> QED
  BY <1>3, <1>4, <1>5, <1>6, <1>7, <1>8, <1>9, <1>10, <1>11, <1>12 DEF Next, Settle

\* A table untouched, or growing, keeps what the invariant says of the tables.
TablesSound ==
  /\ RowsIssued /\ SaleBacked /\ LatchPointsAtOwnSale
  /\ TrailMatchesSales /\ NoOpenRowWithSale /\ RefundedAtGateway

LEMMA QuietTables ==
  ASSUME IInv, Grows, UNCHANGED <<payments, sales, audit>>
  PROVE  TablesSound'
<1>1. \A s \in sales : s.ref \in Pidx
  BY DEF IInv, TypeOK, Sale
<1>2. RowsIssued' /\ LatchPointsAtOwnSale' /\ TrailMatchesSales' /\ NoOpenRowWithSale'
  BY DEF IInv, Grows, RowsIssued, LatchPointsAtOwnSale, TrailMatchesSales, NoOpenRowWithSale
<1>3. SaleBacked'
  BY <1>1 DEF IInv, Grows, SaleBacked
<1>4. RefundedAtGateway'
  BY DEF IInv, Grows, RefundedAtGateway
<1> QED BY <1>2, <1>3, <1>4 DEF TablesSound

\* An entry about anything but a completed sale leaves trail and sales agreeing.
LEMMA TrailKept ==
  ASSUME TrailMatchesSales, NEW a, NEW p, NEW s, a # "completed", Log(a, p, s),
         sales' = sales
  PROVE  TrailMatchesSales'
<1>1. {b \in audit' : b.action = "completed"} = {b \in audit : b.action = "completed"}
  BY DEF Log
<1> QED BY <1>1 DEF TrailMatchesSales

\* Writing a status other than initiated or completed into an existing row.
LEMMA StatusTables ==
  ASSUME IInv, Grows, NEW p \in Pidx,
         NEW s \in RowStatus \ {"absent", "initiated", "completed"},
         StatusWritten(p, s), payments[p].status # "absent",
         Log(s, p, NoSale), UNCHANGED <<sales, gateway>>,
         s = "refunded" => gateway[p].status \in {"Refunded", "Partially Refunded"}
  PROVE  TablesSound'
<1>1. \A x \in sales : x.ref \in Pidx
  BY DEF IInv, TypeOK, Sale
<1>2. TrailMatchesSales'
  BY TrailKept DEF IInv
<1>3. RowsIssued'
  BY DEF IInv, RowsIssued, StatusWritten
<1>4. LatchPointsAtOwnSale'
  <2>1. LatchPointsAtOwnSale
    BY DEF IInv
  <2>2. ASSUME NEW q \in Pidx
        PROVE  /\ payments'[q].saleId = payments[q].saleId
               /\ payments'[q].status = "completed" => payments[q].status = "completed"
    BY DEF StatusWritten
  <2>3. sales' = sales
    OBVIOUS
  <2>4. ASSUME NEW q \in Pidx
        PROVE  /\ payments'[q].status = "completed" => payments'[q].saleId # NoSale
               /\ payments'[q].saleId # NoSale =>
                    \E x \in sales' : x.id = payments'[q].saleId /\ x.ref = q
    <3>1. /\ payments[q].status = "completed" => payments[q].saleId # NoSale
          /\ payments[q].saleId # NoSale =>
               \E x \in sales : x.id = payments[q].saleId /\ x.ref = q
      BY <2>1 DEF LatchPointsAtOwnSale
    <3> QED BY <2>2, <2>3, <3>1
  <2> QED BY <2>4 DEF LatchPointsAtOwnSale
<1>5. NoOpenRowWithSale' /\ SaleBacked'
  BY <1>1 DEF IInv, NoOpenRowWithSale, SaleBacked, StatusWritten
<1>6. RefundedAtGateway'
  BY DEF IInv, RefundedAtGateway, StatusWritten
<1> QED BY <1>2, <1>3, <1>4, <1>5, <1>6 DEF TablesSound

\* Inserting the row of a pidx nobody has a row for.
LEMMA InsertTables ==
  ASSUME IInv, Grows, NEW t \in Request, InsertPayment(t)
  PROVE  TablesSound'
<1> DEFINE p == req[t].pidx
<1>1. p \in Pidx /\ TypeOK
  BY Fields DEF IInv
<1>2. /\ req[t].row.status = "initiated" /\ req[t].row.saleId = NoSale
      /\ payments[p].status = "absent" /\ gateway[p].status # "none"
  BY DEF InsertPayment, Goto, IInv, RequestsInSync, InsertReady
<1>3. /\ payments'[p].status = "initiated" /\ payments'[p].saleId = NoSale
      /\ \A q \in Pidx : q # p => payments'[q] = payments[q]
      /\ Log("initiated", p, NoSale) /\ UNCHANGED <<sales, gateway>>
  BY <1>1, <1>2 DEF InsertPayment, TypeOK
<1> HIDE DEF p
<1>4. \A s \in sales : s.ref \in Pidx /\ s.ref # p
  BY <1>2 DEF IInv, NoOpenRowWithSale, TypeOK, Sale
<1>5. TrailMatchesSales'
  BY <1>3, TrailKept DEF IInv
<1>6. RowsIssued' /\ LatchPointsAtOwnSale' /\ RefundedAtGateway'
  <2>1. RowsIssued /\ LatchPointsAtOwnSale /\ RefundedAtGateway
    BY DEF IInv
  <2>2. RowsIssued'
    BY <1>2, <1>3, <2>1 DEF RowsIssued
  <2>3. LatchPointsAtOwnSale'
    BY <1>3, <2>1 DEF LatchPointsAtOwnSale
  <2>4. RefundedAtGateway'
    BY <1>3, <2>1 DEF RefundedAtGateway
  <2> QED BY <2>2, <2>3, <2>4
<1>7. SaleBacked' /\ NoOpenRowWithSale'
  BY <1>3, <1>4 DEF IInv, SaleBacked, NoOpenRowWithSale
<1> QED BY <1>5, <1>6, <1>7 DEF TablesSound

\* Recording a sale the gateway vouched for.
LEMMA SaleTables ==
  ASSUME IInv, Grows, NEW t \in Request, RecordSale(t)
  PROVE  TablesSound'
<1> DEFINE p == req[t].pidx
<1>1. p \in Pidx /\ TypeOK
  BY Fields DEF IInv
<1>2. PICK id \in SaleId :
        /\ sales' = sales \cup {[id |-> id, ref |-> p, amount |-> req[t].row.amount]}
        /\ Log("completed", p, id)
        /\ gateway' = gateway
        /\ \A q \in Pidx :
             /\ payments'[q].amount = payments[q].amount
             /\ q # p => payments'[q] = payments[q]
             /\ payments[p].status = "initiated" =>
                  payments'[p].status = "completed" /\ payments'[p].saleId = id
             /\ payments[p].status # "initiated" => payments'[p] = payments[p]
  BY SaleEffect
<1>3. /\ payments[p].status # "absent" /\ req[t].row.amount = payments[p].amount
      /\ gateway[p].status \in Collected /\ req[t].row.amount = gateway[p].total
  BY DEF RecordSale, Goto, AmountAgrees, IInv, RequestsInSync, HeldRowTrue, AnswerTrue
<1> HIDE DEF p
<1>4. \A s \in sales : s.ref \in Pidx
  BY DEF IInv, TypeOK, Sale
<1> DEFINE new == [id |-> id, ref |-> p, amount |-> req[t].row.amount]
<1>n. /\ new.id = id /\ new.ref = p /\ new.amount = req[t].row.amount
      /\ sales' = sales \cup {new}
  BY <1>2
<1> HIDE DEF new
<1>5. SaleBacked'
  <2>1. SaleBacked
    BY DEF IInv
  <2>2. ASSUME NEW s \in sales'
        PROVE  /\ gateway'[s.ref].status \in Collected
               /\ s.amount = gateway'[s.ref].total
               /\ s.amount = payments'[s.ref].amount
    <3>1. CASE s = new
      BY <1>1, <1>2, <1>3, <1>n, <3>1
    <3>2. CASE s \in sales
      BY <1>2, <1>4, <2>1, <3>2 DEF SaleBacked
    <3> QED BY <1>n, <3>1, <3>2
  <2> QED BY <2>2 DEF SaleBacked
<1>6. NoOpenRowWithSale'
  <2>1. payments'[p].status \notin {"absent", "initiated"}
    BY <1>1, <1>2, <1>3
  <2>2. ASSUME NEW s \in sales', s.ref # p
        PROVE  payments'[s.ref].status \notin {"absent", "initiated"}
    <3>1. s \in sales
      BY <1>n, <2>2
    <3> QED BY <1>2, <1>4, <2>2, <3>1 DEF IInv, NoOpenRowWithSale
  <2> QED BY <2>1, <2>2 DEF NoOpenRowWithSale
<1>7. LatchPointsAtOwnSale'
  <2>1. \A s \in sales : s \in sales'
    BY <1>n
  <2>2. new \in sales'
    BY <1>n
  <2>3. id # NoSale
    BY SaleAssumption
  <2>4. LatchPointsAtOwnSale
    BY DEF IInv
  <2>5. ASSUME NEW q \in Pidx, q = p, payments[p].status = "initiated"
        PROVE  /\ payments'[q].saleId # NoSale
               /\ \E s \in sales' : s.id = payments'[q].saleId /\ s.ref = q
    BY <1>2, <1>n, <2>2, <2>3, <2>5
  <2>6. ASSUME NEW q \in Pidx, ~(q = p /\ payments[p].status = "initiated")
        PROVE  payments'[q] = payments[q]
    BY <1>1, <1>2, <2>6
  <2> QED BY <2>1, <2>4, <2>5, <2>6 DEF LatchPointsAtOwnSale
<1>8. TrailMatchesSales'
  <2>1. {<<s.ref, s.id>> : s \in sales'} = {<<s.ref, s.id>> : s \in sales} \cup {<<p, id>>}
    BY <1>n
  <2> DEFINE entry == [action |-> "completed", pidx |-> p, sale |-> id]
  <2>2. /\ entry.action = "completed" /\ entry.pidx = p /\ entry.sale = id
        /\ audit' = audit \cup {entry}
    BY <1>2 DEF Log
  <2> HIDE DEF entry
  <2>3. {<<a.pidx, a.sale>> : a \in {b \in audit' : b.action = "completed"}}
          = {<<a.pidx, a.sale>> : a \in {b \in audit : b.action = "completed"}} \cup {<<p, id>>}
    BY <2>2
  <2> QED BY <2>1, <2>3 DEF IInv, TrailMatchesSales
<1>9. RowsIssued' /\ RefundedAtGateway'
  BY <1>1, <1>2, <1>3 DEF IInv, RowsIssued, RefundedAtGateway
<1> QED BY <1>5, <1>6, <1>7, <1>8, <1>9 DEF TablesSound

\* Every step keeps what the invariant says of the tables.
LEMMA StepTables == IInv /\ [Next]_vars => TablesSound'
<1> SUFFICES ASSUME IInv, [Next]_vars PROVE TablesSound'
  OBVIOUS
<1>0. TypeOK /\ Grows
  BY StepGrows DEF IInv
<1>1. ASSUME UNCHANGED <<payments, sales, audit>> PROVE TablesSound'
  BY <1>0, <1>1, QuietTables
<1>2. ASSUME NEW t \in Request, FlagMismatch(t) PROVE TablesSound'
  <2>1. req[t].pidx \in Pidx /\ payments[req[t].pidx].status # "absent"
    BY <1>0, <1>2, Fields DEF IInv, RequestsInSync, HeldRowTrue, FlagMismatch, Goto
  <2> QED BY <1>0, <1>2, <2>1, FlagEffect, StatusTables
<1>3. ASSUME NEW t \in Request, RecordRefund(t) PROVE TablesSound'
  <2>1. /\ req[t].pidx \in Pidx /\ payments[req[t].pidx].status # "absent"
        /\ gateway[req[t].pidx].status = "Refunded"
    BY <1>0, <1>3, Fields DEF IInv, RequestsInSync, HeldRowTrue, AnswerTrue, RecordRefund, Goto
  <2> QED BY <1>0, <1>3, <2>1, RefundEffect, StatusTables
<1>4. ASSUME NEW t \in Request, CloseUnpaid(t) PROVE TablesSound'
  <2>1. req[t].pidx \in Pidx /\ payments[req[t].pidx].status # "absent"
    BY <1>0, <1>4, Fields DEF IInv, RequestsInSync, HeldRowTrue, CloseUnpaid, Goto
  <2>2. CASE UNCHANGED <<payments, sales, audit, gateway>>
    BY <1>1, <2>2
  <2>3. ASSUME NEW s \in {"refunded", "expired", "canceled"},
               StatusWritten(req[t].pidx, s), Log(s, req[t].pidx, NoSale),
               UNCHANGED <<sales, gateway>>,
               s = "refunded" =>
                 gateway[req[t].pidx].status \in {"Refunded", "Partially Refunded"}
        PROVE  TablesSound'
    BY <1>0, <2>1, <2>3, StatusTables
  <2> QED BY <1>4, <2>2, <2>3, CloseEffect
<1>5. ASSUME NEW t \in Request, InsertPayment(t) PROVE TablesSound'
  BY <1>0, <1>5, InsertTables
<1>6. ASSUME NEW t \in Request, RecordSale(t) PROVE TablesSound'
  BY <1>0, <1>6, SaleTables
<1>7. ASSUME NEW t \in Request,
             \/ Initiate(t) \/ LookupPayment(t) \/ AlreadyRecorded(t) \/ StillInFlight(t)
             \/ RefundAtGateway(t) \/ Fail(t)
      PROVE  TablesSound'
  BY <1>1, <1>7 DEF Initiate, InitiateAtGateway, LookupPayment, AlreadyRecorded,
                    StillInFlight, RefundAtGateway, Fail
<1>8. ASSUME NEW t \in Request, NEW p \in Pidx, ReadForSettlement(t, p) \/ ReadForRefund(t, p)
      PROVE  TablesSound'
  BY <1>1, <1>8 DEF ReadForSettlement, ReadForRefund
<1>9. ASSUME NEW p \in Pidx, GatewayStep(p) PROVE TablesSound'
  BY <1>1, <1>9 DEF GatewayStep
<1>10. CASE UNCHANGED vars
  BY <1>1, <1>10 DEF vars
<1> QED
  BY <1>2, <1>3, <1>4, <1>5, <1>6, <1>7, <1>8, <1>9, <1>10 DEF Next, Settle

\* A request that does not move stays in sync while the tables only grow.
LEMMA BystanderInSync ==
  ASSUME IInv, Grows, NEW u \in Request, pc'[u] = pc[u], req'[u] = req[u]
  PROVE  HeldRowTrue(u)' /\ AnswerTrue(u)'
<1>1. req[u].pidx \in Pidx
  BY Fields DEF IInv
<1>2. HeldRowTrue(u) /\ AnswerTrue(u)
  BY DEF IInv, RequestsInSync
<1>3. HeldRowTrue(u)'
  BY <1>1, <1>2 DEF HeldRowTrue, Grows
<1>4. AnswerTrue(u)'
  <2>1. pc[u] = "settle" => gateway[req[u].pidx].status # "none"
    BY <1>1, <1>2 DEF HeldRowTrue, IInv, RowsIssued
  <2> QED BY <1>1, <1>2, <2>1 DEF AnswerTrue, Grows, RowStatusFor
<1> QED BY <1>3, <1>4

\* Only t moves, and it does not become an inserter.
OnlyMoves(t) ==
  /\ pc'[t] # "insert"
  /\ \A u \in Request \ {t} : pc'[u] = pc[u] /\ req'[u] = req[u]

LEMMA OthersInSync ==
  ASSUME IInv, Grows, NEW t \in Request, OnlyMoves(t),
         \A p \in Pidx : payments[p].status = "absent" =>
            \/ payments'[p].status = "absent"
            \/ pc[t] = "insert" /\ p = req[t].pidx
  PROVE  \A u \in Request \ {t} : InsertReady(u)' /\ HeldRowTrue(u)' /\ AnswerTrue(u)'
<1> SUFFICES ASSUME NEW u \in Request \ {t}
             PROVE  InsertReady(u)' /\ HeldRowTrue(u)' /\ AnswerTrue(u)'
  OBVIOUS
<1>1. pc'[u] = pc[u] /\ req'[u] = req[u] /\ req[u].pidx \in Pidx /\ req[t].pidx \in Pidx
  BY Fields DEF OnlyMoves, IInv
<1>2. InsertReady(u) /\ InsertReady(t)
  BY DEF IInv, RequestsInSync
<1>3. InsertReady(u)'
  <2>1. SUFFICES ASSUME pc[u] = "insert" PROVE InsertReady(u)'
    BY <1>1 DEF InsertReady
  <2>2. /\ payments'[req[u].pidx].status = "absent"
        /\ gateway'[req[u].pidx].status # "none"
    BY <1>1, <1>2, <2>1 DEF InsertReady, Grows
  <2>3. \A w \in Request : pc'[w] = "insert" /\ req'[w].pidx = req'[u].pidx => w = u
    BY <1>1, <1>2, <2>1 DEF InsertReady, OnlyMoves
  <2> QED BY <1>1, <1>2, <2>1, <2>2, <2>3 DEF InsertReady
<1> QED BY <1>1, <1>3, BystanderInSync

\* A request that ends is out of every clause.
LEMMA EndedInSync ==
  ASSUME NEW t \in Request, pc'[t] = "idle"
  PROVE  InsertReady(t)' /\ HeldRowTrue(t)' /\ AnswerTrue(t)'
BY DEF InsertReady, HeldRowTrue, AnswerTrue

\* Every step keeps every request in sync with the tables and the gateway.
LEMMA StepSync == IInv /\ [Next]_vars => RequestsInSync'
<1> SUFFICES ASSUME IInv, [Next]_vars PROVE RequestsInSync'
  OBVIOUS
<1>0. TypeOK /\ Grows
  BY StepGrows DEF IInv
<1>p. pc \in [Request -> RequestState] /\ req \in [Request -> Held]
  BY <1>0 DEF TypeOK
<1>1. ASSUME NEW t \in Request, pc' = [pc EXCEPT ![t] = "idle"], req' = req,
             \A p \in Pidx : payments[p].status = "absent" =>
                \/ payments'[p].status = "absent"
                \/ pc[t] = "insert" /\ p = req[t].pidx
      PROVE  RequestsInSync'
  <2>1. OnlyMoves(t) /\ pc'[t] = "idle"
    BY <1>p, <1>1 DEF OnlyMoves
  <2> QED BY <1>0, <1>1, <2>1, OthersInSync, EndedInSync DEF RequestsInSync
<1>2. ASSUME NEW t \in Request, AlreadyRecorded(t) \/ StillInFlight(t) \/ Fail(t)
      PROVE  RequestsInSync'
  BY <1>1, <1>2 DEF AlreadyRecorded, StillInFlight, Fail, Goto
<1>3. ASSUME NEW t \in Request, InsertPayment(t) PROVE RequestsInSync'
  <2>1. \A q \in Pidx : q # req[t].pidx => payments'[q] = payments[q]
    BY <1>0, <1>3 DEF InsertPayment, TypeOK
  <2> QED BY <1>1, <1>3, <2>1 DEF InsertPayment, Goto
<1>4. ASSUME NEW t \in Request,
             FlagMismatch(t) \/ RecordSale(t) \/ CloseUnpaid(t) \/ RecordRefund(t)
      PROVE  RequestsInSync'
  <2>1. req[t].pidx \in Pidx /\ payments[req[t].pidx].status # "absent"
    BY <1>0, <1>4, Fields DEF IInv, RequestsInSync, HeldRowTrue, FlagMismatch, RecordSale,
                              CloseUnpaid, RecordRefund, Goto
  <2>2. \A q \in Pidx : payments[q].status = "absent" => payments'[q].status = "absent"
    <3>1. CASE FlagMismatch(t)
      BY <2>1, <3>1, FlagEffect DEF StatusWritten
    <3>2. CASE RecordSale(t)
      BY <2>1, <3>2, SaleEffect
    <3>3. CASE CloseUnpaid(t)
      BY <2>1, <3>3, CloseEffect DEF StatusWritten
    <3>4. CASE RecordRefund(t)
      BY <2>1, <3>4, RefundEffect DEF StatusWritten
    <3> QED BY <1>4, <3>1, <3>2, <3>3, <3>4
  <2>3. pc' = [pc EXCEPT ![t] = "idle"] /\ req' = req
    BY <1>4 DEF FlagMismatch, RecordSale, CloseUnpaid, RecordRefund, Goto
  <2> QED BY <1>1, <2>2, <2>3
<1>5. ASSUME NEW t \in Request, Initiate(t) PROVE RequestsInSync'
  <2>1. PICK p \in Pidx, amount \in Amount, total \in Amount :
             InitiateAtGateway(t, p, amount, total)
    BY <1>5 DEF Initiate
  <2>2. /\ pc'[t] = "insert" /\ req'[t].pidx = p /\ payments' = payments
        /\ req'[t].row.status = "initiated" /\ req'[t].row.saleId = NoSale
        /\ gateway[p].status = "none" /\ gateway'[p].status = "Initiated"
        /\ \A u \in Request \ {t} : pc'[u] = pc[u] /\ req'[u] = req[u]
    BY <1>0, <1>p, <2>1 DEF InitiateAtGateway, Goto, Hold, NoRow, TypeOK
  <2>3. payments[p].status = "absent"
    BY <2>2 DEF IInv, RowsIssued
  <2>4. \A u \in Request \ {t} : InsertReady(u) /\ req[u].pidx \in Pidx
    BY <1>0, Fields DEF IInv, RequestsInSync
  <2>5. \A u \in Request \ {t} : pc[u] = "insert" => req[u].pidx # p
    BY <2>2, <2>4 DEF InsertReady
  <2>6. InsertReady(t)' /\ HeldRowTrue(t)' /\ AnswerTrue(t)'
    BY <2>2, <2>3, <2>5 DEF InsertReady, HeldRowTrue, AnswerTrue
  <2>7. ASSUME NEW u \in Request \ {t} PROVE InsertReady(u)'
    <3>1. SUFFICES ASSUME pc[u] = "insert" PROVE InsertReady(u)'
      BY <2>2 DEF InsertReady
    <3>2. pc'[u] = pc[u] /\ req'[u] = req[u] /\ req[u].pidx \in Pidx
      BY <2>2, <2>4
    <3>3. /\ req'[u].row.status = "initiated" /\ req'[u].row.saleId = NoSale
          /\ payments'[req'[u].pidx].status = "absent"
      BY <2>2, <2>4, <3>1, <3>2 DEF InsertReady
    <3>4. gateway'[req'[u].pidx].status # "none"
      <4>1. gateway[req[u].pidx].status # "none"
        BY <2>4, <3>1 DEF InsertReady
      <4>2. gateway'[req[u].pidx].status # "none"
        BY <1>0, <3>2, <4>1 DEF Grows
      <4> QED BY <3>2, <4>2
    <3>5. \A w \in Request : pc'[w] = "insert" /\ req'[w].pidx = req'[u].pidx => w = u
      BY <2>2, <2>4, <2>5, <3>1, <3>2 DEF InsertReady
    <3> QED BY <3>3, <3>4, <3>5 DEF InsertReady
  <2>8. ASSUME NEW u \in Request \ {t} PROVE HeldRowTrue(u)' /\ AnswerTrue(u)'
    BY <1>0, <2>2, <2>8, BystanderInSync
  <2> QED BY <2>6, <2>7, <2>8 DEF RequestsInSync
<1>6. ASSUME NEW t \in Request, NEW p \in Pidx, ReadForSettlement(t, p) \/ ReadForRefund(t, p)
      PROVE  RequestsInSync'
  <2>1. /\ pc'[t] \in {"lookup", "refund"} /\ payments' = payments
        /\ req'[t].pidx = p /\ req'[t].row = payments[p] /\ payments[p].status # "absent"
        /\ OnlyMoves(t)
    BY <1>p, <1>6 DEF ReadForSettlement, ReadForRefund, Goto, Hold, OnlyMoves
  <2>2. InsertReady(t)' /\ HeldRowTrue(t)' /\ AnswerTrue(t)'
    BY <2>1 DEF InsertReady, HeldRowTrue, AnswerTrue
  <2> QED BY <1>0, <2>1, <2>2, OthersInSync DEF RequestsInSync
<1>7. ASSUME NEW t \in Request, LookupPayment(t) PROVE RequestsInSync'
  <2>1. req[t] \in Held /\ req'[t] = [req[t] EXCEPT !.answer = gateway[req[t].pidx]]
    BY <1>p, <1>7 DEF LookupPayment
  <2>2. /\ req'[t].pidx = req[t].pidx /\ req'[t].row = req[t].row
        /\ req'[t].answer = gateway[req[t].pidx]
    BY <2>1 DEF Held
  <2>3. /\ pc[t] = "lookup" /\ pc'[t] = "settle" /\ OnlyMoves(t)
        /\ UNCHANGED <<payments, gateway>>
    BY <1>p, <1>7 DEF LookupPayment, Goto, OnlyMoves
  <2>4. HeldRowTrue(t)
    BY DEF IInv, RequestsInSync
  <2>5. req[t].pidx \in Pidx /\ gateway[req[t].pidx].status \in GatewayStatus
    BY <1>0, Fields DEF Lookup
  <2>6. RowStatusFor(gateway[req[t].pidx].status) = "refunded" =>
          gateway[req[t].pidx].status \in {"Refunded", "Partially Refunded"}
    BY <2>5 DEF RowStatusFor
  <2>7. InsertReady(t)' /\ HeldRowTrue(t)' /\ AnswerTrue(t)'
    BY <2>2, <2>3, <2>4, <2>6 DEF InsertReady, HeldRowTrue, AnswerTrue
  <2> QED BY <1>0, <2>3, <2>7, OthersInSync DEF RequestsInSync
<1>8. ASSUME NEW t \in Request, RefundAtGateway(t) PROVE RequestsInSync'
  <2>1. /\ pc[t] = "refund" /\ pc'[t] = "record" /\ OnlyMoves(t) /\ req' = req
        /\ payments' = payments
    BY <1>p, <1>8 DEF RefundAtGateway, Goto, OnlyMoves
  <2>2. gateway'[req[t].pidx].status = "Refunded"
    BY <1>0, <1>8, Fields DEF RefundAtGateway, TypeOK, Lookup
  <2>3. HeldRowTrue(t)
    BY DEF IInv, RequestsInSync
  <2>4. InsertReady(t)' /\ HeldRowTrue(t)' /\ AnswerTrue(t)'
    BY <2>1, <2>2, <2>3 DEF InsertReady, HeldRowTrue, AnswerTrue
  <2> QED BY <1>0, <2>1, <2>4, OthersInSync DEF RequestsInSync
<1>9. ASSUME NEW p \in Pidx, GatewayStep(p) PROVE RequestsInSync'
  <2>1. UNCHANGED <<payments, pc, req>>
    BY <1>9 DEF GatewayStep
  <2>2. ASSUME NEW u \in Request PROVE InsertReady(u)'
    BY <1>0, <2>1, Fields DEF IInv, RequestsInSync, InsertReady, Grows
  <2>3. ASSUME NEW u \in Request PROVE HeldRowTrue(u)' /\ AnswerTrue(u)'
    BY <1>0, <2>1, BystanderInSync
  <2> QED BY <2>2, <2>3 DEF RequestsInSync
<1>10. CASE UNCHANGED vars
  BY <1>10 DEF vars, IInv, RequestsInSync, InsertReady, HeldRowTrue, AnswerTrue
<1> QED
  BY <1>2, <1>3, <1>4, <1>5, <1>6, <1>7, <1>8, <1>9, <1>10 DEF Next, Settle

\* IInv holds in every reachable state.
THEOREM Invariance == Spec => []IInv
<1>1. IInv /\ [Next]_vars => IInv'
  BY StepTyped, StepTables, StepSync DEF IInv, TablesSound
<1> QED BY <1>1, InitIInv, PTL DEF Spec

\* Every confirmed gateway sale is backed by money the gateway collected, in the
\* amount initiated, whatever requests overlap, fail or replay.
THEOREM SalesAreBacked == Spec => []SaleBacked
<1>1. IInv => SaleBacked
  BY DEF IInv
<1> QED BY <1>1, Invariance, PTL

\* A completed row always has its own sale: row and sale never come apart.
THEOREM LatchIsSound == Spec => []LatchPointsAtOwnSale
<1>1. IInv => LatchPointsAtOwnSale
  BY DEF IInv
<1> QED BY <1>1, Invariance, PTL

\* The audit trail and the sales agree in every reachable state.
THEOREM TrailIsComplete == Spec => []TrailMatchesSales
<1>1. IInv => TrailMatchesSales
  BY DEF IInv
<1> QED BY <1>1, Invariance, PTL

\* A row says refunded only when the gateway refunded.
THEOREM RefundsAreReal == Spec => []RefundedAtGateway
<1>1. IInv => RefundedAtGateway
  BY DEF IInv
<1> QED BY <1>1, Invariance, PTL

\* What requests decided on stays true until they write.
THEOREM RequestsStayInSync == Spec => []RequestsInSync
<1>1. IInv => RequestsInSync
  BY DEF IInv
<1> QED BY <1>1, Invariance, PTL

\* The latch is written once: no stale writer ever replaces or clears sale_id.
THEOREM LatchWrittenOnce == Spec => LatchWriteOnce
<1>1. IInv /\ [Next]_vars =>
        [\A p \in Pidx : payments[p].saleId # NoSale =>
           payments'[p].saleId = payments[p].saleId]_vars
  BY StepGrows DEF Grows
<1> QED BY <1>1, Invariance, PTL DEF LatchWriteOnce, Spec
-------------------------------------------------------------------------------
(* Replays record nothing *)

\* The requests that may still record a sale for p: the row they read had none.
LateFor(p) ==
  {t \in Request : /\ pc[t] \in {"lookup", "settle"} /\ req[t].pidx = p
                   /\ req[t].row.saleId = NoSale}

\* Every sale of a linked payment has used up a request, and those that may yet
\* record one are among the rest.
OverlapBound ==
  \A p \in Pidx : payments[p].saleId # NoSale =>
    /\ IsFiniteSet(SalesOf(p))
    /\ Cardinality(SalesOf(p)) + Cardinality(LateFor(p)) <= Cardinality(Request)

\* No request records a sale in this step.
NoneRecords == \A t \in Request : ~RecordSale(t)

\* A step that records no sale leaves no payment newly linked, and nobody newly late
\* for a linked one: whoever reads its row reads the sale.
LEMMA NobodyNewlyLate ==
  ASSUME IInv, [Next]_vars, NoneRecords,
         NEW p \in Pidx, payments'[p].saleId # NoSale
  PROVE  /\ payments[p].saleId # NoSale /\ sales' = sales
         /\ LateFor(p)' \subseteq LateFor(p)
<1>0. TypeOK
  BY DEF IInv
<1>p. pc \in [Request -> RequestState] /\ req \in [Request -> Held]
  BY <1>0 DEF TypeOK
<1>1. payments[p].saleId # NoSale /\ sales' = sales
  <2>1. ASSUME NEW t \in Request, InsertPayment(t) PROVE payments[p].saleId # NoSale /\ sales' = sales
    <3>1. req[t].row.saleId = NoSale
      BY <2>1 DEF InsertPayment, Goto, IInv, RequestsInSync, InsertReady
    <3> QED BY <2>1, <3>1, <1>0 DEF InsertPayment, TypeOK
  <2>2. ASSUME NEW t \in Request, Settle(t) PROVE payments[p].saleId # NoSale /\ sales' = sales
    <3>1. CASE FlagMismatch(t)
      BY <3>1, FlagEffect DEF StatusWritten
    <3>2. CASE CloseUnpaid(t)
      <4>1. sales' = sales /\ (payments' = payments \/ \E s : StatusWritten(req[t].pidx, s))
        BY <3>2, CloseEffect, Zenon
      <4> QED BY <4>1 DEF StatusWritten
    <3>3. CASE AlreadyRecorded(t)
      BY <3>3 DEF AlreadyRecorded
    <3>4. CASE StillInFlight(t)
      BY <3>4 DEF StillInFlight
    <3> QED BY <2>2, <3>1, <3>2, <3>3, <3>4, Zenon DEF Settle, NoneRecords
  <2>3. ASSUME NEW t \in Request, RecordRefund(t) PROVE payments[p].saleId # NoSale /\ sales' = sales
    BY <2>3, RefundEffect DEF StatusWritten
  <2>4. CASE UNCHANGED <<payments, sales>>
    BY <2>4
  <2>5. ASSUME NEW q \in Pidx, GatewayStep(q) PROVE UNCHANGED <<payments, sales>>
    BY <2>5, <1>0, GatewayEffect, Zenon
  <2>6. ASSUME NEW t \in Request,
               \/ Initiate(t) \/ LookupPayment(t) \/ RefundAtGateway(t) \/ Fail(t)
               \/ \E q \in Pidx : ReadForSettlement(t, q) \/ ReadForRefund(t, q)
        PROVE  UNCHANGED <<payments, sales>>
    BY <2>6, Zenon
    DEF Initiate, InitiateAtGateway, ReadForSettlement, LookupPayment, ReadForRefund, RefundAtGateway, Fail
  <2> QED
    BY <2>1, <2>2, <2>3, <2>4, <2>5, <2>6, Zenon DEF Next, vars
<1>2. LateFor(p)' \subseteq LateFor(p)
  <2> SUFFICES ASSUME NEW u \in Request, pc'[u] \in {"lookup", "settle"}, req'[u].pidx = p,
                      req'[u].row.saleId = NoSale
               PROVE  /\ pc[u] \in {"lookup", "settle"} /\ req[u].pidx = p
                      /\ req[u].row.saleId = NoSale
    BY DEF LateFor
  <2>1. ASSUME NEW t \in Request, NEW q \in Pidx, ReadForSettlement(t, q), u = t PROVE FALSE
    BY <2>1, <1>p, <1>1 DEF ReadForSettlement, Hold
  <2>2. ASSUME NEW t \in Request, LookupPayment(t), u = t
        PROVE  pc[u] = "lookup" /\ req'[u].pidx = req[u].pidx /\ req'[u].row = req[u].row
    BY <2>2, <1>p DEF LookupPayment, Goto, Held
  <2>3. ASSUME NEW t \in Request, u = t, NEW s \in {"idle", "insert", "refund", "record"},
               pc' = [pc EXCEPT ![t] = s]
        PROVE  FALSE
    BY <2>3, <1>p
  <2>4. ASSUME NEW t \in Request, u # t, NEW s, pc' = [pc EXCEPT ![t] = s],
               \E h : req' = [req EXCEPT ![t] = h]
        PROVE  pc'[u] = pc[u] /\ req'[u] = req[u]
    BY <2>4, <1>p
  <2>5. CASE UNCHANGED <<pc, req>>
    BY <2>5
  <2>6. ASSUME NEW t \in Request, ~LookupPayment(t), \A q \in Pidx : ~ReadForSettlement(t, q),
               \/ Initiate(t) \/ InsertPayment(t) \/ Settle(t) \/ RefundAtGateway(t)
               \/ RecordRefund(t) \/ Fail(t) \/ \E q \in Pidx : ReadForRefund(t, q)
        PROVE  /\ \E s \in {"idle", "insert", "refund", "record"} : pc' = [pc EXCEPT ![t] = s]
               /\ \E h : req' = [req EXCEPT ![t] = h]
    <3>1. req = [req EXCEPT ![t] = req[t]]
      BY <1>p
    <3>2. CASE Settle(t)
      BY <3>1, <3>2, Zenon
      DEF Settle, FlagMismatch, AlreadyRecorded, RecordSale, CloseUnpaid, StillInFlight, Goto
    <3>3. CASE Initiate(t)
      BY <3>3, Zenon DEF Initiate, InitiateAtGateway, Goto, Hold
    <3>4. CASE \E q \in Pidx : ReadForRefund(t, q)
      BY <3>4, Zenon DEF ReadForRefund, Goto, Hold
    <3>5. CASE InsertPayment(t) \/ RefundAtGateway(t) \/ RecordRefund(t) \/ Fail(t)
      BY <3>1, <3>5, Zenon DEF InsertPayment, RefundAtGateway, RecordRefund, Fail, Goto
    <3> QED BY <2>6, <3>2, <3>3, <3>4, <3>5, Zenon
  <2>7. ASSUME NEW t \in Request, LookupPayment(t) \/ \E q \in Pidx : ReadForSettlement(t, q)
        PROVE  /\ \E s \in RequestState : pc' = [pc EXCEPT ![t] = s]
               /\ \E h : req' = [req EXCEPT ![t] = h]
    <3>1. ASSUME LookupPayment(t)
          PROVE  req' = [req EXCEPT ![t] = [req[t] EXCEPT !.answer = gateway[req[t].pidx]]]
      BY <3>1, <1>p DEF LookupPayment
    <3> QED BY <2>7, <3>1 DEF LookupPayment, ReadForSettlement, Goto, Hold
  <2>8. ASSUME NEW q \in Pidx, GatewayStep(q) PROVE UNCHANGED <<pc, req>>
    BY <2>8, <1>0, GatewayEffect, Zenon
  <2>9. ASSUME NEW t \in Request,
               \/ Initiate(t) \/ InsertPayment(t) \/ Settle(t) \/ RefundAtGateway(t)
               \/ RecordRefund(t) \/ Fail(t) \/ LookupPayment(t)
               \/ \E q \in Pidx : ReadForSettlement(t, q) \/ ReadForRefund(t, q)
        PROVE  /\ pc[u] \in {"lookup", "settle"} /\ req[u].pidx = p
               /\ req[u].row.saleId = NoSale
    <3>1. CASE u = t
      BY <2>9, <2>1, <2>2, <2>3, <2>6, <3>1
    <3>2. CASE u # t
      BY <2>9, <2>4, <2>6, <2>7, <3>2
    <3> QED BY <3>1, <3>2
  <2> QED BY <2>5, <2>8, <2>9, Zenon DEF Next, vars
<1> QED BY <1>1, <1>2

\* Every step keeps the bound.
LEMMA StepOverlap ==
  ASSUME IsFiniteSet(Request), IInv, OverlapBound, [Next]_vars
  PROVE  OverlapBound'
<1> SUFFICES ASSUME NEW p \in Pidx, payments'[p].saleId # NoSale
             PROVE  /\ IsFiniteSet(SalesOf(p)')
                    /\ Cardinality(SalesOf(p)') + Cardinality(LateFor(p)') <= Cardinality(Request)
  BY DEF OverlapBound
<1>f. /\ Cardinality(Request) \in Nat
      /\ IsFiniteSet(LateFor(p)) /\ Cardinality(LateFor(p)) \in Nat
      /\ IsFiniteSet(LateFor(p)') /\ Cardinality(LateFor(p)') \in Nat
  <2>1. LateFor(p) \in SUBSET Request /\ LateFor(p)' \in SUBSET Request
    BY DEF LateFor
  <2> QED BY <2>1, FS_Subset, FS_CardinalityType
<1>1. CASE NoneRecords
  <2>1. payments[p].saleId # NoSale /\ sales' = sales /\ LateFor(p)' \subseteq LateFor(p)
    BY <1>1, NobodyNewlyLate
  <2>2. SalesOf(p)' = SalesOf(p)
    BY <2>1 DEF SalesOf
  <2>3. Cardinality(LateFor(p)') <= Cardinality(LateFor(p))
    BY <2>1, <1>f, FS_Subset
  <2>4. IsFiniteSet(SalesOf(p)) /\ Cardinality(SalesOf(p)) + Cardinality(LateFor(p)) <= Cardinality(Request)
    BY <2>1 DEF OverlapBound
  <2>5. Cardinality(SalesOf(p)) \in Nat
    BY <2>4, FS_CardinalityType
  <2> QED BY <2>2, <2>3, <2>4, <2>5, <1>f
<1>2. ASSUME NEW t \in Request, RecordSale(t)
      PROVE  /\ IsFiniteSet(SalesOf(p)')
             /\ Cardinality(SalesOf(p)') + Cardinality(LateFor(p)') <= Cardinality(Request)
  <2> DEFINE q == req[t].pidx
  <2>1. PICK id \in SaleId :
          /\ sales' = sales \cup {[id |-> id, ref |-> q, amount |-> req[t].row.amount]}
          /\ \A r \in Pidx : r # q => payments'[r] = payments[r]
          /\ payments[q].status # "initiated" => payments'[q] = payments[q]
    BY <1>2, SaleEffect
  <2> DEFINE sale == [id |-> id, ref |-> q, amount |-> req[t].row.amount]
  <2>2. /\ pc[t] = "settle" /\ pc' = [pc EXCEPT ![t] = "idle"] /\ req' = req
        /\ req[t].row.saleId = NoSale
    BY <1>2 DEF RecordSale, Goto, AlreadyLinked
  <2>3. t \in LateFor(q) /\ LateFor(p)' = LateFor(p) \ {t}
    BY <2>2 DEF LateFor, IInv, TypeOK
  <2>4. CASE p # q
    <3>1. SalesOf(p)' = SalesOf(p)
      BY <2>1, <2>4 DEF SalesOf
    <3>2. t \notin LateFor(p)
      BY <2>4 DEF LateFor
    <3>3. LateFor(p)' = LateFor(p)
      BY <2>3, <3>2
    <3> QED BY <2>1, <2>4, <3>1, <3>3 DEF OverlapBound
  <2>5. CASE p = q /\ payments[q].status = "initiated"
    <3>1. SalesOf(p) = {}
      BY <2>5 DEF SalesOf, IInv, NoOpenRowWithSale
    <3>2. SalesOf(p)' = {sale}
      BY <2>1, <2>5, <3>1 DEF SalesOf
    <3>3. IsFiniteSet(SalesOf(p)') /\ Cardinality(SalesOf(p)') = 1
      BY <3>2, FS_Singleton
    <3>4. /\ IsFiniteSet(Request \ {t}) /\ Cardinality(Request \ {t}) = Cardinality(Request) - 1
      BY FS_RemoveElement
    <3>5. LateFor(p)' \in SUBSET (Request \ {t})
      BY <2>3 DEF LateFor
    <3>6. Cardinality(LateFor(p)') <= Cardinality(Request) - 1
      BY <3>4, <3>5, FS_Subset
    <3> QED BY <3>3, <3>6, <1>f
  <2>6. CASE p = q /\ payments[q].status # "initiated"
    <3>1. payments[p].saleId # NoSale
      BY <2>1, <2>6
    <3>2. IsFiniteSet(SalesOf(p)) /\ Cardinality(SalesOf(p)) + Cardinality(LateFor(p)) <= Cardinality(Request)
      BY <3>1 DEF OverlapBound
    <3>3. SalesOf(p)' = SalesOf(p) \cup {sale}
      BY <2>1, <2>6 DEF SalesOf
    <3>4. Cardinality(LateFor(p)') = Cardinality(LateFor(p)) - 1
      BY <2>3, <2>6, <1>f, FS_RemoveElement
    <3>5. IsFiniteSet(SalesOf(p)') /\ Cardinality(SalesOf(p)') <= Cardinality(SalesOf(p)) + 1
          /\ Cardinality(SalesOf(p)) \in Nat /\ Cardinality(SalesOf(p)') \in Nat
      <4>1. Cardinality(SalesOf(p)) \in Nat
        BY <3>2, FS_CardinalityType
      <4>2. /\ IsFiniteSet(SalesOf(p) \cup {sale})
            /\ Cardinality(SalesOf(p) \cup {sale}) =
                 IF sale \in SalesOf(p) THEN Cardinality(SalesOf(p)) ELSE Cardinality(SalesOf(p)) + 1
        BY <3>2, FS_AddElement
      <4> HIDE DEF sale
      <4> QED BY <3>3, <4>1, <4>2
    <3> QED BY <3>2, <3>4, <3>5, <1>f
  <2> QED BY <2>4, <2>5, <2>6
<1> QED BY <1>1, <1>2 DEF NoneRecords

\* However many requests replay the settlement of a payment that carries its sale, there
\* are never more sales of it than requests that can be in flight together.
THEOREM ReplaysRecordNothing ==
  ASSUME IsFiniteSet(Request)
  PROVE  Spec => []DuplicatesOnlyByOverlap
<1>1. Init => OverlapBound
  BY DEF Init, OverlapBound, NoRow
<1>2. IInv /\ OverlapBound /\ [Next]_vars => OverlapBound'
  BY StepOverlap
<1>3. IInv /\ OverlapBound => DuplicatesOnlyByOverlap
  <2> SUFFICES ASSUME OverlapBound, NEW p \in Pidx, payments[p].saleId # NoSale
               PROVE  Cardinality(SalesOf(p)) <= Cardinality(Request)
    BY DEF DuplicatesOnlyByOverlap
  <2>1. LateFor(p) \in SUBSET Request
    BY DEF LateFor
  <2>2. Cardinality(LateFor(p)) \in Nat /\ Cardinality(Request) \in Nat
    BY <2>1, FS_Subset, FS_CardinalityType
  <2>3. IsFiniteSet(SalesOf(p)) /\ Cardinality(SalesOf(p)) + Cardinality(LateFor(p)) <= Cardinality(Request)
    BY DEF OverlapBound
  <2>4. Cardinality(SalesOf(p)) \in Nat
    BY <2>3, FS_CardinalityType
  <2> QED BY <2>2, <2>3, <2>4
<1> QED BY <1>1, <1>2, <1>3, Invariance, PTL DEF Spec

-------------------------------------------------------------------------------
(* The subscription (SubscriptionBilling) *)

HIDE DEF RowStatus, GatewayStatus, RequestState, Collected
USE PidxAssumption, OneAssumption, DaysAssumption
-------------------------------------------------------------------------------
(* The invariant *)

Settling == {"lookup", "settle", "credit"}

\* What the status of a payment row says of the gateway's record.
BillsKnown ==
  \A p \in Pidx :
    /\ bills[p].status # "absent" => billing[p].status # "none"
    /\ bills[p].status \in {"canceled", "expired"} => billing[p].status \in {"Expired", "User canceled"}
    /\ bills[p].status = "amount_mismatch" => ~billing[p].agrees
    /\ bills[p].status = "completed" => bills[p].periodEnd # 0

\* The row of a payment that is being initiated is not there yet, and is one request's.
InsertsSound ==
  /\ \A t \in Request : at[t] = "insert" =>
       bills[held[t].pidx].status = "absent" /\ billing[held[t].pidx].status # "none"
  /\ \A t, u \in Request :
       at[t] = "insert" /\ at[u] = "insert" /\ held[t].pidx = held[u].pidx => t = u

\* The gateway's answer in a request's hands is still so, or a refund followed.
ChargeTrue(h) ==
  LET g == billing[h.pidx]
      a == h.answer
  IN /\ a.agrees = g.agrees
     /\ a.status = "Completed" => g.status \in {"Completed", "Refunded"}
     /\ a.status \in {"Expired", "User canceled"} => g.status = a.status

AnswersSound ==
  \A t \in Request :
    /\ at[t] \in Settling => bills[held[t].pidx].status # "absent"
    /\ at[t] \in {"settle", "credit"} => ChargeTrue(held[t])
    /\ at[t] = "credit" =>
         held[t].answer.agrees /\ held[t].answer.status = "Completed" /\ ~Billing!Credited(held[t].bill)

\* Whoever extended the period has completed the row.
TrailSound == \A e \in trail : bills[e.pidx].status = "completed"

MoneySound ==
  /\ BillsKnown /\ InsertsSound /\ AnswersSound /\ TrailSound
  /\ Billing!CreditBacked /\ Billing!ReceiptIffExtended

NudgesSound ==
  \A d \in Dunners :
    dpc[d] \in {"send", "latch"} => Billing!StageDue(dun[d].row, dun[d].day) \in Billing!Stage

BillingInv == Billing!TypeOK /\ MoneySound /\ NudgesSound
-------------------------------------------------------------------------------
(* The records and what is written into them *)

LEMMA BillFields ==
  ASSUME Billing!TypeOK
  PROVE  /\ today \in Nat /\ sub \in Billing!Sub
         /\ \A p \in Pidx : bills[p] \in Billing!Bill /\ billing[p] \in Billing!Lookup
         /\ \A t \in Request : /\ held[t] \in Billing!Held
                               /\ held[t].pidx \in Pidx /\ held[t].bill \in Billing!Bill
                               /\ held[t].answer \in Billing!Lookup /\ held[t].prior \in Billing!Sub
                               /\ held[t].day \in Nat
         /\ \A d \in Dunners : dun[d].row \in Billing!Sub /\ dun[d].day \in Nat
BY DEF Billing!TypeOK, Billing!Held, Billing!Snapshot

LEMMA First ==
  /\ Billing!NoSub \in Billing!Sub /\ Billing!NoBill \in Billing!Bill
  /\ Billing!NoLookup \in Billing!Lookup /\ Billing!NoBill.status = "absent"
  /\ \A p \in Pidx : Billing!Idle(p) \in Billing!Held /\ Billing!Idle(p).pidx = p
  /\ Billing!NoRequest \in Billing!Held /\ Billing!NoSnapshot \in Billing!Snapshot
<1>1. Billing!NoSub \in Billing!Sub
  BY DEF Billing!NoSub, Billing!Sub, Billing!SubStatus
<1>2. Billing!NoBill \in Billing!Bill /\ Billing!NoBill.status = "absent"
  BY DEF Billing!NoBill, Billing!Bill, Billing!BillStatus
<1>3. Billing!NoLookup \in Billing!Lookup
  BY DEF Billing!NoLookup, Billing!Lookup, Billing!GatewayStatus
<1>4. \A p \in Pidx : Billing!Idle(p) \in Billing!Held /\ Billing!Idle(p).pidx = p
  BY <1>1, <1>2, <1>3 DEF Billing!Idle, Billing!Held
<1>5. Billing!NoRequest \in Billing!Held
  BY <1>4 DEF Billing!NoRequest
<1>6. Billing!NoSnapshot \in Billing!Snapshot
  BY <1>1 DEF Billing!NoSnapshot, Billing!Snapshot
<1> QED BY <1>1, <1>2, <1>3, <1>4, <1>5, <1>6

LEMMA NewHeld ==
  ASSUME NEW h \in Billing!Held, NEW day \in Nat, NEW a \in Billing!Lookup, NEW s \in Billing!Sub,
         NEW b \in Billing!Bill
  PROVE  /\ [h EXCEPT !.day = day] \in Billing!Held
         /\ [h EXCEPT !.answer = a] \in Billing!Held
         /\ [h EXCEPT !.answer = a].pidx = h.pidx /\ [h EXCEPT !.answer = a].answer = a
         /\ [h EXCEPT !.answer = a].bill = h.bill
         /\ [h EXCEPT !.prior = s] \in Billing!Held
         /\ [h EXCEPT !.prior = s].pidx = h.pidx /\ [h EXCEPT !.prior = s].answer = h.answer
         /\ [h EXCEPT !.prior = s].bill = h.bill
         /\ [h EXCEPT !.bill = b, !.day = day] \in Billing!Held
         /\ [h EXCEPT !.bill = b, !.day = day].pidx = h.pidx
         /\ [h EXCEPT !.bill = b, !.day = day].bill = b
BY DEF Billing!Held

LEMMA NewSub ==
  ASSUME NEW s \in Billing!Sub, NEW status \in Billing!SubStatus, NEW end \in Nat, NEW for \in Nat,
         NEW stage \in Billing!Stage
  PROVE  /\ [s EXCEPT !.status = status] \in Billing!Sub
         /\ [s EXCEPT !.status = status, !.periodEnd = end] \in Billing!Sub
         /\ [s EXCEPT !.status = status, !.periodEnd = end].periodEnd = end
         /\ [s EXCEPT !.status = status, !.periodEnd = end].status = status
         /\ [s EXCEPT !.status = status, !.lastStage = stage, !.lastFor = for] \in Billing!Sub
BY DEF Billing!Sub

LEMMA NewBill ==
  ASSUME NEW b \in Billing!Bill, NEW s \in Billing!BillStatus, NEW end \in Nat
  PROVE  /\ [b EXCEPT !.status = s] \in Billing!Bill
         /\ [b EXCEPT !.status = s].status = s /\ [b EXCEPT !.status = s].periodEnd = b.periodEnd
         /\ [status |-> s, periodEnd |-> end] \in Billing!Bill
BY DEF Billing!Bill

\* The lifecycle of shared/src/billing: a renewal ends later than the day it was paid,
\* and the projection and the nudge are of their kinds.
LEMMA RenewEnds ==
  ASSUME NEW s \in Billing!Sub, NEW day \in Nat
  PROVE  LET next == Billing!Renew(s, day)
         IN next.status = "active" /\ next.periodEnd \in Nat /\ next.periodEnd > day
<1> DEFINE end == (IF s.periodEnd > day THEN s.periodEnd ELSE day) + MonthDays
<1>1. s.periodEnd \in Nat
  BY DEF Billing!Sub
<1>2. end \in Nat /\ end > day
  BY <1>1
<1>3. Billing!Renew(s, day) = [s EXCEPT !.status = "active", !.periodEnd = end]
  BY DEF Billing!Renew, Billing!Sub
<1> HIDE DEF end
<1>4. "active" \in Billing!SubStatus
  BY DEF Billing!SubStatus
<1> QED BY <1>2, <1>3, <1>4 DEF Billing!Sub

LEMMA Projected ==
  ASSUME NEW s \in Billing!Sub, NEW day \in Nat
  PROVE  /\ Billing!ProjectStatus(s, day) \in {"cancelled", "trial", "active", "past_due", "suspended"}
         /\ Billing!ProjectStatus(s, day) \in Billing!SubStatus
         /\ Billing!StageDue(s, day) \in Billing!Stage \cup {"none"}
<1>1. s.status \in Billing!SubStatus /\ s.periodEnd \in Nat
  BY DEF Billing!Sub
<1>2. Billing!ProjectStatus(s, day) \in {"cancelled", "trial", "active", "past_due", "suspended"}
  BY <1>1 DEF Billing!ProjectStatus, Billing!SubStatus
<1>3. Billing!StageDue(s, day) \in Billing!Stage \cup {"none"}
  BY <1>2 DEF Billing!StageDue, Billing!Stage
<1> QED BY <1>2, <1>3 DEF Billing!SubStatus
-------------------------------------------------------------------------------
(* What one request does to the invariant *)

\* A request moves on or ends: the others keep what they know.
LEMMA RequestsSound ==
  ASSUME BillingInv, NEW t \in Request, NEW to \in Billing!RequestState \ {"insert"},
         NEW h \in Billing!Held,
         at' = [at EXCEPT ![t] = to], held' = [held EXCEPT ![t] = h], billing' = billing,
         \A p \in Pidx : bills[p].status # "absent" => bills'[p].status # "absent",
         \A u \in Request \ {t} : at[u] = "insert" => bills'[held[u].pidx].status = "absent",
         to \in Settling => bills[h.pidx].status # "absent",
         to \in {"settle", "credit"} => ChargeTrue(h),
         to = "credit" => h.answer.agrees /\ h.answer.status = "Completed" /\ ~Billing!Credited(h.bill)
  PROVE  /\ at' \in [Request -> Billing!RequestState] /\ held' \in [Request -> Billing!Held]
         /\ InsertsSound' /\ AnswersSound'
<1> USE DEF BillingInv
<1>1. at \in [Request -> Billing!RequestState] /\ held \in [Request -> Billing!Held]
  BY DEF Billing!TypeOK
<1>2. at' \in [Request -> Billing!RequestState] /\ held' \in [Request -> Billing!Held]
  BY <1>1
<1>3. at'[t] = to /\ held'[t] = h /\ \A u \in Request \ {t} : at'[u] = at[u] /\ held'[u] = held[u]
  BY <1>1
<1>4. h.pidx \in Pidx /\ \A u \in Request : held[u].pidx \in Pidx
  BY BillFields DEF Billing!Held
<1>5. InsertsSound'
  <2>1. ASSUME NEW u \in Request, at'[u] = "insert"
        PROVE  bills'[held'[u].pidx].status = "absent" /\ billing'[held'[u].pidx].status # "none"
    <3>1. u # t
      BY <1>3, <2>1
    <3> QED BY <1>3, <2>1, <3>1 DEF MoneySound, InsertsSound
  <2>2. ASSUME NEW u \in Request, NEW v \in Request,
               at'[u] = "insert", at'[v] = "insert", held'[u].pidx = held'[v].pidx
        PROVE  u = v
    <3>1. u # t /\ v # t
      BY <1>3, <2>2
    <3> QED BY <1>3, <2>2, <3>1 DEF MoneySound, InsertsSound
  <2> QED BY <2>1, <2>2 DEF InsertsSound
<1>6. AnswersSound'
  <2> SUFFICES ASSUME NEW u \in Request
      PROVE  /\ at'[u] \in Settling => bills'[held'[u].pidx].status # "absent"
             /\ at'[u] \in {"settle", "credit"} => ChargeTrue(held[u])'
             /\ at'[u] = "credit" =>
                  /\ held'[u].answer.agrees /\ held'[u].answer.status = "Completed"
                  /\ ~Billing!Credited(held'[u].bill)
    BY DEF AnswersSound, Billing!Credited
  <2>1. CASE u = t
    <3>1. ChargeTrue(held[u])' <=> ChargeTrue(h)
      BY <1>3, <2>1 DEF ChargeTrue
    <3> QED BY <1>3, <1>4, <2>1, <3>1
  <2>2. CASE u # t
    <3>1. ChargeTrue(held[u])' <=> ChargeTrue(held[u])
      BY <1>3, <2>2 DEF ChargeTrue
    <3>2. at[u] \in Settling => bills[held[u].pidx].status # "absent"
      BY DEF MoneySound, AnswersSound
    <3>3. at[u] \in {"settle", "credit"} => ChargeTrue(held[u])
      BY DEF MoneySound, AnswersSound
    <3>4. at[u] = "credit" =>
            held[u].answer.agrees /\ held[u].answer.status = "Completed" /\ ~Billing!Credited(held[u].bill)
      BY DEF MoneySound, AnswersSound
    <3> QED BY <1>3, <1>4, <2>2, <3>1, <3>2, <3>3, <3>4
  <2> QED BY <2>1, <2>2
<1> QED BY <1>2, <1>5, <1>6

\* What is known of the money depends on the rows, the gateway, the trail and the receipts.
LEMMA MoneyStays ==
  ASSUME BillingInv, InsertsSound', AnswersSound',
         bills' = bills, billing' = billing, trail' = trail, receipts' = receipts
  PROVE  MoneySound'
<1>1. BillsKnown' /\ TrailSound'
  BY DEF BillingInv, MoneySound, BillsKnown, TrailSound
<1>2. (Billing!CreditBacked)' /\ (Billing!ReceiptIffExtended)'
  BY DEF BillingInv, MoneySound, Billing!CreditBacked, Billing!ReceiptIffExtended
<1> QED BY <1>1, <1>2 DEF MoneySound

\* The owner, the calendar and a dunning pass touch no money and no request.
LEMMA RequestsStay ==
  ASSUME BillingInv, UNCHANGED <<bills, billing, trail, receipts, at, held>>
  PROVE  MoneySound'
<1>1. \A u \in Request : ChargeTrue(held[u])' <=> ChargeTrue(held[u])
  BY DEF ChargeTrue
<1>2. InsertsSound'
  BY DEF BillingInv, MoneySound, InsertsSound
<1>3. AnswersSound'
  BY <1>1 DEF BillingInv, MoneySound, AnswersSound, Billing!Credited
<1> QED BY <1>2, <1>3, MoneyStays

\* A step of a request that writes nothing but its own memory and the subscription.
LEMMA RequestMoves ==
  ASSUME BillingInv, NEW t \in Request, NEW to \in Billing!RequestState \ {"insert"},
         NEW h \in Billing!Held,
         at' = [at EXCEPT ![t] = to], held' = [held EXCEPT ![t] = h],
         sub' \in Billing!Sub,
         UNCHANGED <<today, bills, trail, receipts, billing, dpc, dun, sent>>,
         to \in Settling => bills[h.pidx].status # "absent",
         to \in {"settle", "credit"} => ChargeTrue(h),
         to = "credit" => h.answer.agrees /\ h.answer.status = "Completed" /\ ~Billing!Credited(h.bill)
  PROVE  BillingInv'
<1> USE DEF BillingInv
<1>1. \A p \in Pidx : bills[p].status # "absent" => bills'[p].status # "absent"
  OBVIOUS
<1>2. \A u \in Request \ {t} : at[u] = "insert" => bills'[held[u].pidx].status = "absent"
  BY DEF MoneySound, InsertsSound
<1>3. /\ at' \in [Request -> Billing!RequestState] /\ held' \in [Request -> Billing!Held]
      /\ InsertsSound' /\ AnswersSound'
  BY <1>1, <1>2, RequestsSound
<1>4. (Billing!TypeOK)'
  BY <1>3 DEF Billing!TypeOK
<1>5. MoneySound'
  BY <1>3, MoneyStays
<1>6. NudgesSound'
  BY DEF NudgesSound
<1> QED BY <1>4, <1>5, <1>6
-------------------------------------------------------------------------------
(* One action after the other *)

LEMMA ReadForTrialKeeps ==
  ASSUME BillingInv, NEW t \in Request, Billing!ReadForTrial(t)
  PROVE  BillingInv'
<1> DEFINE h == [held[t] EXCEPT !.day = today]
<1>1. held[t] \in Billing!Held /\ today \in Nat /\ sub' \in Billing!Sub
  BY BillFields DEF BillingInv, Billing!ReadForTrial
<1>2. h \in Billing!Held
  BY <1>1 DEF Billing!Held
<1>3. at' = [at EXCEPT ![t] = "trial"] /\ held' = [held EXCEPT ![t] = h]
  BY DEF Billing!ReadForTrial, Billing!Goto
<1>4. UNCHANGED <<today, bills, trail, receipts, billing, dpc, dun, sent>>
  BY DEF Billing!ReadForTrial, Billing!dunVars
<1>5. "trial" \in Billing!RequestState \ {"insert"} /\ "trial" \notin Settling
  BY DEF Billing!RequestState, Settling
<1> HIDE DEF h
<1> QED BY <1>1, <1>2, <1>3, <1>4, <1>5, RequestMoves

\* A request that ends with no more than a new subscription row, or nothing at all.
LEMMA RequestEnds ==
  ASSUME BillingInv, NEW t \in Request, NEW from, Billing!End(t, from), sub' \in Billing!Sub,
         UNCHANGED <<today, bills, trail, receipts, billing, dpc, dun, sent>>
  PROVE  BillingInv'
<1>1. at' = [at EXCEPT ![t] = "idle"] /\ held' = [held EXCEPT ![t] = Billing!NoRequest]
  BY DEF Billing!End, Billing!Goto
<1>2. "idle" \in Billing!RequestState \ {"insert"} /\ "idle" \notin Settling
  BY DEF Billing!RequestState, Settling
<1> QED BY <1>1, <1>2, First, RequestMoves

LEMMA WriteTrialKeeps ==
  ASSUME BillingInv, NEW t \in Request, Billing!WriteTrial(t)
  PROVE  BillingInv'
<1> DEFINE end == held[t].day + TrialDays
<1>1. sub \in Billing!Sub /\ end \in Nat
  BY BillFields DEF BillingInv
<1>2. sub' = [sub EXCEPT !.status = "trial", !.periodEnd = end]
  BY DEF Billing!WriteTrial, Billing!Upsert
<1> HIDE DEF end
<1>3. sub' \in Billing!Sub
  BY <1>1, <1>2 DEF Billing!Sub, Billing!SubStatus
<1> QED BY <1>3, RequestEnds DEF Billing!WriteTrial, Billing!dunVars

LEMMA ReadBillKeeps ==
  ASSUME BillingInv, NEW t \in Request, NEW p \in Pidx, Billing!ReadBill(t, p)
  PROVE  BillingInv'
<1> DEFINE i == Billing!Idle(p)
           h == [i EXCEPT !.bill = bills[p], !.day = today]
<1>1. bills[p] \in Billing!Bill /\ today \in Nat /\ sub' \in Billing!Sub
  BY BillFields DEF BillingInv, Billing!ReadBill
<1>2. h \in Billing!Held /\ h.pidx = p
  <2>1. i \in Billing!Held /\ i.pidx = p
    BY First
  <2> HIDE DEF i
  <2> QED BY <1>1, <2>1 DEF Billing!Held
<1>3. at' = [at EXCEPT ![t] = "lookup"] /\ held' = [held EXCEPT ![t] = h]
  BY DEF Billing!ReadBill, Billing!Goto
<1>4. UNCHANGED <<today, bills, trail, receipts, billing, dpc, dun, sent>> /\ bills[p].status # "absent"
  BY DEF Billing!ReadBill, Billing!dunVars
<1>5. "lookup" \in Billing!RequestState \ {"insert"}
  BY DEF Billing!RequestState
<1> HIDE DEF h
<1> QED BY <1>1, <1>2, <1>3, <1>4, <1>5, RequestMoves

LEMMA LookupPaymentKeeps ==
  ASSUME BillingInv, NEW t \in Request, Billing!LookupPayment(t)
  PROVE  BillingInv'
<1> DEFINE a == billing[held[t].pidx]
           h == [held[t] EXCEPT !.answer = a]
<1>1. held[t] \in Billing!Held /\ a \in Billing!Lookup /\ sub' \in Billing!Sub
  BY BillFields DEF BillingInv, Billing!LookupPayment
<1>2. h \in Billing!Held /\ h.pidx = held[t].pidx /\ h.answer = a
  <2> HIDE DEF a
  <2> QED BY <1>1 DEF Billing!Held
<1>3. at' = [at EXCEPT ![t] = "settle"] /\ held' = [held EXCEPT ![t] = h]
  BY DEF Billing!LookupPayment, Billing!Goto
<1>4. UNCHANGED <<today, bills, trail, receipts, billing, dpc, dun, sent>> /\ at[t] = "lookup"
  BY DEF Billing!LookupPayment, Billing!Goto, Billing!dunVars
<1>5. "settle" \in Billing!RequestState \ {"insert"}
  BY DEF Billing!RequestState
<1>6. bills[h.pidx].status # "absent"
  BY <1>2, <1>4 DEF BillingInv, MoneySound, AnswersSound, Settling
<1>7. ChargeTrue(h)
  <2>1. h.answer = billing[h.pidx]
    BY <1>2
  <2> HIDE DEF h
  <2> QED BY <2>1 DEF ChargeTrue
<1> HIDE DEF h, a
<1> QED BY <1>1, <1>2, <1>3, <1>4, <1>5, <1>6, <1>7, RequestMoves

LEMMA LoadSubscriptionKeeps ==
  ASSUME BillingInv, NEW t \in Request, Billing!LoadSubscription(t)
  PROVE  BillingInv'
<1> DEFINE trialToday == [Billing!NoSub EXCEPT !.status = "trial", !.periodEnd = held[t].day]
           s == IF sub.status = "absent" THEN trialToday ELSE sub
           h == [held[t] EXCEPT !.prior = s]
<1>1. held[t] \in Billing!Held /\ held[t].day \in Nat /\ sub \in Billing!Sub /\ sub' = sub
  BY BillFields DEF BillingInv, Billing!LoadSubscription
<1>2. trialToday \in Billing!Sub
  BY <1>1, First DEF Billing!Sub, Billing!SubStatus
<1>3. s \in Billing!Sub
  BY <1>1, <1>2
<1>4. held' = [held EXCEPT ![t] = h]
  BY DEF Billing!LoadSubscription
<1> HIDE DEF s
<1>5. /\ h \in Billing!Held /\ h.pidx = held[t].pidx /\ h.answer = held[t].answer
      /\ h.bill = held[t].bill
  BY <1>1, <1>3, NewHeld, BillFields DEF BillingInv, Billing!Held
<1>6. /\ at[t] = "settle" /\ at' = [at EXCEPT ![t] = "credit"]
      /\ held[t].answer.agrees /\ held[t].answer.status = "Completed"
      /\ ~Billing!Credited(held[t].bill)
  BY DEF Billing!LoadSubscription, Billing!Goto
<1>7. UNCHANGED <<today, bills, trail, receipts, billing, dpc, dun, sent>>
  BY DEF Billing!LoadSubscription, Billing!dunVars
<1>8. "credit" \in Billing!RequestState \ {"insert"}
  BY DEF Billing!RequestState
<1>9. bills[held[t].pidx].status # "absent" /\ ChargeTrue(held[t])
  BY <1>6 DEF BillingInv, MoneySound, AnswersSound, Settling
<1>10. ChargeTrue(h)
  <2> HIDE DEF h
  <2> QED BY <1>5, <1>9 DEF ChargeTrue
<1> HIDE DEF h
<1> QED BY <1>1, <1>4, <1>5, <1>6, <1>7, <1>8, <1>9, <1>10, RequestMoves

\* The settlements that find nothing to write, the throw and the crash.
LEMMA EndingsKeep ==
  ASSUME BillingInv, NEW t \in Request,
         \/ Billing!AlreadyCredited(t) \/ Billing!RejectCancelled(t)
         \/ Billing!NothingToDo(t) \/ Billing!Fail(t)
  PROVE  BillingInv'
<1>1. \E from : Billing!End(t, from)
  BY DEF Billing!AlreadyCredited, Billing!RejectCancelled, Billing!NothingToDo, Billing!Fail
<1>2. UNCHANGED <<today, sub, bills, trail, receipts, billing, dpc, dun, sent>>
  BY DEF Billing!AlreadyCredited, Billing!RejectCancelled, Billing!NothingToDo, Billing!Fail,
         Billing!dunVars
<1>3. sub' \in Billing!Sub
  BY <1>2, BillFields DEF BillingInv
<1> QED BY <1>1, <1>2, <1>3, RequestEnds
-------------------------------------------------------------------------------
(* The actions that write payment rows or move the gateway *)

\* A row that is not completed may change without a word to the trail.
LEMMA CreditStays ==
  ASSUME Billing!CreditBacked, trail' = trail, billing' = billing,
         \A p \in Pidx : bills'[p].status = "completed" => bills'[p] = bills[p]
  PROVE  (Billing!CreditBacked)'
BY DEF Billing!CreditBacked

\* A settlement that gives up on a payment closes a row nobody has extended for.
LEMMA RowCloses ==
  ASSUME BillingInv, NEW t \in Request, NEW q \in Pidx, NEW s \in Billing!BillStatus \ {"absent"},
         q = held[t].pidx, Billing!End(t, "settle"),
         bills' = [bills EXCEPT ![q] = [bills[q] EXCEPT !.status = s]],
         UNCHANGED <<today, sub, trail, receipts, billing, dpc, dun, sent>>,
         \A e \in trail : e.pidx # q,
         s # "completed",
         s = "amount_mismatch" => ~billing[q].agrees,
         s \in {"canceled", "expired"} => billing[q].status \in {"Expired", "User canceled"}
  PROVE  BillingInv'
<1> USE DEF BillingInv
<1>1. at' = [at EXCEPT ![t] = "idle"] /\ held' = [held EXCEPT ![t] = Billing!NoRequest] /\ at[t] = "settle"
  BY DEF Billing!End, Billing!Goto
<1>2. "idle" \in Billing!RequestState \ {"insert"} /\ "idle" \notin Settling
  BY DEF Billing!RequestState, Settling
<1>3. bills \in [Pidx -> Billing!Bill] /\ bills[q] \in Billing!Bill
  BY BillFields DEF Billing!TypeOK
<1> DEFINE row == [bills[q] EXCEPT !.status = s]
<1>5. row \in Billing!Bill /\ row.status = s
  BY <1>3, NewBill DEF Billing!Bill
<1>6. bills' \in [Pidx -> Billing!Bill] /\ bills'[q] = row /\ \A p \in Pidx \ {q} : bills'[p] = bills[p]
  <2> HIDE DEF row
  <2>1. bills' = [bills EXCEPT ![q] = row]
    BY DEF row
  <2> QED BY <1>3, <1>5, <2>1
<1> HIDE DEF row
<1>7. bills[q].status # "absent" /\ billing[q].status # "none"
  <2>1. bills[q].status # "absent"
    BY <1>1 DEF MoneySound, AnswersSound, Settling
  <2> QED BY <2>1 DEF MoneySound, BillsKnown
<1>8. \A p \in Pidx : bills[p].status # "absent" => bills'[p].status # "absent"
  BY <1>5, <1>6
<1>9. \A u \in Request \ {t} : at[u] = "insert" => bills'[held[u].pidx].status = "absent"
  BY <1>6, <1>7, BillFields DEF MoneySound, InsertsSound
<1>10. /\ at' \in [Request -> Billing!RequestState] /\ held' \in [Request -> Billing!Held]
       /\ InsertsSound' /\ AnswersSound'
  BY <1>1, <1>2, <1>8, <1>9, First, RequestsSound
<1>11. BillsKnown'
  <2> SUFFICES ASSUME NEW p \in Pidx
      PROVE  /\ bills'[p].status # "absent" => billing[p].status # "none"
             /\ bills'[p].status \in {"canceled", "expired"} =>
                  billing[p].status \in {"Expired", "User canceled"}
             /\ bills'[p].status = "amount_mismatch" => ~billing[p].agrees
             /\ bills'[p].status = "completed" => bills'[p].periodEnd # 0
    BY DEF BillsKnown
  <2>1. CASE p = q
    BY <1>5, <1>6, <1>7, <2>1
  <2>2. CASE p # q
    BY <1>6, <2>2 DEF MoneySound, BillsKnown
  <2> QED BY <2>1, <2>2
<1>12. \A e \in trail : e.pidx \in Pidx
  BY DEF Billing!TypeOK
<1>13. TrailSound'
  BY <1>6, <1>12 DEF MoneySound, TrailSound
<1>14. (Billing!CreditBacked)'
  <2>1. \A p \in Pidx : bills'[p].status = "completed" => bills'[p] = bills[p]
    BY <1>5, <1>6
  <2> QED BY <2>1, CreditStays DEF MoneySound
<1>15. (Billing!ReceiptIffExtended)'
  BY DEF MoneySound, Billing!ReceiptIffExtended
<1>16. (Billing!TypeOK)'
  BY <1>6, <1>10 DEF Billing!TypeOK
<1>17. NudgesSound'
  BY DEF NudgesSound
<1> QED BY <1>10, <1>11, <1>13, <1>14, <1>15, <1>16, <1>17 DEF MoneySound

LEMMA FlagMismatchKeeps ==
  ASSUME BillingInv, NEW t \in Request, Billing!FlagMismatch(t)
  PROVE  BillingInv'
<1> DEFINE q == held[t].pidx
<1>1. q \in Pidx /\ bills \in [Pidx -> Billing!Bill]
  BY BillFields DEF BillingInv, Billing!TypeOK
<1>2. at[t] = "settle" /\ Billing!End(t, "settle") /\ ~held[t].answer.agrees
  BY DEF Billing!FlagMismatch, Billing!End, Billing!Goto
<1>3. ~billing[q].agrees
  BY <1>2 DEF BillingInv, MoneySound, AnswersSound, ChargeTrue
<1>4. \A e \in trail : e.pidx # q
  BY <1>3 DEF BillingInv, MoneySound, Billing!CreditBacked
<1>5. bills' = [bills EXCEPT ![q].status = "amount_mismatch"]
  BY DEF Billing!FlagMismatch
<1>6. UNCHANGED <<today, sub, trail, receipts, billing, dpc, dun, sent>>
  BY DEF Billing!FlagMismatch, Billing!dunVars
<1>7. "amount_mismatch" \in Billing!BillStatus \ {"absent"}
  BY DEF Billing!BillStatus
<1> HIDE DEF q
<1>8. bills' = [bills EXCEPT ![q] = [bills[q] EXCEPT !.status = "amount_mismatch"]]
  BY <1>1, <1>5
<1> QED BY <1>1, <1>2, <1>3, <1>4, <1>6, <1>7, <1>8, RowCloses DEF q

LEMMA CloseUnpaidKeeps ==
  ASSUME BillingInv, NEW t \in Request, Billing!CloseUnpaid(t)
  PROVE  BillingInv'
<1> DEFINE q == held[t].pidx
           s == Billing!ClosedStatus(held[t].answer.status)
<1>1. q \in Pidx /\ bills \in [Pidx -> Billing!Bill]
  BY BillFields DEF BillingInv, Billing!TypeOK
<1>2. /\ at[t] = "settle" /\ Billing!End(t, "settle")
      /\ held[t].answer.status \in {"Expired", "User canceled"}
  BY DEF Billing!CloseUnpaid, Billing!End, Billing!Goto
<1>3. billing[q].status \in {"Expired", "User canceled"}
  BY <1>2 DEF BillingInv, MoneySound, AnswersSound, ChargeTrue
<1>4. \A e \in trail : e.pidx # q
  BY <1>3 DEF BillingInv, MoneySound, Billing!CreditBacked
<1>5. UNCHANGED <<today, sub, trail, receipts, billing, dpc, dun, sent>>
  BY DEF Billing!CloseUnpaid, Billing!dunVars
<1>6. s \in {"canceled", "expired"}
  BY DEF Billing!ClosedStatus
<1>7. s \in Billing!BillStatus \ {"absent"} /\ s # "completed" /\ s # "amount_mismatch"
  BY <1>6 DEF Billing!BillStatus
<1>8. \/ bills' = [bills EXCEPT ![q].status = s]
      \/ bills' = bills
  BY DEF Billing!CloseUnpaid
<1>9. CASE bills' = bills
  <2>1. sub' \in Billing!Sub
    BY <1>5, BillFields DEF BillingInv
  <2> QED BY <1>2, <1>5, <1>9, <2>1, RequestEnds
<1>10. CASE bills' = [bills EXCEPT ![q].status = s]
  <2> HIDE DEF s, q
  <2>1. bills' = [bills EXCEPT ![q] = [bills[q] EXCEPT !.status = s]]
    BY <1>1, <1>10
  <2> QED BY <1>1, <1>2, <1>3, <1>4, <1>5, <1>6, <1>7, <2>1, RowCloses DEF q
<1> QED BY <1>8, <1>9, <1>10

\* The row of a new payment: nobody else initiated it, and nobody has settled it.
LEMMA InsertBillKeeps ==
  ASSUME BillingInv, NEW t \in Request, Billing!InsertBill(t)
  PROVE  BillingInv'
<1> USE DEF BillingInv
<1> DEFINE q == held[t].pidx
           row == [Billing!NoBill EXCEPT !.status = "initiated"]
<1>1. q \in Pidx /\ bills \in [Pidx -> Billing!Bill]
  BY BillFields DEF Billing!TypeOK
<1>2. row \in Billing!Bill /\ row.status = "initiated"
  BY First DEF Billing!Bill, Billing!BillStatus
<1>3. at[t] = "insert" /\ at' = [at EXCEPT ![t] = "idle"] /\ held' = [held EXCEPT ![t] = Billing!NoRequest]
  BY DEF Billing!InsertBill, Billing!End, Billing!Goto
<1>4. bills' = [bills EXCEPT ![q] = row] /\ UNCHANGED <<today, sub, trail, receipts, billing, dpc, dun, sent>>
  BY DEF Billing!InsertBill, Billing!dunVars
<1>5. bills[q].status = "absent" /\ billing[q].status # "none"
  BY <1>3 DEF MoneySound, InsertsSound
<1>6. \A u \in Request \ {t} : at[u] = "insert" => held[u].pidx # q
  BY <1>3 DEF MoneySound, InsertsSound
<1> HIDE DEF q, row
<1>7. bills' \in [Pidx -> Billing!Bill] /\ bills'[q] = row /\ \A p \in Pidx \ {q} : bills'[p] = bills[p]
  BY <1>1, <1>2, <1>4
<1>8. "idle" \in Billing!RequestState \ {"insert"} /\ "idle" \notin Settling
  BY DEF Billing!RequestState, Settling
<1>9. \A p \in Pidx : bills[p].status # "absent" => bills'[p].status # "absent"
  BY <1>2, <1>7
<1>10. \A u \in Request \ {t} : at[u] = "insert" => bills'[held[u].pidx].status = "absent"
  BY <1>6, <1>7, BillFields DEF MoneySound, InsertsSound
<1>11. /\ at' \in [Request -> Billing!RequestState] /\ held' \in [Request -> Billing!Held]
       /\ InsertsSound' /\ AnswersSound'
  BY <1>3, <1>4, <1>8, <1>9, <1>10, First, RequestsSound
<1>12. BillsKnown'
  BY <1>2, <1>4, <1>5, <1>7 DEF MoneySound, BillsKnown
<1>13. \A e \in trail : e.pidx \in Pidx /\ e.pidx # q
  BY <1>5 DEF Billing!TypeOK, MoneySound, TrailSound
<1>14. TrailSound'
  BY <1>4, <1>7, <1>13 DEF MoneySound, TrailSound
<1>15. (Billing!CreditBacked)'
  <2>1. \A p \in Pidx : bills'[p].status = "completed" => bills'[p] = bills[p]
    BY <1>2, <1>7
  <2> QED BY <1>4, <2>1, CreditStays DEF MoneySound
<1>16. (Billing!ReceiptIffExtended)'
  BY <1>4 DEF MoneySound, Billing!ReceiptIffExtended
<1>17. (Billing!TypeOK)'
  BY <1>4, <1>7, <1>11 DEF Billing!TypeOK
<1>18. NudgesSound'
  BY <1>4 DEF NudgesSound
<1> QED BY <1>11, <1>12, <1>14, <1>15, <1>16, <1>17, <1>18 DEF MoneySound
-------------------------------------------------------------------------------
(* The gateway, the initiation and the credit *)

\* The gateway's record of q changes to one that makes nothing known of it untrue.
LEMMA GatewayMoves ==
  ASSUME BillingInv, NEW q \in Pidx, NEW g \in Billing!Lookup,
         billing' = [billing EXCEPT ![q] = g],
         UNCHANGED <<bills, trail, receipts>>,
         bills[q].status # "absent" => g.status # "none" /\ g.agrees = billing[q].agrees,
         bills[q].status # "absent" /\ billing[q].status \in {"Completed", "Refunded"}
           => g.status \in {"Completed", "Refunded"},
         bills[q].status # "absent" /\ billing[q].status \in {"Expired", "User canceled"}
           => g.status = billing[q].status
  PROVE  /\ billing' \in [Pidx -> Billing!Lookup]
         /\ BillsKnown' /\ TrailSound' /\ (Billing!CreditBacked)' /\ (Billing!ReceiptIffExtended)'
         /\ \A h \in Billing!Held :
              ChargeTrue(h) /\ bills[h.pidx].status # "absent" =>
                LET a == h.answer IN
                /\ a.agrees = billing'[h.pidx].agrees
                /\ a.status = "Completed" => billing'[h.pidx].status \in {"Completed", "Refunded"}
                /\ a.status \in {"Expired", "User canceled"} => billing'[h.pidx].status = a.status
<1> USE DEF BillingInv
<1>1. billing \in [Pidx -> Billing!Lookup] /\ \A e \in trail : e.pidx \in Pidx
  BY DEF Billing!TypeOK
<1>2. /\ billing' \in [Pidx -> Billing!Lookup] /\ billing'[q] = g
      /\ \A p \in Pidx \ {q} : billing'[p] = billing[p]
  BY <1>1
<1>3. \A p \in Pidx : bills[p].status # "absent" =>
        /\ billing'[p].status # "none" /\ billing'[p].agrees = billing[p].agrees
        /\ billing[p].status \in {"Completed", "Refunded"} => billing'[p].status \in {"Completed", "Refunded"}
        /\ billing[p].status \in {"Expired", "User canceled"} => billing'[p].status = billing[p].status
  <2> SUFFICES ASSUME NEW p \in Pidx, bills[p].status # "absent"
      PROVE  /\ billing'[p].status # "none" /\ billing'[p].agrees = billing[p].agrees
             /\ billing[p].status \in {"Completed", "Refunded"} =>
                  billing'[p].status \in {"Completed", "Refunded"}
             /\ billing[p].status \in {"Expired", "User canceled"} =>
                  billing'[p].status = billing[p].status
    OBVIOUS
  <2>1. CASE p = q
    BY <1>2, <2>1
  <2>2. CASE p # q
    BY <1>2, <2>2 DEF MoneySound, BillsKnown
  <2> QED BY <2>1, <2>2
<1>4. BillsKnown'
  <2> SUFFICES ASSUME NEW p \in Pidx, bills[p].status # "absent"
      PROVE  /\ billing'[p].status # "none"
             /\ bills[p].status \in {"canceled", "expired"} =>
                  billing'[p].status \in {"Expired", "User canceled"}
             /\ bills[p].status = "amount_mismatch" => ~billing'[p].agrees
             /\ bills[p].status = "completed" => bills[p].periodEnd # 0
    BY DEF BillsKnown
  <2>1. /\ bills[p].status \in {"canceled", "expired"} => billing[p].status \in {"Expired", "User canceled"}
        /\ bills[p].status = "amount_mismatch" => ~billing[p].agrees
        /\ bills[p].status = "completed" => bills[p].periodEnd # 0
    BY DEF MoneySound, BillsKnown
  <2> QED BY <1>3, <2>1
<1>5. TrailSound'
  BY DEF MoneySound, TrailSound
<1>6. (Billing!CreditBacked)'
  <2>1. ASSUME NEW e \in trail
        PROVE  billing'[e.pidx].agrees /\ billing'[e.pidx].status \in {"Completed", "Refunded"}
    <3>1. bills[e.pidx].status # "absent" /\ e.pidx \in Pidx
      BY <1>1 DEF MoneySound, TrailSound
    <3>2. billing[e.pidx].agrees /\ billing[e.pidx].status \in {"Completed", "Refunded"}
      BY DEF MoneySound, Billing!CreditBacked
    <3> QED BY <1>3, <3>1, <3>2
  <2>2. \A p \in Pidx : bills[p].status = "completed" =>
          [pidx |-> p, periodEnd |-> bills[p].periodEnd] \in trail
    BY DEF MoneySound, Billing!CreditBacked
  <2> QED BY <2>1, <2>2 DEF Billing!CreditBacked
<1>7. (Billing!ReceiptIffExtended)'
  BY DEF MoneySound, Billing!ReceiptIffExtended
<1>8. ASSUME NEW h \in Billing!Held, ChargeTrue(h), bills[h.pidx].status # "absent"
      PROVE  LET a == h.answer IN
             /\ a.agrees = billing'[h.pidx].agrees
             /\ a.status = "Completed" => billing'[h.pidx].status \in {"Completed", "Refunded"}
             /\ a.status \in {"Expired", "User canceled"} => billing'[h.pidx].status = a.status
  <2>1. h.pidx \in Pidx
    BY DEF Billing!Held
  <2> QED BY <1>3, <1>8, <2>1 DEF ChargeTrue
<1> QED BY <1>2, <1>4, <1>5, <1>6, <1>7, <1>8

LEMMA GatewayStepKeeps ==
  ASSUME BillingInv, NEW q \in Pidx, Billing!GatewayStep(q)
  PROVE  BillingInv'
<1> USE DEF BillingInv
<1>1. PICK s \in Billing!GatewayStatus :
        <<billing[q].status, s>> \in Billing!GatewayMove /\ billing' = [billing EXCEPT ![q].status = s]
  BY DEF Billing!GatewayStep
<1>2. UNCHANGED <<today, sub, bills, trail, receipts, at, held, dpc, dun, sent>>
  BY DEF Billing!GatewayStep, Billing!requestVars, Billing!dunVars
<1> DEFINE g == [billing[q] EXCEPT !.status = s]
<1>3. billing \in [Pidx -> Billing!Lookup] /\ billing[q] \in Billing!Lookup
  BY BillFields DEF Billing!TypeOK
<1>4. g \in Billing!Lookup /\ g.status = s /\ g.agrees = billing[q].agrees
  BY <1>3 DEF Billing!Lookup
<1>5. billing' = [billing EXCEPT ![q] = g]
  BY <1>1, <1>3
<1> HIDE DEF g
<1>6. /\ s # "none"
      /\ billing[q].status \in {"Completed", "Refunded"} => s \in {"Completed", "Refunded"}
      /\ billing[q].status \notin {"Expired", "User canceled"}
  BY <1>1 DEF Billing!GatewayMove
<1>7. /\ billing' \in [Pidx -> Billing!Lookup]
      /\ BillsKnown' /\ TrailSound' /\ (Billing!CreditBacked)' /\ (Billing!ReceiptIffExtended)'
      /\ \A h \in Billing!Held :
           ChargeTrue(h) /\ bills[h.pidx].status # "absent" =>
             LET a == h.answer IN
             /\ a.agrees = billing'[h.pidx].agrees
             /\ a.status = "Completed" => billing'[h.pidx].status \in {"Completed", "Refunded"}
             /\ a.status \in {"Expired", "User canceled"} => billing'[h.pidx].status = a.status
  BY <1>2, <1>4, <1>5, <1>6, GatewayMoves
<1>8. InsertsSound'
  <2>1. ASSUME NEW t \in Request, at[t] = "insert"
        PROVE  bills[held[t].pidx].status = "absent" /\ billing'[held[t].pidx].status # "none"
    <3>1. held[t].pidx \in Pidx /\ bills[held[t].pidx].status = "absent" /\ billing[held[t].pidx].status # "none"
      BY <2>1, BillFields DEF MoneySound, InsertsSound
    <3> QED BY <1>3, <1>4, <1>5, <1>6, <3>1
  <2> QED BY <1>2, <2>1 DEF MoneySound, InsertsSound
<1>9. AnswersSound'
  <2> SUFFICES ASSUME NEW t \in Request, at[t] \in {"settle", "credit"}
      PROVE  ChargeTrue(held[t])'
    BY <1>2 DEF MoneySound, AnswersSound, Billing!Credited
  <2>1. held[t] \in Billing!Held /\ ChargeTrue(held[t]) /\ bills[held[t].pidx].status # "absent"
    BY BillFields DEF MoneySound, AnswersSound, Settling
  <2> QED BY <1>2, <1>7, <2>1 DEF ChargeTrue
<1>10. (Billing!TypeOK)'
  BY <1>2, <1>7 DEF Billing!TypeOK
<1>11. NudgesSound'
  BY <1>2 DEF NudgesSound
<1> QED BY <1>7, <1>8, <1>9, <1>10, <1>11 DEF MoneySound

\* A payment gets a new id: nothing the business keeps names it yet.
LEMMA InitiateKeeps ==
  ASSUME BillingInv, NEW t \in Request, NEW q \in Pidx, NEW agrees \in BOOLEAN,
         Billing!InitiateAtGateway(t, q, agrees)
  PROVE  BillingInv'
<1> USE DEF BillingInv
<1> DEFINE g == [status |-> "Initiated", agrees |-> agrees]
           h == Billing!Idle(q)
<1>1. /\ billing[q].status = "none" /\ billing' = [billing EXCEPT ![q] = g]
      /\ at[t] = "idle" /\ at' = [at EXCEPT ![t] = "insert"] /\ held' = [held EXCEPT ![t] = h]
      /\ UNCHANGED <<today, sub, bills, trail, receipts, dpc, dun, sent>>
  BY DEF Billing!InitiateAtGateway, Billing!Goto, Billing!dunVars
<1>2. g \in Billing!Lookup /\ g.status = "Initiated"
  BY DEF Billing!Lookup, Billing!GatewayStatus
<1>3. h \in Billing!Held /\ h.pidx = q
  BY First
<1>4. bills[q].status = "absent"
  BY <1>1 DEF MoneySound, BillsKnown
<1> HIDE DEF g, h
<1>5. /\ billing' \in [Pidx -> Billing!Lookup]
      /\ BillsKnown' /\ TrailSound' /\ (Billing!CreditBacked)' /\ (Billing!ReceiptIffExtended)'
      /\ \A k \in Billing!Held :
           ChargeTrue(k) /\ bills[k.pidx].status # "absent" =>
             LET a == k.answer IN
             /\ a.agrees = billing'[k.pidx].agrees
             /\ a.status = "Completed" => billing'[k.pidx].status \in {"Completed", "Refunded"}
             /\ a.status \in {"Expired", "User canceled"} => billing'[k.pidx].status = a.status
  BY <1>1, <1>2, <1>4, GatewayMoves
<1>6. at \in [Request -> Billing!RequestState] /\ held \in [Request -> Billing!Held]
  BY DEF Billing!TypeOK
<1>7. /\ at' \in [Request -> Billing!RequestState] /\ held' \in [Request -> Billing!Held]
      /\ at'[t] = "insert" /\ held'[t] = h
      /\ \A u \in Request \ {t} : at'[u] = at[u] /\ held'[u] = held[u]
  BY <1>1, <1>3, <1>6 DEF Billing!RequestState
<1>8. \A u \in Request : at[u] = "insert" => held[u].pidx # q
  BY <1>1 DEF MoneySound, InsertsSound
<1>9. billing \in [Pidx -> Billing!Lookup]
  BY DEF Billing!TypeOK
<1>10. InsertsSound'
  <2>1. ASSUME NEW u \in Request, at'[u] = "insert"
        PROVE  bills'[held'[u].pidx].status = "absent" /\ billing'[held'[u].pidx].status # "none"
    <3>1. CASE u = t
      BY <1>1, <1>2, <1>3, <1>4, <1>7, <1>9, <3>1
    <3>2. CASE u # t
      <4>1. at[u] = "insert" /\ held'[u] = held[u] /\ held[u].pidx # q /\ held[u].pidx \in Pidx
        BY <1>7, <1>8, <2>1, <3>2, BillFields
      <4> QED BY <1>1, <1>9, <4>1 DEF MoneySound, InsertsSound
    <3> QED BY <3>1, <3>2
  <2>2. ASSUME NEW u \in Request, NEW v \in Request,
               at'[u] = "insert", at'[v] = "insert", held'[u].pidx = held'[v].pidx
        PROVE  u = v
    <3>1. CASE u = t \/ v = t
      BY <1>3, <1>7, <1>8, <2>2, <3>1
    <3>2. CASE u # t /\ v # t
      BY <1>7, <2>2, <3>2 DEF MoneySound, InsertsSound
    <3> QED BY <3>1, <3>2
  <2> QED BY <2>1, <2>2 DEF InsertsSound
<1>11. AnswersSound'
  <2> SUFFICES ASSUME NEW u \in Request, at'[u] \in Settling
      PROVE  /\ bills'[held'[u].pidx].status # "absent"
             /\ at'[u] \in {"settle", "credit"} => ChargeTrue(held[u])'
             /\ at'[u] = "credit" =>
                  /\ held'[u].answer.agrees /\ held'[u].answer.status = "Completed"
                  /\ ~Billing!Credited(held'[u].bill)
    BY DEF AnswersSound, Billing!Credited, Settling
  <2>1. u # t /\ at'[u] = at[u] /\ held'[u] = held[u] /\ held[u] \in Billing!Held
    BY <1>6, <1>7 DEF Settling
  <2>2. bills[held[u].pidx].status # "absent"
    BY <2>1 DEF MoneySound, AnswersSound
  <2>3. at[u] \in {"settle", "credit"} => ChargeTrue(held[u])'
    <3> SUFFICES ASSUME at[u] \in {"settle", "credit"}
        PROVE  ChargeTrue(held[u])'
      OBVIOUS
    <3>1. ChargeTrue(held[u])
      BY DEF MoneySound, AnswersSound
    <3> QED BY <1>5, <2>1, <2>2, <3>1 DEF ChargeTrue
  <2>4. at[u] = "credit" =>
          /\ held[u].answer.agrees /\ held[u].answer.status = "Completed"
          /\ ~Billing!Credited(held[u].bill)
    BY DEF MoneySound, AnswersSound
  <2> QED BY <1>1, <2>1, <2>2, <2>3, <2>4
<1>12. (Billing!TypeOK)'
  BY <1>1, <1>5, <1>7 DEF Billing!TypeOK
<1>13. NudgesSound'
  BY <1>1 DEF NudgesSound
<1> QED BY <1>5, <1>10, <1>11, <1>12, <1>13 DEF MoneySound
\* A request about to credit holds a payment the gateway collected, and its row is
\* open or completed: no other settlement can have closed it.
LEMMA CreditIsDue ==
  ASSUME BillingInv, NEW t \in Request, at[t] = "credit"
  PROVE  /\ held[t].pidx \in Pidx
         /\ billing[held[t].pidx].agrees
         /\ billing[held[t].pidx].status \in {"Completed", "Refunded"}
         /\ bills[held[t].pidx].status \in {"initiated", "completed"}
<1> USE DEF BillingInv
<1> DEFINE q == held[t].pidx
<1>1. q \in Pidx /\ bills[q] \in Billing!Bill
  BY BillFields
<1>2. bills[q].status # "absent" /\ ChargeTrue(held[t])
  BY DEF MoneySound, AnswersSound, Settling
<1>3. held[t].answer.agrees /\ held[t].answer.status = "Completed"
  BY DEF MoneySound, AnswersSound
<1>4. billing[q].agrees /\ billing[q].status \in {"Completed", "Refunded"}
  BY <1>2, <1>3 DEF ChargeTrue
<1>5. bills[q].status \notin {"canceled", "expired", "amount_mismatch"}
  BY <1>1, <1>4 DEF MoneySound, BillsKnown
<1>6. bills[q].status \in Billing!BillStatus
  BY <1>1 DEF Billing!Bill
<1> QED BY <1>1, <1>2, <1>4, <1>5, <1>6 DEF Billing!BillStatus

LEMMA CreditKeeps ==
  ASSUME BillingInv, NEW t \in Request, Billing!Credit(t)
  PROVE  BillingInv'
<1> USE DEF BillingInv
<1> DEFINE q == held[t].pidx
           next == Billing!Renew(held[t].prior, held[t].day)
           end == next.periodEnd
           row == [status |-> "completed", periodEnd |-> end]
           entry == [pidx |-> q, periodEnd |-> end]
<1>1. /\ at[t] = "credit" /\ at' = [at EXCEPT ![t] = "idle"]
      /\ held' = [held EXCEPT ![t] = Billing!NoRequest]
  BY DEF Billing!Credit, Billing!End, Billing!Goto
<1>2. /\ q \in Pidx /\ billing[q].agrees /\ billing[q].status \in {"Completed", "Refunded"}
      /\ bills[q].status \in {"initiated", "completed"}
  BY <1>1, CreditIsDue
<1>3. next.status = "active" /\ end \in Nat /\ end # 0
  BY BillFields, RenewEnds
<1>4. sub' = Billing!Upsert(next) /\ UNCHANGED <<today, billing, dpc, dun, sent>>
  BY DEF Billing!Credit, Billing!dunVars
<1>5. bills' = Billing!Completion(q, end)
  BY DEF Billing!Credit
<1>6. trail' = trail \cup {entry} /\ receipts' = receipts \cup {q}
  BY DEF Billing!Credit, Billing!QueueReceipt
<1>7. sub' \in Billing!Sub
  <2>1. sub \in Billing!Sub
    BY BillFields
  <2>2. sub' = [sub EXCEPT !.status = next.status, !.periodEnd = end]
    BY <1>4 DEF Billing!Upsert
  <2>3. next.status \in Billing!SubStatus
    BY <1>3 DEF Billing!SubStatus
  <2> HIDE DEF next, end
  <2> QED BY <1>3, <2>1, <2>2, <2>3 DEF Billing!Sub
<1>8. row \in Billing!Bill /\ row.status = "completed" /\ row.periodEnd = end
  BY <1>3 DEF Billing!Bill, Billing!BillStatus
<1>9. bills \in [Pidx -> Billing!Bill]
  BY DEF Billing!TypeOK
<1>10. \/ bills[q].status = "initiated" /\ bills' = [bills EXCEPT ![q] = row]
       \/ bills[q].status = "completed" /\ bills' = bills
  BY <1>2, <1>5 DEF Billing!Completion
<1>11. entry \in [pidx: Pidx, periodEnd: Nat] /\ entry.pidx = q
  BY <1>2, <1>3
<1>12. entry = [pidx |-> q, periodEnd |-> row.periodEnd]
  BY <1>8
<1> HIDE DEF q, next, end, row, entry
<1>13. /\ bills' \in [Pidx -> Billing!Bill] /\ bills'[q].status = "completed"
       /\ \A p \in Pidx \ {q} : bills'[p] = bills[p]
       /\ bills'[q] = row \/ bills'[q] = bills[q]
  BY <1>2, <1>8, <1>9, <1>10
<1>14. "idle" \in Billing!RequestState \ {"insert"} /\ "idle" \notin Settling
  BY DEF Billing!RequestState, Settling
<1>15. \A p \in Pidx : bills[p].status # "absent" => bills'[p].status # "absent"
  BY <1>13
<1>16. \A u \in Request \ {t} : at[u] = "insert" => bills'[held[u].pidx].status = "absent"
  BY <1>2, <1>13, BillFields DEF MoneySound, InsertsSound
<1>17. /\ at' \in [Request -> Billing!RequestState] /\ held' \in [Request -> Billing!Held]
       /\ InsertsSound' /\ AnswersSound'
  BY <1>1, <1>4, <1>14, <1>15, <1>16, First, RequestsSound
<1>18. BillsKnown'
  <2> SUFFICES ASSUME NEW p \in Pidx
      PROVE  /\ bills'[p].status # "absent" => billing'[p].status # "none"
             /\ bills'[p].status \in {"canceled", "expired"} =>
                  billing'[p].status \in {"Expired", "User canceled"}
             /\ bills'[p].status = "amount_mismatch" => ~billing'[p].agrees
             /\ bills'[p].status = "completed" => bills'[p].periodEnd # 0
    BY DEF BillsKnown
  <2>1. CASE p = q
    <3>1. bills'[q].periodEnd # 0
      BY <1>2, <1>3, <1>8, <1>9, <1>10 DEF MoneySound, BillsKnown
    <3> QED BY <1>2, <1>4, <1>13, <2>1, <3>1
  <2>2. CASE p # q
    BY <1>4, <1>13, <2>2 DEF MoneySound, BillsKnown
  <2> QED BY <2>1, <2>2
<1>19. \A e \in trail : e.pidx \in Pidx
  BY DEF Billing!TypeOK
<1>20. TrailSound'
  <2> SUFFICES ASSUME NEW e \in trail'
      PROVE  bills'[e.pidx].status = "completed"
    BY DEF TrailSound
  <2>1. CASE e.pidx = q
    BY <1>13, <2>1
  <2>2. CASE e.pidx # q
    <3>1. e \in trail
      BY <1>6, <1>11, <2>2
    <3> QED BY <1>13, <1>19, <2>2, <3>1 DEF MoneySound, TrailSound
  <2> QED BY <2>1, <2>2
<1>21. (Billing!CreditBacked)'
  <2>1. ASSUME NEW e \in trail'
        PROVE  billing'[e.pidx].agrees /\ billing'[e.pidx].status \in {"Completed", "Refunded"}
    <3>1. CASE e = entry
      BY <1>2, <1>4, <1>11, <3>1
    <3>2. CASE e \in trail
      BY <1>4, <3>2 DEF MoneySound, Billing!CreditBacked
    <3> QED BY <1>6, <3>1, <3>2
  <2>2. ASSUME NEW p \in Pidx, bills'[p].status = "completed"
        PROVE  [pidx |-> p, periodEnd |-> bills'[p].periodEnd] \in trail'
    <3>1. CASE bills'[p] = bills[p]
      BY <1>6, <2>2, <3>1 DEF MoneySound, Billing!CreditBacked
    <3>2. CASE p = q /\ bills'[q] = row
      BY <1>6, <1>12, <3>2
    <3> QED BY <1>13, <3>1, <3>2
  <2> QED BY <2>1, <2>2 DEF Billing!CreditBacked
<1>22. (Billing!ReceiptIffExtended)'
  <2>1. receipts = {e.pidx : e \in trail}
    BY DEF MoneySound, Billing!ReceiptIffExtended
  <2>2. receipts' = {e.pidx : e \in trail'}
    BY <1>6, <1>11, <2>1
  <2> QED BY <2>2 DEF Billing!ReceiptIffExtended
<1>23. (Billing!TypeOK)'
  <2>1. trail' \subseteq [pidx: Pidx, periodEnd: Nat] /\ receipts' \subseteq Pidx
    BY <1>2, <1>6, <1>11 DEF Billing!TypeOK
  <2> QED BY <1>4, <1>7, <1>13, <1>17, <2>1 DEF Billing!TypeOK
<1>24. NudgesSound'
  BY <1>4 DEF NudgesSound
<1> QED BY <1>17, <1>18, <1>20, <1>21, <1>22, <1>23, <1>24 DEF MoneySound
-------------------------------------------------------------------------------
(* The owner, the calendar and the dunning passes *)

LEMMA OwnerAndDayKeep ==
  ASSUME BillingInv, Billing!Cancel \/ Billing!Tick
  PROVE  BillingInv'
<1>1. UNCHANGED <<bills, trail, receipts, billing, at, held, dpc, dun, sent>>
  BY DEF Billing!Cancel, Billing!Tick, Billing!requestVars, Billing!dunVars
<1>2. MoneySound'
  BY <1>1, RequestsStay
<1>3. NudgesSound'
  BY <1>1 DEF BillingInv, NudgesSound
<1>4. today' \in 1..MaxDay
  BY DEF BillingInv, Billing!TypeOK, Billing!Cancel, Billing!Tick
<1>5. sub' \in Billing!Sub
  <2>1. sub \in Billing!Sub /\ "cancelled" \in Billing!SubStatus
    BY BillFields DEF BillingInv, Billing!SubStatus
  <2>2. [sub EXCEPT !.status = "cancelled"] \in Billing!Sub
    BY <2>1 DEF Billing!Sub
  <2> QED BY <2>1, <2>2 DEF Billing!Cancel, Billing!Tick
<1>6. (Billing!TypeOK)'
  BY <1>1, <1>4, <1>5 DEF BillingInv, Billing!TypeOK
<1> QED BY <1>2, <1>3, <1>6 DEF BillingInv

\* A step of pass d: the others' memory, the money and the requests are left alone.
LEMMA PassMoves ==
  ASSUME BillingInv, NEW d \in Dunners, NEW to \in Billing!DunnerState,
         dpc' = [dpc EXCEPT ![d] = to], NEW s \in Billing!Snapshot, dun' = [dun EXCEPT ![d] = s],
         sub' \in Billing!Sub, sent' \subseteq [stage: Billing!Stage, periodEnd: Nat],
         UNCHANGED <<today, bills, trail, receipts, billing, at, held>>,
         to \in {"send", "latch"} => Billing!StageDue(s.row, s.day) \in Billing!Stage
  PROVE  BillingInv'
<1>1. MoneySound'
  BY RequestsStay
<1>2. dpc \in [Dunners -> Billing!DunnerState] /\ dun \in [Dunners -> Billing!Snapshot]
  BY DEF BillingInv, Billing!TypeOK
<1>3. /\ dpc' \in [Dunners -> Billing!DunnerState] /\ dun' \in [Dunners -> Billing!Snapshot]
      /\ dpc'[d] = to /\ dun'[d] = s
      /\ \A c \in Dunners \ {d} : dpc'[c] = dpc[c] /\ dun'[c] = dun[c]
  BY <1>2
<1>4. (Billing!TypeOK)'
  BY <1>3 DEF BillingInv, Billing!TypeOK
<1>5. NudgesSound'
  <2> SUFFICES ASSUME NEW c \in Dunners, dpc'[c] \in {"send", "latch"}
      PROVE  Billing!StageDue(dun'[c].row, dun'[c].day) \in Billing!Stage
    BY DEF NudgesSound
  <2>1. CASE c = d
    BY <1>3, <2>1
  <2>2. CASE c # d
    BY <1>3, <2>2 DEF BillingInv, NudgesSound
  <2> QED BY <2>1, <2>2
<1> QED BY <1>1, <1>4, <1>5 DEF BillingInv

LEMMA PassKeeps ==
  ASSUME BillingInv, NEW d \in Dunners, Billing!DunningPass(d)
  PROVE  BillingInv'
<1> DEFINE row == dun[d].row
           day == dun[d].day
           stage == Billing!StageDue(row, day)
<1>1. /\ dun \in [Dunners -> Billing!Snapshot] /\ dun[d] \in Billing!Snapshot
      /\ row \in Billing!Sub /\ day \in Nat /\ sub \in Billing!Sub /\ today \in Nat
      /\ sent \subseteq [stage: Billing!Stage, periodEnd: Nat]
  BY BillFields DEF BillingInv, Billing!TypeOK
<1>2. stage \in Billing!Stage \cup {"none"} /\ Billing!ProjectStatus(row, day) \in Billing!SubStatus
  BY <1>1, Projected
<1>3. dun' = dun => dun' = [dun EXCEPT ![d] = dun[d]]
  BY <1>1
<1>4. dpc[d] \in {"send", "latch"} => stage \in Billing!Stage
  BY DEF BillingInv, NudgesSound
<1>5. {"idle", "reconcile", "send", "latch"} = Billing!DunnerState
  BY DEF Billing!DunnerState
<1>6. row.periodEnd \in Nat
  BY <1>1 DEF Billing!Sub
<1>7. CASE Billing!ReadSubscriptions(d)
  <2> DEFINE s == [row |-> sub, day |-> today]
  <2>1. s \in Billing!Snapshot
    BY <1>1 DEF Billing!Snapshot
  <2>2. /\ dpc' = [dpc EXCEPT ![d] = "reconcile"] /\ dun' = [dun EXCEPT ![d] = s]
        /\ UNCHANGED <<sub, sent, today, bills, trail, receipts, billing, at, held>>
    BY <1>7 DEF Billing!ReadSubscriptions, Billing!DunStep, Billing!dunRest, Billing!requestVars
  <2> HIDE DEF s, row, day, stage
  <2> QED BY <1>1, <1>5, <2>1, <2>2, PassMoves
<1>8. CASE Billing!Reconcile(d)
  <2> DEFINE to == IF Billing!NudgeDue(row, day) THEN "send" ELSE "idle"
             s == IF to = "idle" THEN Billing!NoSnapshot ELSE dun[d]
  <2>1. dpc' = [dpc EXCEPT ![d] = to] /\ to \in {"send", "idle"}
    BY <1>8 DEF Billing!Reconcile, Billing!DunStep
  <2>2. dun' = [dun EXCEPT ![d] = s] /\ s \in Billing!Snapshot
    BY <1>1, <1>3, <1>8, <2>1, First DEF Billing!Reconcile, Billing!DunStep
  <2>3. UNCHANGED <<sent, today, bills, trail, receipts, billing, at, held>>
    BY <1>8 DEF Billing!Reconcile, Billing!dunRest, Billing!requestVars
  <2>4. sub' \in Billing!Sub
    <3> DEFINE status == Billing!ProjectStatus(row, day)
    <3>1. sub' = [sub EXCEPT !.status = status] \/ sub' = sub
      BY <1>8 DEF Billing!Reconcile
    <3>2. status \in Billing!SubStatus
      BY <1>2
    <3> HIDE DEF status
    <3> QED BY <1>1, <3>1, <3>2 DEF Billing!Sub
  <2>5. to = "send" => stage \in Billing!Stage /\ s = dun[d]
    BY <1>2 DEF Billing!NudgeDue
  <2>6. to \in {"send", "latch"} => Billing!StageDue(s.row, s.day) \in Billing!Stage
    BY <2>1, <2>5
  <2> HIDE DEF to, s, row, day, stage
  <2> QED BY <1>1, <1>5, <2>1, <2>2, <2>3, <2>4, <2>6, PassMoves
<1>9. CASE Billing!SendNudge(d)
  <2>1. dpc' = [dpc EXCEPT ![d] = "latch"] /\ dpc[d] = "send" /\ dun' = dun
    BY <1>9 DEF Billing!SendNudge, Billing!DunStep
  <2>2. stage \in Billing!Stage
    BY <1>4, <2>1
  <2>3. sent' = sent \cup {[stage |-> stage, periodEnd |-> row.periodEnd]}
    BY <1>9 DEF Billing!SendNudge, Billing!Nudge
  <2>4. sent' \subseteq [stage: Billing!Stage, periodEnd: Nat]
    <3> HIDE DEF stage
    <3> QED BY <1>1, <1>6, <2>2, <2>3
  <2>5. UNCHANGED <<sub, today, bills, trail, receipts, billing, at, held>>
    BY <1>9 DEF Billing!SendNudge, Billing!dunRest, Billing!requestVars
  <2>6. dun' = [dun EXCEPT ![d] = dun[d]]
    BY <1>3, <2>1
  <2>7. Billing!StageDue(dun[d].row, dun[d].day) \in Billing!Stage
    BY <2>2
  <2> HIDE DEF row, day, stage
  <2> QED BY <1>1, <1>5, <2>1, <2>4, <2>5, <2>6, <2>7, PassMoves
<1>10. CASE Billing!RecordLatch(d)
  <2> DEFINE status == Billing!ProjectStatus(row, day)
             end == row.periodEnd
  <2>1. /\ dpc[d] = "latch" /\ dpc' = [dpc EXCEPT ![d] = "idle"]
        /\ dun' = [dun EXCEPT ![d] = Billing!NoSnapshot]
    BY <1>10 DEF Billing!RecordLatch, Billing!DunStep
  <2>2. stage \in Billing!Stage /\ status \in Billing!SubStatus
    BY <1>2, <1>4, <2>1
  <2>3. sub' = [sub EXCEPT !.status = status, !.lastStage = stage, !.lastFor = end]
    BY <1>10 DEF Billing!RecordLatch, Billing!Nudge
  <2>4. sub' \in Billing!Sub
    <3> HIDE DEF stage, status, end
    <3>1. end \in Nat
      BY <1>6 DEF end
    <3> QED BY <1>1, <2>2, <2>3, <3>1 DEF Billing!Sub
  <2>5. UNCHANGED <<sent, today, bills, trail, receipts, billing, at, held>>
    BY <1>10 DEF Billing!RecordLatch, Billing!dunRest, Billing!requestVars
  <2> HIDE DEF row, day, stage, status, end
  <2> QED BY <1>1, <1>5, <2>1, <2>4, <2>5, First, PassMoves
<1>11. CASE Billing!PassFails(d)
  <2>1. /\ dpc' = [dpc EXCEPT ![d] = "idle"] /\ dun' = [dun EXCEPT ![d] = Billing!NoSnapshot]
        /\ UNCHANGED <<sub, sent, today, bills, trail, receipts, billing, at, held>>
    BY <1>11 DEF Billing!PassFails, Billing!DunStep, Billing!dunRest, Billing!requestVars
  <2> HIDE DEF row, day, stage
  <2> QED BY <1>1, <1>5, <2>1, First, PassMoves
<1> QED BY <1>7, <1>8, <1>9, <1>10, <1>11 DEF Billing!DunningPass
-------------------------------------------------------------------------------
(* The subscription, and the composition *)

LEMMA BillingStarts ==
  ASSUME Billing!Init
  PROVE  BillingInv
<1> USE DEF Billing!Init
<1>1. Billing!TypeOK
  <2>1. today \in 1..MaxDay
    OBVIOUS
  <2>2. "idle" \in Billing!RequestState /\ "idle" \in Billing!DunnerState
    BY DEF Billing!RequestState, Billing!DunnerState
  <2> QED BY <2>1, <2>2, First DEF Billing!TypeOK
<1>2. \A p \in Pidx : bills[p].status = "absent"
  BY First
<1>3. MoneySound
  BY <1>2 DEF MoneySound, BillsKnown, InsertsSound, AnswersSound, TrailSound, Settling,
              Billing!CreditBacked, Billing!ReceiptIffExtended
<1>4. NudgesSound
  BY DEF NudgesSound
<1> QED BY <1>1, <1>3, <1>4 DEF BillingInv

LEMMA BillingSteps ==
  ASSUME BillingInv, Billing!Next
  PROVE  BillingInv'
<1>1. ASSUME NEW t \in Request,
             \/ Billing!ReadForTrial(t) \/ Billing!Proceed(t) \/ Billing!Fail(t)
             \/ \E p \in Pidx, agrees \in BOOLEAN : Billing!InitiateAtGateway(t, p, agrees)
             \/ \E p \in Pidx : Billing!ReadBill(t, p)
      PROVE  BillingInv'
  <2>1. CASE Billing!Proceed(t)
    BY <2>1, InsertBillKeeps, LookupPaymentKeeps, WriteTrialKeeps, FlagMismatchKeeps, EndingsKeep,
       LoadSubscriptionKeeps, CreditKeeps, CloseUnpaidKeeps
       DEF Billing!Proceed, Billing!Settle
  <2>2. CASE Billing!ReadForTrial(t) \/ Billing!Fail(t)
    BY <2>2, ReadForTrialKeeps, EndingsKeep
  <2> QED BY <1>1, <2>1, <2>2, InitiateKeeps, ReadBillKeeps
<1> QED BY <1>1, OwnerAndDayKeep, PassKeeps, GatewayStepKeeps DEF Billing!Next

LEMMA BillingRests ==
  ASSUME BillingInv, UNCHANGED billingVars
  PROVE  BillingInv'
<1> USE DEF billingVars
<1>1. MoneySound'
  BY RequestsStay
<1>2. NudgesSound'
  BY DEF BillingInv, NudgesSound
<1>3. (Billing!TypeOK)'
  BY DEF BillingInv, Billing!TypeOK
<1> QED BY <1>1, <1>2, <1>3 DEF BillingInv

LEMMA BillingInvariant == MCSpec => []BillingInv
<1>1. MCInit => BillingInv
  BY BillingStarts DEF MCInit
<1>2. BillingInv /\ [MCNext]_allVars => BillingInv'
  BY BillingSteps, BillingRests DEF MCNext, allVars
<1> QED BY <1>1, <1>2, PTL DEF MCSpec

\* The subscription's rows, the requests' and the passes' memory stay of their types,
\* for any number of payments, requests and passes and any lengths of the periods.
THEOREM BillingTypes == MCSpec => []BillingTypeOK
<1>1. BillingInv => BillingTypeOK
  BY DEF BillingInv, BillingTypeOK
<1> QED BY <1>1, BillingInvariant, PTL
-------------------------------------------------------------------------------
(* How often one payment extends the period *)

\* Who may be in flight together, and the requests that may still extend for p.
InFlight == IF part = "cycle" THEN OneRequest ELSE Request

MayCredit(p) ==
  {t \in Request : at[t] \in Settling /\ held[t].pidx = p /\ ~Billing!Credited(held[t].bill)}

\* What was extended and what may still be never exceeds the requests in flight: once
\* the row is completed, whoever reads it finds it credited.
ExtensionsBound ==
  /\ IsFiniteSet(trail)
  /\ part = "cycle" => \A t \in Request \ OneRequest : at[t] = "idle"
  /\ \A p \in Pidx : Cardinality(Billing!Extensions(p)) + Cardinality(MayCredit(p)) <= Cardinality(InFlight)

\* A request that does not come to hold an uncredited row adds nobody to MayCredit.
LEMMA NobodyNew ==
  ASSUME Billing!TypeOK, NEW t \in Request, NEW to, NEW h,
         at' = [at EXCEPT ![t] = to], held' = [held EXCEPT ![t] = h],
         to \in Settling => at[t] \in Settling /\ h.pidx = held[t].pidx /\ h.bill = held[t].bill,
         NEW p \in Pidx
  PROVE  MayCredit(p)' \subseteq MayCredit(p)
<1>1. at \in [Request -> Billing!RequestState] /\ held \in [Request -> Billing!Held]
  BY DEF Billing!TypeOK
<1>2. ASSUME NEW u \in Request, at'[u] \in Settling, held'[u].pidx = p,
             ~Billing!Credited(held'[u].bill)
      PROVE  at[u] \in Settling /\ held[u].pidx = p /\ ~Billing!Credited(held[u].bill)
  <2>1. CASE u = t
    BY <1>1, <1>2, <2>1
  <2>2. CASE u # t
    BY <1>1, <1>2, <2>2
  <2> QED BY <2>1, <2>2
<1> QED BY <1>2 DEF MayCredit, Billing!Credited

\* Every step of the subscription but the credit and the reading of a row.
LEMMA QuietSteps ==
  ASSUME Billing!TypeOK, Billing!Next,
         ~\E t \in Request : Billing!Credit(t),
         ~\E t \in Request, p \in Pidx : Billing!ReadBill(t, p)
  PROVE  trail' = trail /\ \A p \in Pidx : MayCredit(p)' \subseteq MayCredit(p)
<1>1. ASSUME NEW t \in Request, NEW from, Billing!End(t, from)
      PROVE  \A p \in Pidx : MayCredit(p)' \subseteq MayCredit(p)
  <2>1. at' = [at EXCEPT ![t] = "idle"] /\ held' = [held EXCEPT ![t] = Billing!NoRequest]
    BY <1>1 DEF Billing!End, Billing!Goto
  <2>2. "idle" \notin Settling
    BY DEF Settling
  <2> QED BY <2>1, <2>2, NobodyNew
<1>2. ASSUME NEW t \in Request, Billing!Proceed(t) \/ Billing!Fail(t),
             ~Billing!LookupPayment(t), ~Billing!LoadSubscription(t)
      PROVE  trail' = trail /\ \E from : Billing!End(t, from)
  BY <1>2 DEF Billing!Proceed, Billing!Settle, Billing!Fail, Billing!WriteTrial, Billing!InsertBill,
              Billing!FlagMismatch, Billing!AlreadyCredited, Billing!RejectCancelled,
              Billing!CloseUnpaid, Billing!NothingToDo
<1>3. ASSUME NEW t \in Request, Billing!ReadForTrial(t)
      PROVE  trail' = trail /\ \A p \in Pidx : MayCredit(p)' \subseteq MayCredit(p)
  <2> DEFINE h == [held[t] EXCEPT !.day = today]
  <2>1. at' = [at EXCEPT ![t] = "trial"] /\ held' = [held EXCEPT ![t] = h] /\ trail' = trail
    BY <1>3 DEF Billing!ReadForTrial, Billing!Goto
  <2>2. "trial" \notin Settling
    BY DEF Settling
  <2> HIDE DEF h
  <2> QED BY <2>1, <2>2, NobodyNew
<1>4. ASSUME NEW t \in Request, NEW q \in Pidx, NEW agrees \in BOOLEAN,
             Billing!InitiateAtGateway(t, q, agrees)
      PROVE  trail' = trail /\ \A p \in Pidx : MayCredit(p)' \subseteq MayCredit(p)
  <2>1. at' = [at EXCEPT ![t] = "insert"] /\ held' = [held EXCEPT ![t] = Billing!Idle(q)] /\ trail' = trail
    BY <1>4 DEF Billing!InitiateAtGateway, Billing!Goto
  <2>2. "insert" \notin Settling
    BY DEF Settling
  <2> QED BY <2>1, <2>2, NobodyNew
<1>5. ASSUME NEW t \in Request, Billing!LookupPayment(t)
      PROVE  trail' = trail /\ \A p \in Pidx : MayCredit(p)' \subseteq MayCredit(p)
  <2> DEFINE a == billing[held[t].pidx]
             h == [held[t] EXCEPT !.answer = a]
  <2>1. /\ at[t] = "lookup" /\ at' = [at EXCEPT ![t] = "settle"]
        /\ held' = [held EXCEPT ![t] = h] /\ trail' = trail
    BY <1>5 DEF Billing!LookupPayment, Billing!Goto
  <2>2. held[t] \in Billing!Held
    BY BillFields
  <2>3. h.pidx = held[t].pidx /\ h.bill = held[t].bill
    <3> HIDE DEF a
    <3> QED BY <2>2 DEF Billing!Held
  <2>4. at[t] \in Settling
    BY <2>1 DEF Settling
  <2> HIDE DEF h
  <2> QED BY <2>1, <2>3, <2>4, NobodyNew
<1>6. ASSUME NEW t \in Request, Billing!LoadSubscription(t)
      PROVE  trail' = trail /\ \A p \in Pidx : MayCredit(p)' \subseteq MayCredit(p)
  <2> DEFINE s == IF sub.status = "absent"
                    THEN [Billing!NoSub EXCEPT !.status = "trial", !.periodEnd = held[t].day]
                    ELSE sub
             h == [held[t] EXCEPT !.prior = s]
  <2>1. held' = [held EXCEPT ![t] = h]
    BY <1>6 DEF Billing!LoadSubscription
  <2> HIDE DEF s
  <2>2. at[t] = "settle" /\ at' = [at EXCEPT ![t] = "credit"] /\ trail' = trail
    BY <1>6 DEF Billing!LoadSubscription, Billing!Goto
  <2>3. held[t] \in Billing!Held
    BY BillFields
  <2>4. h.pidx = held[t].pidx /\ h.bill = held[t].bill
    BY <2>3 DEF Billing!Held
  <2>5. at[t] \in Settling
    BY <2>2 DEF Settling
  <2> HIDE DEF h
  <2> QED BY <2>1, <2>2, <2>4, <2>5, NobodyNew
<1>7. ASSUME UNCHANGED <<trail, at, held>>
      PROVE  trail' = trail /\ \A p \in Pidx : MayCredit(p)' \subseteq MayCredit(p)
  BY <1>7 DEF MayCredit, Billing!Credited
<1>8. CASE Billing!Cancel \/ Billing!Tick \/ \E q \in Pidx : Billing!GatewayStep(q)
  BY <1>7, <1>8 DEF Billing!Cancel, Billing!Tick, Billing!GatewayStep, Billing!requestVars
<1>9. CASE \E d \in Dunners : Billing!DunningPass(d)
  BY <1>7, <1>9 DEF Billing!DunningPass, Billing!ReadSubscriptions, Billing!Reconcile, Billing!SendNudge,
                    Billing!RecordLatch, Billing!PassFails, Billing!dunRest, Billing!requestVars
<1>10. ASSUME NEW t \in Request, Billing!Proceed(t) \/ Billing!Fail(t)
       PROVE  trail' = trail /\ \A p \in Pidx : MayCredit(p)' \subseteq MayCredit(p)
  BY <1>1, <1>2, <1>5, <1>6, <1>10
<1> QED BY <1>3, <1>4, <1>8, <1>9, <1>10 DEF Billing!Next

LEMMA MayCreditFinite ==
  ASSUME IsFiniteSet(Request), NEW p \in Pidx
  PROVE  IsFiniteSet(MayCredit(p)) /\ Cardinality(MayCredit(p)) \in Nat
BY FS_Subset, FS_CardinalityType DEF MayCredit

LEMMA ExtensionsFinite ==
  ASSUME IsFiniteSet(trail), NEW p \in Pidx
  PROVE  IsFiniteSet(Billing!Extensions(p)) /\ Cardinality(Billing!Extensions(p)) \in Nat
BY FS_Subset, FS_CardinalityType DEF Billing!Extensions

LEMMA InFlightFinite ==
  ASSUME IsFiniteSet(Request)
  PROVE  IsFiniteSet(InFlight) /\ Cardinality(InFlight) \in Nat
BY FS_Subset, FS_CardinalityType DEF InFlight

LEMMA OneMore ==
  ASSUME NEW S, NEW x, IsFiniteSet(S)
  PROVE  Cardinality(S \cup {x}) <= Cardinality(S) + 1 /\ Cardinality(S \cup {x}) \in Nat
<1>1. IsFiniteSet(S \cup {x}) /\ Cardinality(S) \in Nat
  BY FS_AddElement, FS_CardinalityType
<1>2. Cardinality(S \cup {x}) = Cardinality(S) \/ Cardinality(S \cup {x}) = Cardinality(S) + 1
  BY FS_AddElement
<1> QED BY <1>1, <1>2

\* The credit: the request leaves those that may, and the period is extended once more.
LEMMA CreditCounts ==
  ASSUME BillingInv, ExtensionsBound, IsFiniteSet(Request), NEW t \in Request, Billing!Credit(t),
         NEW p \in Pidx
  PROVE  Cardinality(Billing!Extensions(p)') + Cardinality(MayCredit(p)')
           <= Cardinality(Billing!Extensions(p)) + Cardinality(MayCredit(p))
<1> DEFINE q == held[t].pidx
           entry == [pidx |-> q, periodEnd |-> Billing!Renew(held[t].prior, held[t].day).periodEnd]
<1>1. /\ at[t] = "credit" /\ at' = [at EXCEPT ![t] = "idle"]
      /\ held' = [held EXCEPT ![t] = Billing!NoRequest]
      /\ trail' = trail \cup {entry}
  BY DEF Billing!Credit, Billing!End, Billing!Goto
<1>2. entry.pidx = q
  OBVIOUS
<1> HIDE DEF q, entry
<1>3. "idle" \notin Settling /\ "credit" \in Settling
  BY DEF Settling
<1>4. at \in [Request -> Billing!RequestState] /\ held \in [Request -> Billing!Held] /\ Billing!TypeOK
  BY DEF BillingInv, Billing!TypeOK
<1>5. MayCredit(p)' \subseteq MayCredit(p)
  BY <1>1, <1>3, <1>4, NobodyNew
<1>6. /\ IsFiniteSet(MayCredit(p)) /\ Cardinality(MayCredit(p)) \in Nat
      /\ IsFiniteSet(Billing!Extensions(p)) /\ Cardinality(Billing!Extensions(p)) \in Nat
  BY MayCreditFinite, ExtensionsFinite DEF ExtensionsBound
<1>7. CASE p # q
  <2>1. Billing!Extensions(p)' = Billing!Extensions(p)
    BY <1>1, <1>2, <1>7 DEF Billing!Extensions
  <2>2. Cardinality(MayCredit(p)') <= Cardinality(MayCredit(p)) /\ Cardinality(MayCredit(p)') \in Nat
    BY <1>5, <1>6, FS_Subset, FS_CardinalityType
  <2> QED BY <1>6, <2>1, <2>2
<1>8. CASE p = q
  <2>1. t \in MayCredit(p)
    <3>1. ~Billing!Credited(held[t].bill)
      BY <1>1 DEF BillingInv, MoneySound, AnswersSound
    <3> QED BY <1>1, <1>3, <1>8, <3>1 DEF MayCredit, q
  <2>2. t \notin MayCredit(p)'
    BY <1>1, <1>3, <1>4 DEF MayCredit
  <2>3. MayCredit(p)' \subseteq MayCredit(p) \ {t}
    BY <1>5, <2>2
  <2>4. /\ Cardinality(MayCredit(p) \ {t}) = Cardinality(MayCredit(p)) - 1
        /\ IsFiniteSet(MayCredit(p) \ {t})
    BY <1>6, <2>1, FS_RemoveElement
  <2>5. /\ Cardinality(MayCredit(p)') <= Cardinality(MayCredit(p)) - 1
        /\ Cardinality(MayCredit(p)') \in Nat
    BY <2>3, <2>4, FS_Subset, FS_CardinalityType
  <2>6. Billing!Extensions(p)' = Billing!Extensions(p) \cup {entry}
    BY <1>1, <1>2, <1>8 DEF Billing!Extensions
  <2>7. /\ Cardinality(Billing!Extensions(p) \cup {entry}) <= Cardinality(Billing!Extensions(p)) + 1
        /\ Cardinality(Billing!Extensions(p) \cup {entry}) \in Nat
    BY <1>6, OneMore
  <2> QED BY <1>6, <2>5, <2>6, <2>7
<1> QED BY <1>7, <1>8

\* Reading a row counts only before anybody extended for it.
LEMMA ReadingCounts ==
  ASSUME BillingInv, ExtensionsBound, IsFiniteSet(Request), NEW t \in Request, NEW q \in Pidx,
         Billing!ReadBill(t, q), NEW p \in Pidx, MayCredit(p)' \subseteq InFlight
  PROVE  /\ trail' = trail
         /\ Cardinality(Billing!Extensions(p)') + Cardinality(MayCredit(p)') <= Cardinality(InFlight)
<1> DEFINE i == Billing!Idle(q)
           h == [i EXCEPT !.bill = bills[q], !.day = today]
<1>1. /\ at[t] = "idle" /\ at' = [at EXCEPT ![t] = "lookup"]
      /\ held' = [held EXCEPT ![t] = h] /\ trail' = trail
  BY DEF Billing!ReadBill, Billing!Goto
<1>2. h.pidx = q /\ h.bill = bills[q]
  <2>1. i \in Billing!Held /\ i.pidx = q
    BY First
  <2> HIDE DEF i
  <2> QED BY <2>1 DEF Billing!Held
<1> HIDE DEF h
<1>3. at \in [Request -> Billing!RequestState] /\ held \in [Request -> Billing!Held]
  BY DEF BillingInv, Billing!TypeOK
<1>4. "idle" \notin Settling /\ "lookup" \in Settling
  BY DEF Settling
<1>5. Billing!Extensions(p)' = Billing!Extensions(p)
  BY <1>1 DEF Billing!Extensions
<1>6. /\ IsFiniteSet(MayCredit(p)) /\ Cardinality(MayCredit(p)) \in Nat
      /\ IsFiniteSet(Billing!Extensions(p)) /\ Cardinality(Billing!Extensions(p)) \in Nat
      /\ IsFiniteSet(InFlight) /\ Cardinality(InFlight) \in Nat
  BY MayCreditFinite, ExtensionsFinite, InFlightFinite DEF ExtensionsBound
<1>7. CASE bills[p].status = "completed" \/ p # q
  <2>1. p = q => Billing!Credited(h.bill)
    BY <1>2, <1>7 DEF BillingInv, MoneySound, BillsKnown, Billing!Credited
  <2>2. MayCredit(p)' \subseteq MayCredit(p)
    <3>1. ASSUME NEW u \in Request, at'[u] \in Settling, held'[u].pidx = p,
                 ~Billing!Credited(held'[u].bill)
          PROVE  at[u] \in Settling /\ held[u].pidx = p /\ ~Billing!Credited(held[u].bill)
      <4>1. u # t
        BY <1>1, <1>2, <1>3, <2>1, <3>1
      <4> QED BY <1>1, <1>3, <3>1, <4>1
    <3> QED BY <3>1 DEF MayCredit, Billing!Credited
  <2>3. Cardinality(MayCredit(p)') <= Cardinality(MayCredit(p)) /\ Cardinality(MayCredit(p)') \in Nat
    BY <1>6, <2>2, FS_Subset, FS_CardinalityType
  <2>4. Cardinality(Billing!Extensions(p)) + Cardinality(MayCredit(p)) <= Cardinality(InFlight)
    BY DEF ExtensionsBound
  <2> QED BY <1>1, <1>5, <1>6, <2>3, <2>4
<1>8. CASE bills[p].status # "completed"
  <2>1. Billing!Extensions(p) = {}
    BY <1>8 DEF BillingInv, MoneySound, TrailSound, Billing!Extensions
  <2>2. Cardinality(Billing!Extensions(p)) = 0
    BY <2>1, FS_EmptySet
  <2>3. Cardinality(MayCredit(p)') <= Cardinality(InFlight) /\ Cardinality(MayCredit(p)') \in Nat
    BY <1>6, FS_Subset, FS_CardinalityType
  <2> QED BY <1>1, <1>5, <1>6, <2>2, <2>3
<1> QED BY <1>7, <1>8

LEMMA BoundSteps ==
  ASSUME BillingInv, ExtensionsBound, IsFiniteSet(Request), [MCNext]_allVars
  PROVE  ExtensionsBound'
<1>1. InFlight' = InFlight /\ part' = part
  BY DEF InFlight, MCNext, allVars
<1>2. CASE UNCHANGED billingVars
  <2>1. trail' = trail /\ at' = at /\ held' = held
    BY <1>2 DEF billingVars
  <2>2. \A p \in Pidx : Billing!Extensions(p)' = Billing!Extensions(p) /\ MayCredit(p)' = MayCredit(p)
    BY <2>1 DEF Billing!Extensions, MayCredit, Billing!Credited
  <2> QED BY <1>1, <2>1, <2>2 DEF ExtensionsBound
<1>3. CASE Billing!Next /\ Followed
  <2>1. part' = "cycle" => \A t \in Request \ OneRequest : at'[t] = "idle"
    BY <1>1, <1>3 DEF Followed
  <2>2. \A p \in Pidx : MayCredit(p)' \subseteq InFlight
    <3>1. "idle" \notin Settling
      BY DEF Settling
    <3> QED BY <1>1, <2>1, <3>1 DEF MayCredit, InFlight
  <2>3. \A p \in Pidx : /\ Cardinality(MayCredit(p)) \in Nat
                        /\ Cardinality(Billing!Extensions(p)) \in Nat
                        /\ IsFiniteSet(MayCredit(p))
    BY MayCreditFinite, ExtensionsFinite DEF ExtensionsBound
  <2>4. IsFiniteSet(trail')
        /\ \A p \in Pidx :
             Cardinality(Billing!Extensions(p)') + Cardinality(MayCredit(p)') <= Cardinality(InFlight)
    <3>1. ASSUME NEW t \in Request, Billing!Credit(t)
          PROVE  /\ IsFiniteSet(trail')
                 /\ \A p \in Pidx :
                      Cardinality(Billing!Extensions(p)') + Cardinality(MayCredit(p)') <= Cardinality(InFlight)
      <4>1. PICK e : trail' = trail \cup {e}
        BY <3>1 DEF Billing!Credit
      <4>2. IsFiniteSet(trail')
        BY <4>1, FS_AddElement DEF ExtensionsBound
      <4>3. ASSUME NEW p \in Pidx
            PROVE  Cardinality(Billing!Extensions(p)') + Cardinality(MayCredit(p)') <= Cardinality(InFlight)
        <5>1. MayCredit(p)' \subseteq Request
          BY DEF MayCredit
        <5>2. IsFiniteSet(Billing!Extensions(p)')
          BY <4>2, FS_Subset DEF Billing!Extensions
        <5>3. Cardinality(MayCredit(p)') \in Nat /\ Cardinality(Billing!Extensions(p)') \in Nat
          BY <5>1, <5>2, FS_Subset, FS_CardinalityType
        <5>4. Cardinality(Billing!Extensions(p)') + Cardinality(MayCredit(p)')
                <= Cardinality(Billing!Extensions(p)) + Cardinality(MayCredit(p))
          BY <3>1, CreditCounts
        <5>5. Cardinality(Billing!Extensions(p)) + Cardinality(MayCredit(p)) <= Cardinality(InFlight)
          BY DEF ExtensionsBound
        <5> QED BY <2>3, <5>3, <5>4, <5>5, InFlightFinite
      <4> QED BY <4>2, <4>3
    <3>2. ASSUME NEW t \in Request, NEW q \in Pidx, Billing!ReadBill(t, q)
          PROVE  /\ IsFiniteSet(trail')
                 /\ \A p \in Pidx :
                      Cardinality(Billing!Extensions(p)') + Cardinality(MayCredit(p)') <= Cardinality(InFlight)
      BY <2>2, <3>2, ReadingCounts DEF ExtensionsBound
    <3>3. CASE ~(\E t \in Request : Billing!Credit(t)) /\ ~(\E t \in Request, q \in Pidx : Billing!ReadBill(t, q))
      <4>1. trail' = trail /\ \A p \in Pidx : MayCredit(p)' \subseteq MayCredit(p)
        BY <1>3, <3>3, QuietSteps DEF BillingInv
      <4>2. ASSUME NEW p \in Pidx
            PROVE  Cardinality(Billing!Extensions(p)') + Cardinality(MayCredit(p)') <= Cardinality(InFlight)
        <5>1. Billing!Extensions(p)' = Billing!Extensions(p)
          BY <4>1 DEF Billing!Extensions
        <5>2. MayCredit(p)' \subseteq MayCredit(p)
          BY <4>1
        <5>3. Cardinality(MayCredit(p)') <= Cardinality(MayCredit(p)) /\ Cardinality(MayCredit(p)') \in Nat
          BY <2>3, <5>2, FS_Subset, FS_CardinalityType
        <5>4. Cardinality(Billing!Extensions(p)) + Cardinality(MayCredit(p)) <= Cardinality(InFlight)
          BY DEF ExtensionsBound
        <5> QED BY <2>3, <5>1, <5>3, <5>4, InFlightFinite
      <4> QED BY <4>1, <4>2 DEF ExtensionsBound
    <3> QED BY <3>1, <3>2, <3>3
  <2> QED BY <1>1, <2>1, <2>4 DEF ExtensionsBound
<1> QED BY <1>2, <1>3 DEF MCNext, allVars

\* The period is extended only for money the gateway collected in the right amount, a
\* completed payment names a period the trail bought for it, a receipt is queued exactly
\* when the period was extended, and one payment extends it at most as often as there
\* are requests in flight together: replays of the callback and of verify buy nothing.
THEOREM CreditIsBacked ==
  ASSUME IsFiniteSet(Request)
  PROVE  MCSpec => []CreditBacked
<1>1. MCInit => ExtensionsBound
  <2> SUFFICES ASSUME MCInit
      PROVE  ExtensionsBound
    OBVIOUS
  <2>1. trail = {} /\ \A t \in Request : at[t] = "idle"
    BY DEF MCInit, Billing!Init
  <2>2. \A p \in Pidx : Billing!Extensions(p) = {} /\ MayCredit(p) = {}
    BY <2>1 DEF Billing!Extensions, MayCredit, Settling
  <2>3. Cardinality({}) = 0 /\ IsFiniteSet({})
    BY FS_EmptySet
  <2>4. Cardinality(InFlight) \in Nat
    BY InFlightFinite
  <2> QED BY <2>1, <2>2, <2>3, <2>4, OneAssumption DEF ExtensionsBound
<1>2. BillingInv /\ ExtensionsBound /\ [MCNext]_allVars => ExtensionsBound'
  BY BoundSteps
<1>3. BillingInv /\ ExtensionsBound => CreditBacked
  <2> SUFFICES ASSUME BillingInv, ExtensionsBound
      PROVE  CreditBacked
    OBVIOUS
  <2>1. \A p \in Pidx : Cardinality(Billing!Extensions(p)) <= Cardinality(InFlight)
    <3> SUFFICES ASSUME NEW p \in Pidx
        PROVE  Cardinality(Billing!Extensions(p)) <= Cardinality(InFlight)
      OBVIOUS
    <3>1. Cardinality(Billing!Extensions(p)) + Cardinality(MayCredit(p)) <= Cardinality(InFlight)
      BY DEF ExtensionsBound
    <3>2. IsFiniteSet(trail)
      BY DEF ExtensionsBound
    <3> QED BY <3>1, <3>2, MayCreditFinite, ExtensionsFinite, InFlightFinite
  <2>2. \A S : Billing!Cardinality(S) = Cardinality(S)
    BY DEF Billing!Cardinality, Cardinality
  <2>3. part = "cycle" => Billing!ExtensionsOnlyByOverlap(OneRequest)
    BY <2>1, <2>2 DEF Billing!ExtensionsOnlyByOverlap, InFlight
  <2>4. part = "overlap" => Billing!ExtensionsOnlyByOverlap(Request)
    BY <2>1, <2>2 DEF Billing!ExtensionsOnlyByOverlap, InFlight
  <2> QED BY <2>3, <2>4 DEF CreditBacked, BillingInv, MoneySound
<1> QED BY <1>1, <1>2, <1>3, BillingInvariant, PTL DEF MCSpec
-------------------------------------------------------------------------------
(* One request beside one dunning pass: nudges and the days bought *)

\* What the request and the pass read is what they write over: with one of each, the
\* period and the latch only move under their own writer.
CycleInv ==
  part = "cycle" =>
    /\ \A t \in Request \ OneRequest : at[t] = "idle"
    /\ sub.status = "absent" => sub.periodEnd = 0
    /\ \A t \in Request :
         /\ at[t] = "trial" => sub.status = "absent"
         /\ at[t] = "credit" /\ sub.status # "absent" => held[t].prior.periodEnd = sub.periodEnd
    /\ \A d \in Dunners :
         /\ dpc[d] # "idle" => dun[d].day <= today /\ sub.status # "absent"
         /\ dpc[d] \in {"reconcile", "send"} =>
              sub.lastStage = dun[d].row.lastStage /\ sub.lastFor = dun[d].row.lastFor
         /\ dpc[d] = "send" => ~Billing!Latched(dun[d].row, dun[d].day)
    /\ Billing!NudgesNotEarly

OneAtATime ==
  /\ \A t, u \in OneRequest : t = u
  /\ \A c, d \in Dunners : c = d

\* A nudge is due only once its day has come.
LEMMA DueInTime ==
  ASSUME NEW s \in Billing!Sub, NEW day \in Nat
  PROVE  /\ Billing!StageDue(s, day) = "expired" => day > s.periodEnd
         /\ Billing!StageDue(s, day) = "suspended" => day > s.periodEnd + GraceDays
         /\ Billing!StageDue(s, day) = "renewal_due_soon" => day + NudgeDays >= s.periodEnd
<1>1. s.status \in Billing!SubStatus /\ s.periodEnd \in Nat
  BY DEF Billing!Sub
<1>2. /\ Billing!ProjectStatus(s, day) = "past_due" => day > s.periodEnd
      /\ Billing!ProjectStatus(s, day) = "suspended" => day > s.periodEnd + GraceDays
  BY <1>1 DEF Billing!ProjectStatus, Billing!SubStatus
<1> QED BY <1>1, <1>2, Projected DEF Billing!StageDue

\* What the renewal adds to the period the request read.
LEMMA RenewAdds ==
  ASSUME NEW s \in Billing!Sub, NEW day \in Nat
  PROVE  Billing!Renew(s, day).periodEnd >= s.periodEnd + MonthDays
<1> DEFINE end == (IF s.periodEnd > day THEN s.periodEnd ELSE day) + MonthDays
<1>1. s.periodEnd \in Nat
  BY DEF Billing!Sub
<1>2. end >= s.periodEnd + MonthDays
  BY <1>1
<1>3. Billing!Renew(s, day) = [s EXCEPT !.status = "active", !.periodEnd = end]
  BY DEF Billing!Renew, Billing!Sub
<1> HIDE DEF end
<1> QED BY <1>2, <1>3 DEF Billing!Sub

\* Only the trial and the credit of a request change the period, only the latch of a
\* pass changes the latch, and a row that is there stays.
LEMMA Upserts ==
  ASSUME BillingInv, NEW next, sub' = Billing!Upsert(next)
  PROVE  /\ sub'.status = next.status /\ sub'.periodEnd = next.periodEnd
         /\ sub'.lastStage = sub.lastStage /\ sub'.lastFor = sub.lastFor
<1> DEFINE status == next.status
           end == next.periodEnd
<1>1. sub \in Billing!Sub /\ sub' = [sub EXCEPT !.status = status, !.periodEnd = end]
  BY BillFields DEF BillingInv, Billing!Upsert
<1>2. sub'.status = status /\ sub'.periodEnd = end
  <2> HIDE DEF status, end
  <2> QED BY <1>1 DEF Billing!Sub
<1>3. sub'.lastStage = sub.lastStage /\ sub'.lastFor = sub.lastFor
  <2> HIDE DEF status, end
  <2> QED BY <1>1 DEF Billing!Sub
<1> QED BY <1>2, <1>3

LEMMA CreditExtends ==
  ASSUME BillingInv, CycleInv, part = "cycle", NEW t \in Request, Billing!Credit(t)
  PROVE  /\ sub'.status = "active"
         /\ sub'.lastStage = sub.lastStage /\ sub'.lastFor = sub.lastFor
         /\ sub'.periodEnd \in Nat /\ sub'.periodEnd >= sub.periodEnd
         /\ sub.status # "absent" => sub'.periodEnd >= sub.periodEnd + MonthDays
<1> DEFINE next == Billing!Renew(held[t].prior, held[t].day)
<1>1. sub' = Billing!Upsert(next) /\ at[t] = "credit"
  BY DEF Billing!Credit, Billing!End, Billing!Goto
<1>2. /\ held[t].prior \in Billing!Sub /\ held[t].day \in Nat
      /\ sub \in Billing!Sub
  BY BillFields DEF BillingInv
<1>3. next.status = "active" /\ next.periodEnd \in Nat /\ next.periodEnd >= held[t].prior.periodEnd + MonthDays
  BY <1>2, RenewEnds, RenewAdds
<1> HIDE DEF next
<1>4. /\ sub'.status = "active" /\ sub'.periodEnd = next.periodEnd
      /\ sub'.lastStage = sub.lastStage /\ sub'.lastFor = sub.lastFor
  BY <1>1, <1>3, Upserts
<1>5. held[t].prior.periodEnd \in Nat /\ sub.periodEnd \in Nat
  BY <1>2 DEF Billing!Sub
<1>6. sub.status = "absent" => sub.periodEnd = 0
  BY DEF CycleInv
<1>7. sub.status # "absent" => held[t].prior.periodEnd = sub.periodEnd
  BY <1>1 DEF CycleInv
<1>8. sub.status # "absent" => sub'.periodEnd >= sub.periodEnd + MonthDays
  BY <1>3, <1>4, <1>7
<1> QED BY <1>3, <1>4, <1>5, <1>6, <1>8

\* The calendar only makes a nudge later.
LEMMA NudgesAge ==
  ASSUME BillingInv, Billing!NudgesNotEarly, sent' = sent, today' \in Nat, today' >= today
  PROVE  (Billing!NudgesNotEarly)'
<1>1. /\ sent \subseteq [stage: Billing!Stage, periodEnd: Nat] /\ today \in Nat
  BY BillFields DEF BillingInv, Billing!TypeOK
<1>2. ASSUME NEW n \in sent
      PROVE  /\ n.stage = "expired" => today' > n.periodEnd
             /\ n.stage = "suspended" => today' > n.periodEnd + GraceDays
             /\ n.stage = "renewal_due_soon" => today' + NudgeDays >= n.periodEnd
  <2>1. n.periodEnd \in Nat
    BY <1>1
  <2>2. /\ n.stage = "expired" => today > n.periodEnd
        /\ n.stage = "suspended" => today > n.periodEnd + GraceDays
        /\ n.stage = "renewal_due_soon" => today + NudgeDays >= n.periodEnd
    BY DEF Billing!NudgesNotEarly
  <2> QED BY <1>1, <2>1, <2>2
<1>3. \A n \in sent : n.stage \in {"renewal_due_soon", "expired", "suspended"}
  BY <1>1 DEF Billing!Stage
<1> QED BY <1>2, <1>3 DEF Billing!NudgesNotEarly

\* A pass sends the nudge that was due on the day of its snapshot.
LEMMA NudgesSent ==
  ASSUME BillingInv, CycleInv, part = "cycle", NEW d \in Dunners, Billing!SendNudge(d)
  PROVE  (Billing!NudgesNotEarly)'
<1> DEFINE row == dun[d].row
           day == dun[d].day
           stage == Billing!StageDue(row, day)
           end == row.periodEnd
           n == [stage |-> stage, periodEnd |-> end]
<1>1. /\ sent \subseteq [stage: Billing!Stage, periodEnd: Nat] /\ today \in Nat
      /\ row \in Billing!Sub /\ day \in Nat
  BY BillFields DEF BillingInv, Billing!TypeOK
<1>2. dpc[d] = "send" /\ today' = today /\ sent' = sent \cup {n}
  BY DEF Billing!SendNudge, Billing!DunStep, Billing!dunRest, Billing!Nudge
<1>3. day <= today /\ Billing!NudgesNotEarly
  BY <1>2 DEF CycleInv
<1>4. end \in Nat
  BY <1>1 DEF Billing!Sub
<1>5. stage \in {"renewal_due_soon", "expired", "suspended"}
  BY <1>2 DEF BillingInv, NudgesSound, Billing!Stage
<1>6. /\ stage = "expired" => day > end
      /\ stage = "suspended" => day > end + GraceDays
      /\ stage = "renewal_due_soon" => day + NudgeDays >= end
  BY <1>1, DueInTime
<1> HIDE DEF row, day, stage, end
<1>7. /\ stage = "expired" => today > end
      /\ stage = "suspended" => today > end + GraceDays
      /\ stage = "renewal_due_soon" => today + NudgeDays >= end
  BY <1>1, <1>3, <1>4, <1>6
<1>8. \A m \in sent : m.stage \in {"renewal_due_soon", "expired", "suspended"}
  BY <1>1 DEF Billing!Stage
<1>9. n.stage = stage /\ n.periodEnd = end
  OBVIOUS
<1> HIDE DEF n
<1>10. ASSUME NEW m \in sent'
       PROVE  CASE m.stage = "expired"          -> today > m.periodEnd
                [] m.stage = "suspended"        -> today > m.periodEnd + GraceDays
                [] m.stage = "renewal_due_soon" -> today + NudgeDays >= m.periodEnd
  <2>1. CASE m = n
    BY <1>5, <1>7, <1>9, <2>1
  <2>2. CASE m \in sent
    BY <1>3, <2>2 DEF Billing!NudgesNotEarly
  <2> QED BY <1>2, <2>1, <2>2
<1> QED BY <1>2, <1>10 DEF Billing!NudgesNotEarly

\* A step of the one request.
LEMMA RequestCycles ==
  ASSUME BillingInv, CycleInv, OneAtATime, part = "cycle", NEW t \in Request, NEW to, NEW h,
         at' = [at EXCEPT ![t] = to], held' = [held EXCEPT ![t] = h],
         UNCHANGED <<part, today, sent, dpc, dun>>,
         at[t] # "idle" \/ to # "idle",
         \A u \in Request \ OneRequest : at'[u] = "idle",
         sub.status # "absent" => sub'.status # "absent",
         sub'.status = "absent" => sub'.periodEnd = 0,
         sub'.lastStage = sub.lastStage, sub'.lastFor = sub.lastFor,
         to = "trial" => sub'.status = "absent",
         to = "credit" /\ sub'.status # "absent" => h.prior.periodEnd = sub'.periodEnd
  PROVE  CycleInv'
<1>1. at \in [Request -> Billing!RequestState] /\ held \in [Request -> Billing!Held]
  BY DEF BillingInv, Billing!TypeOK
<1>2. /\ at'[t] = to /\ held'[t] = h
      /\ \A u \in Request \ {t} : at'[u] = at[u]
  BY <1>1
<1>3. t \in OneRequest
  BY <1>2 DEF CycleInv
<1>4. \A u \in Request \ {t} : at'[u] = "idle"
  BY <1>3 DEF OneAtATime
<1>5. \A u \in Request :
        /\ at'[u] = "trial" => sub'.status = "absent"
        /\ at'[u] = "credit" /\ sub'.status # "absent" => held'[u].prior.periodEnd = sub'.periodEnd
  BY <1>2, <1>4
<1>6. (Billing!NudgesNotEarly)'
  <2>1. today' \in Nat /\ today' >= today /\ Billing!NudgesNotEarly
    BY BillFields DEF BillingInv, CycleInv
  <2> QED BY <2>1, NudgesAge
<1>7. \A d \in Dunners :
        /\ dpc'[d] # "idle" => dun'[d].day <= today' /\ sub'.status # "absent"
        /\ dpc'[d] \in {"reconcile", "send"} =>
             sub'.lastStage = dun'[d].row.lastStage /\ sub'.lastFor = dun'[d].row.lastFor
        /\ dpc'[d] = "send" => ~Billing!Latched(dun'[d].row, dun'[d].day)
  BY DEF CycleInv
<1> QED BY <1>5, <1>6, <1>7 DEF CycleInv

LEMMA PassCycles ==
  ASSUME BillingInv, CycleInv, OneAtATime, part = "cycle", NEW d \in Dunners, NEW to, NEW s,
         dpc' = [dpc EXCEPT ![d] = to], dun' = [dun EXCEPT ![d] = s],
         UNCHANGED <<part, today, at, held>>,
         sub.status # "absent", sub'.status # "absent", sub'.periodEnd = sub.periodEnd,
         (Billing!NudgesNotEarly)',
         to # "idle" => s.day <= today,
         to \in {"reconcile", "send"} => sub'.lastStage = s.row.lastStage /\ sub'.lastFor = s.row.lastFor,
         to = "send" => ~Billing!Latched(s.row, s.day)
  PROVE  CycleInv'
<1>1. dpc \in [Dunners -> Billing!DunnerState] /\ dun \in [Dunners -> Billing!Snapshot]
  BY DEF BillingInv, Billing!TypeOK
<1>2. dpc'[d] = to /\ dun'[d] = s
  BY <1>1
<1>3. \A c \in Dunners :
        /\ dpc'[c] # "idle" => dun'[c].day <= today' /\ sub'.status # "absent"
        /\ dpc'[c] \in {"reconcile", "send"} =>
             sub'.lastStage = dun'[c].row.lastStage /\ sub'.lastFor = dun'[c].row.lastFor
        /\ dpc'[c] = "send" => ~Billing!Latched(dun'[c].row, dun'[c].day)
  <2> SUFFICES ASSUME NEW c \in Dunners
      PROVE  /\ dpc'[c] # "idle" => dun'[c].day <= today' /\ sub'.status # "absent"
             /\ dpc'[c] \in {"reconcile", "send"} =>
                  sub'.lastStage = dun'[c].row.lastStage /\ sub'.lastFor = dun'[c].row.lastFor
             /\ dpc'[c] = "send" => ~Billing!Latched(dun'[c].row, dun'[c].day)
    OBVIOUS
  <2>1. c = d
    BY DEF OneAtATime
  <2> QED BY <1>2, <2>1
<1>4. \A t \in Request :
        /\ at'[t] = "trial" => sub'.status = "absent"
        /\ at'[t] = "credit" /\ sub'.status # "absent" => held'[t].prior.periodEnd = sub'.periodEnd
  BY DEF CycleInv
<1>5. \A t \in Request \ OneRequest : at'[t] = "idle"
  BY DEF CycleInv
<1> QED BY <1>3, <1>4, <1>5 DEF CycleInv

LEMMA ReadBillLeaves ==
  ASSUME NEW t \in Request, NEW q \in Pidx, Billing!ReadBill(t, q)
  PROVE  /\ at' = [at EXCEPT ![t] = "lookup"] /\ \E h : held' = [held EXCEPT ![t] = h]
         /\ sub' = sub /\ UNCHANGED <<today, sent, dpc, dun>>
<1> DEFINE i == Billing!Idle(q)
           h == [i EXCEPT !.bill = bills[q], !.day = today]
<1>1. at' = [at EXCEPT ![t] = "lookup"] /\ held' = [held EXCEPT ![t] = h]
  BY DEF Billing!ReadBill, Billing!Goto
<1> HIDE DEF h
<1>2. sub' = sub /\ UNCHANGED <<today, sent, dpc, dun>>
  BY DEF Billing!ReadBill, Billing!dunVars
<1> QED BY <1>1, <1>2

LEMMA FlagsLeave ==
  ASSUME NEW t \in Request, Billing!FlagMismatch(t)
  PROVE  Billing!End(t, "settle") /\ sub' = sub /\ UNCHANGED <<today, sent, dpc, dun>>
<1>1. Billing!End(t, "settle")
  BY DEF Billing!FlagMismatch
<1>2. sub' = sub /\ UNCHANGED <<today, sent, dpc, dun>>
  BY DEF Billing!FlagMismatch, Billing!dunVars
<1> QED BY <1>1, <1>2

LEMMA ClosesLeave ==
  ASSUME NEW t \in Request, Billing!CloseUnpaid(t)
  PROVE  Billing!End(t, "settle") /\ sub' = sub /\ UNCHANGED <<today, sent, dpc, dun>>
<1>1. Billing!End(t, "settle")
  BY Zenon DEF Billing!CloseUnpaid
<1>2. sub' = sub /\ UNCHANGED <<today, sent, dpc, dun>>
  BY Zenon DEF Billing!CloseUnpaid, Billing!dunVars
<1> QED BY <1>1, <1>2

LEMMA RequestInCycle ==
  ASSUME BillingInv, CycleInv, OneAtATime, part = "cycle", part' = part,
         \A u \in Request \ OneRequest : at'[u] = "idle", NEW t \in Request,
         \/ Billing!ReadForTrial(t) \/ Billing!Proceed(t) \/ Billing!Fail(t)
         \/ \E p \in Pidx, agrees \in BOOLEAN : Billing!InitiateAtGateway(t, p, agrees)
         \/ \E p \in Pidx : Billing!ReadBill(t, p)
  PROVE  CycleInv' /\ ((\A u \in Request : ~Billing!Credit(u)) => sub'.periodEnd >= sub.periodEnd)
<1>1. /\ sub \in Billing!Sub /\ sub.periodEnd \in Nat /\ held[t] \in Billing!Held
      /\ held[t].day \in Nat
      /\ sub.status = "absent" => sub.periodEnd = 0
  BY BillFields DEF BillingInv, CycleInv, Billing!Sub
<1>2. ASSUME NEW from, Billing!End(t, from), from # "idle", UNCHANGED <<today, sent, dpc, dun>>,
             sub' = sub
      PROVE  CycleInv'
  <2>1. at[t] # "idle" /\ at' = [at EXCEPT ![t] = "idle"] /\ held' = [held EXCEPT ![t] = Billing!NoRequest]
    BY <1>2 DEF Billing!End, Billing!Goto
  <2> QED BY <1>1, <1>2, <2>1, RequestCycles
<1>3. CASE Billing!ReadForTrial(t)
  <2> DEFINE h == [held[t] EXCEPT !.day = today]
  <2>1. /\ at' = [at EXCEPT ![t] = "trial"] /\ held' = [held EXCEPT ![t] = h] /\ sub.status = "absent"
        /\ sub' = sub /\ UNCHANGED <<today, sent, dpc, dun>>
    BY <1>3 DEF Billing!ReadForTrial, Billing!Goto, Billing!MayStartTrial, Billing!dunVars
  <2> HIDE DEF h
  <2>2. CycleInv'
    BY <1>1, <2>1, RequestCycles
  <2> QED BY <1>1, <2>1, <2>2
<1>4. CASE Billing!WriteTrial(t)
  <2> DEFINE end == held[t].day + TrialDays
             next == [status |-> "trial", periodEnd |-> end]
  <2>1. /\ at[t] = "trial" /\ at' = [at EXCEPT ![t] = "idle"]
        /\ held' = [held EXCEPT ![t] = Billing!NoRequest]
        /\ sub' = Billing!Upsert(next) /\ UNCHANGED <<today, sent, dpc, dun>>
    BY <1>4 DEF Billing!WriteTrial, Billing!End, Billing!Goto, Billing!dunVars
  <2>2. next.status = "trial" /\ next.periodEnd = end /\ end \in Nat
    BY <1>1
  <2> HIDE DEF next, end
  <2>3. /\ sub'.status = "trial" /\ sub'.periodEnd = end
        /\ sub'.lastStage = sub.lastStage /\ sub'.lastFor = sub.lastFor
    BY <2>1, <2>2, Upserts
  <2>4. sub.status = "absent"
    BY <2>1 DEF CycleInv
  <2>5. CycleInv'
    BY <2>1, <2>3, RequestCycles
  <2> QED BY <1>1, <2>2, <2>3, <2>4, <2>5
<1>5. ASSUME NEW q \in Pidx, NEW agrees \in BOOLEAN, Billing!InitiateAtGateway(t, q, agrees)
      PROVE  CycleInv' /\ sub' = sub
  <2>1. /\ at' = [at EXCEPT ![t] = "insert"] /\ held' = [held EXCEPT ![t] = Billing!Idle(q)]
        /\ sub' = sub /\ UNCHANGED <<today, sent, dpc, dun>>
    BY <1>5 DEF Billing!InitiateAtGateway, Billing!Goto, Billing!dunVars
  <2> QED BY <1>1, <2>1, RequestCycles
<1>6. ASSUME NEW q \in Pidx, Billing!ReadBill(t, q)
      PROVE  CycleInv' /\ sub' = sub
  <2>1. /\ at' = [at EXCEPT ![t] = "lookup"] /\ \E h : held' = [held EXCEPT ![t] = h]
        /\ sub' = sub /\ UNCHANGED <<today, sent, dpc, dun>>
    BY <1>6, ReadBillLeaves
  <2>2. PICK h : held' = [held EXCEPT ![t] = h]
    BY <2>1
  <2> QED BY <1>1, <2>1, <2>2, RequestCycles
<1>7. CASE Billing!LookupPayment(t)
  <2> DEFINE a == billing[held[t].pidx]
             h == [held[t] EXCEPT !.answer = a]
  <2>1. /\ at' = [at EXCEPT ![t] = "settle"] /\ held' = [held EXCEPT ![t] = h]
        /\ sub' = sub /\ UNCHANGED <<today, sent, dpc, dun>>
    BY <1>7 DEF Billing!LookupPayment, Billing!Goto, Billing!dunVars
  <2> HIDE DEF h
  <2>2. CycleInv'
    BY <1>1, <2>1, RequestCycles
  <2> QED BY <1>1, <2>1, <2>2
<1>8. CASE Billing!LoadSubscription(t)
  <2> DEFINE s == IF sub.status = "absent"
                    THEN [Billing!NoSub EXCEPT !.status = "trial", !.periodEnd = held[t].day]
                    ELSE sub
             h == [held[t] EXCEPT !.prior = s]
  <2>1. held' = [held EXCEPT ![t] = h]
    BY <1>8 DEF Billing!LoadSubscription
  <2>2. sub.status # "absent" => s = sub
    OBVIOUS
  <2> HIDE DEF s
  <2>3. /\ at' = [at EXCEPT ![t] = "credit"]
        /\ sub' = sub /\ UNCHANGED <<today, sent, dpc, dun>>
    BY <1>8 DEF Billing!LoadSubscription, Billing!Goto, Billing!dunVars
  <2>4. h.prior = s
    BY <1>1 DEF Billing!Held
  <2> HIDE DEF h
  <2>5. CycleInv'
    BY <1>1, <2>1, <2>2, <2>3, <2>4, RequestCycles
  <2> QED BY <1>1, <2>3, <2>5
<1>9. CASE Billing!Credit(t)
  <2>1. /\ at[t] = "credit" /\ at' = [at EXCEPT ![t] = "idle"]
        /\ held' = [held EXCEPT ![t] = Billing!NoRequest] /\ UNCHANGED <<today, sent, dpc, dun>>
    BY <1>9 DEF Billing!Credit, Billing!End, Billing!Goto, Billing!dunVars
  <2>2. /\ sub'.status = "active" /\ sub'.lastStage = sub.lastStage /\ sub'.lastFor = sub.lastFor
    BY <1>9, CreditExtends
  <2>3. CycleInv'
    BY <2>1, <2>2, RequestCycles
  <2> QED BY <1>9, <2>3
<1>10. CASE \/ Billing!FlagMismatch(t) \/ Billing!AlreadyCredited(t) \/ Billing!RejectCancelled(t)
            \/ Billing!CloseUnpaid(t) \/ Billing!NothingToDo(t) \/ Billing!InsertBill(t) \/ Billing!Fail(t)
  <2>1. sub' = sub /\ UNCHANGED <<today, sent, dpc, dun>> /\ \E from : from # "idle" /\ Billing!End(t, from)
    <3>1. CASE Billing!Fail(t)
      BY <3>1 DEF Billing!Fail, Billing!dunVars
    <3>2. CASE \/ Billing!FlagMismatch(t) \/ Billing!AlreadyCredited(t) \/ Billing!CloseUnpaid(t)
               \/ Billing!NothingToDo(t)
      <4>1. "settle" # "idle"
        OBVIOUS
      <4>2. ASSUME Billing!AlreadyCredited(t) \/ Billing!NothingToDo(t)
            PROVE  Billing!End(t, "settle") /\ sub' = sub /\ UNCHANGED <<today, sent, dpc, dun>>
        BY <4>2 DEF Billing!AlreadyCredited, Billing!NothingToDo, Billing!dunVars
      <4> QED BY <3>2, <4>1, <4>2, FlagsLeave, ClosesLeave
    <3>3. CASE Billing!RejectCancelled(t)
      <4>1. "credit" # "idle"
        OBVIOUS
      <4> QED BY <3>3, <4>1 DEF Billing!RejectCancelled, Billing!dunVars
    <3>4. CASE Billing!InsertBill(t)
      <4>1. "insert" # "idle"
        OBVIOUS
      <4> QED BY <3>4, <4>1 DEF Billing!InsertBill, Billing!dunVars
    <3> QED BY <1>10, <3>1, <3>2, <3>3, <3>4
  <2> QED BY <1>1, <1>2, <2>1
<1> QED BY <1>1, <1>3, <1>4, <1>5, <1>6, <1>7, <1>8, <1>9, <1>10
       DEF Billing!Proceed, Billing!Settle

LEMMA PassInCycle ==
  ASSUME BillingInv, CycleInv, OneAtATime, part = "cycle", part' = part,
         NEW d \in Dunners, Billing!DunningPass(d)
  PROVE  CycleInv' /\ sub'.periodEnd = sub.periodEnd
<1> DEFINE row == dun[d].row
           day == dun[d].day
           status == Billing!ProjectStatus(row, day)
<1>1. /\ dun \in [Dunners -> Billing!Snapshot] /\ row \in Billing!Sub /\ day \in Nat
      /\ sub \in Billing!Sub /\ today \in Nat
  BY BillFields DEF BillingInv, Billing!TypeOK
<1>2. status # "absent"
  BY <1>1, Projected
<1>3. Billing!NudgesNotEarly
  BY DEF CycleInv
<1>4. sent' = sent /\ today' = today => (Billing!NudgesNotEarly)'
  BY <1>1, <1>3, NudgesAge
<1>5. UNCHANGED <<today, at, held>>
  BY DEF Billing!DunningPass, Billing!ReadSubscriptions, Billing!Reconcile, Billing!SendNudge,
         Billing!RecordLatch, Billing!PassFails, Billing!dunRest, Billing!requestVars
<1>6. dpc[d] # "idle" => sub.status # "absent" /\ day <= today
  BY DEF CycleInv
<1>7. dpc[d] \in {"reconcile", "send"} => sub.lastStage = row.lastStage /\ sub.lastFor = row.lastFor
  BY DEF CycleInv
<1>8. dun' = dun => dun' = [dun EXCEPT ![d] = dun[d]]
  BY <1>1
<1>9. CASE Billing!ReadSubscriptions(d)
  <2> DEFINE s == [row |-> sub, day |-> today]
  <2>1. /\ dpc' = [dpc EXCEPT ![d] = "reconcile"] /\ dun' = [dun EXCEPT ![d] = s]
        /\ sub' = sub /\ sent' = sent /\ sub.status # "absent"
    BY <1>9 DEF Billing!ReadSubscriptions, Billing!DunStep
  <2>2. s.row = sub /\ s.day = today
    OBVIOUS
  <2> HIDE DEF s, row, day, status
  <2>3. s.day <= today
    BY <1>1, <2>2
  <2>4. (Billing!NudgesNotEarly)'
    BY <1>4, <1>5, <2>1
  <2> QED BY <1>5, <2>1, <2>2, <2>3, <2>4, PassCycles
<1>10. CASE Billing!Reconcile(d)
  <2> DEFINE to == IF Billing!NudgeDue(row, day) THEN "send" ELSE "idle"
             s == IF to = "idle" THEN Billing!NoSnapshot ELSE dun[d]
  <2>1. /\ dpc[d] = "reconcile" /\ dpc' = [dpc EXCEPT ![d] = to] /\ to \in {"send", "idle"}
        /\ sent' = sent
    BY <1>10 DEF Billing!Reconcile, Billing!DunStep
  <2>2. dun' = [dun EXCEPT ![d] = s]
    BY <1>8, <1>10, <2>1 DEF Billing!Reconcile, Billing!DunStep
  <2>3. sub' = [sub EXCEPT !.status = status] \/ sub' = sub
    BY <1>10 DEF Billing!Reconcile
  <2>4. /\ sub'.status # "absent" /\ sub'.periodEnd = sub.periodEnd
        /\ sub'.lastStage = sub.lastStage /\ sub'.lastFor = sub.lastFor
    <3> HIDE DEF status
    <3>1. sub.status # "absent"
      BY <1>6, <2>1
    <3> QED BY <1>1, <1>2, <2>3, <3>1 DEF Billing!Sub
  <2>5. to = "send" => s = dun[d] /\ ~Billing!Latched(row, day)
    BY DEF Billing!NudgeDue
  <2>6. to # "idle" => s.day <= today
    BY <1>6, <2>1, <2>5
  <2>7. to \in {"reconcile", "send"} => sub'.lastStage = s.row.lastStage /\ sub'.lastFor = s.row.lastFor
    BY <1>7, <2>1, <2>4, <2>5
  <2>8. to = "send" => ~Billing!Latched(s.row, s.day)
    BY <2>5
  <2> HIDE DEF to, s
  <2> QED BY <1>4, <1>5, <1>6, <2>1, <2>2, <2>4, <2>6, <2>7, <2>8, PassCycles
<1>11. CASE Billing!SendNudge(d)
  <2>1. dpc[d] = "send" /\ dpc' = [dpc EXCEPT ![d] = "latch"] /\ dun' = dun /\ sub' = sub
    BY <1>11 DEF Billing!SendNudge, Billing!DunStep
  <2>2. (Billing!NudgesNotEarly)'
    BY <1>11, NudgesSent
  <2>3. dun' = [dun EXCEPT ![d] = dun[d]]
    BY <1>8, <2>1
  <2>4. dun[d].day <= today /\ sub.status # "absent"
    BY <1>6, <2>1
  <2> QED BY <1>5, <2>1, <2>2, <2>3, <2>4, PassCycles
<1>12. CASE Billing!RecordLatch(d)
  <2> DEFINE stage == Billing!Nudge(d).stage
             for == Billing!Nudge(d).periodEnd
  <2>1. /\ dpc[d] = "latch" /\ dpc' = [dpc EXCEPT ![d] = "idle"]
        /\ dun' = [dun EXCEPT ![d] = Billing!NoSnapshot] /\ sent' = sent
        /\ sub' = [sub EXCEPT !.status = status, !.lastStage = stage, !.lastFor = for]
    BY <1>12 DEF Billing!RecordLatch, Billing!DunStep
  <2>2. sub'.status # "absent" /\ sub'.periodEnd = sub.periodEnd
    <3> HIDE DEF status, stage, for
    <3> QED BY <1>1, <1>2, <2>1 DEF Billing!Sub
  <2> HIDE DEF stage, for
  <2> QED BY <1>4, <1>5, <1>6, <2>1, <2>2, PassCycles
<1>13. CASE Billing!PassFails(d)
  <2>1. /\ dpc[d] # "idle" /\ dpc' = [dpc EXCEPT ![d] = "idle"]
        /\ dun' = [dun EXCEPT ![d] = Billing!NoSnapshot]
        /\ sub' = sub /\ sent' = sent
    BY <1>13 DEF Billing!PassFails, Billing!DunStep
  <2> QED BY <1>4, <1>5, <1>6, <2>1, PassCycles
<1> QED BY <1>9, <1>10, <1>11, <1>12, <1>13 DEF Billing!DunningPass

\* Early or repeated nudges and lost days need two at work: with one request and one
\* dunning pass at a time, no nudge is ahead of its day or repeats the one the latch
\* names, and no trial, renewal or pass takes a day away that was paid for.
THEOREM NoNudgeOrDayIsWrong ==
  ASSUME OneAtATime
  PROVE  MCSpec => NudgesAndDays
<1>1. MCInit => CycleInv
  <2> SUFFICES ASSUME MCInit
      PROVE  CycleInv
    OBVIOUS
  <2>1. sub = Billing!NoSub /\ sent = {} /\ \A t \in Request : at[t] = "idle"
    BY DEF MCInit, Billing!Init
  <2>2. \A d \in Dunners : dpc[d] = "idle"
    BY DEF MCInit, Billing!Init
  <2> QED BY <2>1, <2>2 DEF CycleInv, Billing!NoSub, Billing!NudgesNotEarly
<1>2. ASSUME BillingInv, CycleInv, part = "cycle", part' = part, Billing!Next, Followed
      PROVE  CycleInv' /\ Billing!RespectsLatch /\ Billing!KeepsEveryDay
  <2>1. /\ sub \in Billing!Sub /\ sub.periodEnd \in Nat /\ today \in Nat
        /\ \A u \in Request \ OneRequest : at'[u] = "idle"
    BY <1>2, BillFields DEF BillingInv, Billing!Sub, Followed
  <2>2. CycleInv' /\ ((\A u \in Request : ~Billing!Credit(u)) => sub'.periodEnd >= sub.periodEnd)
    <3>1. CASE \E t \in Request :
                 \/ Billing!ReadForTrial(t) \/ Billing!Proceed(t) \/ Billing!Fail(t)
                 \/ \E p \in Pidx, agrees \in BOOLEAN : Billing!InitiateAtGateway(t, p, agrees)
                 \/ \E p \in Pidx : Billing!ReadBill(t, p)
      BY <1>2, <2>1, <3>1, RequestInCycle
    <3>2. CASE \E d \in Dunners : Billing!DunningPass(d)
      <4>1. CycleInv' /\ sub'.periodEnd = sub.periodEnd
        BY <1>2, <3>2, PassInCycle
      <4> QED BY <2>1, <4>1
    <3>3. CASE Billing!Cancel
      <4>1. sub'.status = "cancelled"
        BY <2>1, <3>3 DEF Billing!Cancel, Billing!Sub
      <4> QED BY <1>2, <4>1 DEF Followed
    <3>4. CASE Billing!Tick
      <4>1. /\ today' \in Nat /\ today' >= today /\ today' = today + 1
            /\ UNCHANGED <<part, sub, at, held, dpc, dun, sent>>
        BY <1>2, <2>1, <3>4 DEF Billing!Tick, Billing!requestVars, Billing!dunVars
      <4>2. (Billing!NudgesNotEarly)'
        BY <1>2, <4>1, NudgesAge DEF CycleInv
      <4>3. \A d \in Dunners : dpc[d] # "idle" => dun[d].day <= today' /\ sub.status # "absent"
        <5>1. \A d \in Dunners : dun[d].day \in Nat
          BY <1>2, BillFields DEF BillingInv
        <5>2. \A d \in Dunners : dpc[d] # "idle" => dun[d].day <= today /\ sub.status # "absent"
          BY <1>2 DEF CycleInv
        <5> QED BY <2>1, <4>1, <5>1, <5>2
      <4>4. CycleInv'
        BY <1>2, <4>1, <4>2, <4>3 DEF CycleInv
      <4> QED BY <2>1, <4>1, <4>4
    <3>5. CASE \E p \in Pidx : Billing!GatewayStep(p)
      <4>1. UNCHANGED <<part, today, sub, at, held, dpc, dun, sent>>
        BY <1>2, <3>5 DEF Billing!GatewayStep, Billing!requestVars, Billing!dunVars
      <4>2. (Billing!NudgesNotEarly)'
        BY <1>2, <4>1 DEF CycleInv, Billing!NudgesNotEarly
      <4>3. CycleInv'
        BY <1>2, <4>1, <4>2 DEF CycleInv
      <4> QED BY <2>1, <4>1, <4>3
    <3> QED BY <1>2, <3>1, <3>2, <3>3, <3>4, <3>5 DEF Billing!Next
  <2>3. Billing!RespectsLatch
    <3> SUFFICES ASSUME NEW d \in Dunners, Billing!SendNudge(d)
        PROVE  ~(sub.lastStage = Billing!Nudge(d).stage /\ sub.lastFor = Billing!Nudge(d).periodEnd)
      BY DEF Billing!RespectsLatch
    <3>1. dpc[d] = "send"
      BY DEF Billing!SendNudge, Billing!DunStep
    <3>2. /\ sub.lastStage = dun[d].row.lastStage /\ sub.lastFor = dun[d].row.lastFor
          /\ ~Billing!Latched(dun[d].row, dun[d].day)
      BY <1>2, <3>1 DEF CycleInv
    <3> QED BY <3>2 DEF Billing!Latched, Billing!Nudge
  <2>4. Billing!KeepsEveryDay
    <3>1. CASE \E t \in Request : Billing!Credit(t)
      <4>1. /\ sub'.periodEnd >= sub.periodEnd /\ sub'.periodEnd \in Nat
            /\ sub.status # "absent" => sub'.periodEnd >= sub.periodEnd + MonthDays
        BY <1>2, <3>1, CreditExtends
      <4> QED BY <2>1, <4>1 DEF Billing!KeepsEveryDay
    <3>2. CASE \A t \in Request : ~Billing!Credit(t)
      <4>1. sub'.periodEnd >= sub.periodEnd
        BY <2>2, <3>2
      <4>2. sub.periodEnd + 0 = sub.periodEnd
        BY <2>1
      <4> QED BY <3>2, <4>1, <4>2 DEF Billing!KeepsEveryDay
    <3> QED BY <3>1, <3>2
  <2> QED BY <2>2, <2>3, <2>4
<1>3. BillingInv /\ CycleInv /\ [MCNext]_allVars => CycleInv'
  <2> SUFFICES ASSUME BillingInv, CycleInv, [MCNext]_allVars
      PROVE  CycleInv'
    OBVIOUS
  <2>1. part' = part /\ (UNCHANGED billingVars \/ (Billing!Next /\ Followed))
    BY DEF MCNext, allVars
  <2>2. CASE part # "cycle"
    BY <2>1, <2>2 DEF CycleInv
  <2>3. CASE part = "cycle" /\ Billing!Next /\ Followed
    BY <1>2, <2>1, <2>3
  <2>4. CASE UNCHANGED billingVars
    <3>1. UNCHANGED <<today, sub, at, held, dpc, dun, sent>>
      BY <2>4 DEF billingVars
    <3> QED BY <2>1, <3>1 DEF CycleInv, Billing!NudgesNotEarly
  <2> QED BY <2>1, <2>2, <2>3, <2>4
<1>4. BillingInv /\ CycleInv /\ CycleInv' /\ [MCNext]_allVars =>
        [part = "cycle" => Billing!NudgesNotEarly' /\ Billing!RespectsLatch /\ Billing!KeepsEveryDay]_allVars
  <2> SUFFICES ASSUME BillingInv, CycleInv, CycleInv', MCNext, part = "cycle"
      PROVE  Billing!NudgesNotEarly' /\ Billing!RespectsLatch /\ Billing!KeepsEveryDay
    OBVIOUS
  <2>1. part' = part /\ Billing!Next /\ Followed
    BY DEF MCNext
  <2>2. (Billing!NudgesNotEarly)'
    BY <2>1 DEF CycleInv
  <2> QED BY <1>2, <2>1, <2>2
<1> QED BY <1>1, <1>3, <1>4, BillingInvariant, PTL DEF MCSpec, NudgesAndDays
===============================================================================
