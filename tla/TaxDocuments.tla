----------------------------- MODULE TaxDocuments ------------------------------
(***************************************************************************)
(* Invoice numbers, notes, opening balances and the year's VAT of one      *)
(* business (mcp-ledger/src/accounting-tools.ts), and the audit log every  *)
(* tool writes (db/src/audit-chain.ts, shared/src/audit/hash-chain.ts).    *)
(*                                                                         *)
(* A tool call is one transaction at READ COMMITTED.  It may wait for the  *)
(* row of a fiscal year's series and for the advisory lock of the audit    *)
(* log, and it holds both until it commits or is rolled back.  What it     *)
(* writes before that, others do not see.  The owner's approval is left    *)
(* out: a call that lacks it changes nothing.                              *)
(*                                                                         *)
(* A hash is the sequence of everything said up to the row that carries    *)
(* it: two rows share one only if all before them is the same.             *)
(***************************************************************************)
EXTENDS Integers, FiniteSets, SequencesExt

CONSTANTS
  Call,       \* tool calls that may run at the same time
  Year,       \* fiscal years
  Months,     \* months of a fiscal year
  MaxRows,    \* bound: audit rows begun
  MaxDocs     \* bound: documents

VARIABLES
  sequences,  \* invoice_sequences: the last number given out in each year
  documents,  \* committed numbers, notes and opening balances, by id
  trail,      \* committed rows of audit_log: what they say and the two hashes
  serial,     \* the serial that numbers audit rows; a rollback does not turn it back
  vat,        \* confirmed sales and expenses of a year: each month's output less input VAT
  call        \* the transaction of each call

vars == <<sequences, documents, trail, serial, vat, call>>
-------------------------------------------------------------------------------
Doc == 1..MaxDocs
Month == 1..Months
Kind == {"invoice", "note", "vat_credit"}    \* a note is a credit or a debit note
Numbered == {"invoice", "note"}
Net == {-1, 1}
Document == [kind: Kind, year: Year, number: Nat, status: {"draft", "confirmed"}]

Idle == [at |-> "idle"]
None == 0                                   \* no document, no row
Genesis == <<>>

\* A row of the log says that something was written, or only read, at its moment.
Said == [wrote: BOOLEAN, at: 1..MaxRows]
Hash == Seq(Said)

\* write is the document the call inserts or confirms, none for a mere reading.
CallState == {Idle}
  \cup [at: {"read"}, opening: Nat, months: UNION {[1..n -> Net] : n \in 0..Months}]
  \cup [at: {"append", "commit"}, id: Doc \cup {None}, write: {<<>>} \cup Seq(Document),
        row: 0..MaxRows, prev: Hash]

TypeOK ==
  /\ sequences \in [Year -> Nat]
  /\ DOMAIN documents \subseteq Doc /\ \A d \in DOMAIN documents : documents[d] \in Document
  /\ \A r \in trail : r \in [id: 1..MaxRows, says: Said, prev: Hash, hash: Hash]
  /\ serial \in 0..MaxRows
  /\ vat \in [Month -> Net]
  /\ call \in [Call -> CallState]

Init ==
  /\ sequences = [y \in Year |-> 0]
  /\ documents = <<>>
  /\ trail = {}
  /\ serial = 0
  /\ vat = [m \in Month |-> 1]
  /\ call = [c \in Call |-> Idle]
-------------------------------------------------------------------------------
\* Operators named ...Mutant are wrong versions of the definition after them,
\* kept to show that a property notices the change; the model does not use them.

\* On the way to the audit log with a document to write, or with none.
Appending(id, write) == [at |-> "append", id |-> id, write |-> write, row |-> None, prev |-> Genesis]

Move(c, state) == call' = [call EXCEPT ![c] = state]

Writes(c) == call[c].at \in {"append", "commit"} /\ call[c].write # <<>>

\* A call may begin while the bound leaves it a row of the audit log.
Free(c) ==
  /\ call[c] = Idle
  /\ serial + Cardinality({d \in Call : call[d].at \in {"read", "append"}}) < MaxRows

\* The next id that is free.
NewDoc(id) ==
  LET used == DOMAIN documents \cup {call[c].id : c \in {d \in Call : Writes(d)}}
  IN id \notin used /\ 1..(id - 1) \subseteq used
-------------------------------------------------------------------------------
(* next_invoice_number and issue_note *)

\* Mutant: the last number is read without a lock on the row.
SeriesFreeMutant(c, y) == TRUE

\* The transaction has taken a number of the year for a document that is not yet there.
Numbering(d, y) ==
  /\ Writes(d) /\ call[d].id \notin DOMAIN documents
  /\ call[d].write[1].number # None /\ call[d].write[1].year = y

\* No other transaction has the year's row updated.
SeriesFree(c, y) == \A d \in Call \ {c} : ~Numbering(d, y)

\* The number is taken under the lock, and the document with it in the same transaction.
AllocateNumber(c, kind, y, id) ==
  /\ Free(c) /\ SeriesFree(c, y) /\ NewDoc(id)
  /\ Move(c, Appending(id, <<[kind |-> kind, year |-> y, number |-> sequences[y] + 1,
                              status |-> "draft"]>>))
  /\ UNCHANGED <<sequences, documents, trail, serial, vat>>

NextInvoiceNumber(c, y, id) == AllocateNumber(c, "invoice", y, id)

\* The invoice is confirmed, and for a credit note it is for at least as much.
IssueNote(c, y, id) == AllocateNumber(c, "note", y, id)
-------------------------------------------------------------------------------
(* record_opening_balance, confirm_opening_balance, confirm_note *)

RecordOpening(c, y, id) ==
  /\ Free(c) /\ NewDoc(id)
  /\ Move(c, Appending(id, <<[kind |-> "vat_credit", year |-> y, number |-> None, status |-> "draft"]>>))
  /\ UNCHANGED <<sequences, documents, trail, serial, vat>>

\* The update waits for another transaction that has the row.
Confirmable(d) ==
  /\ documents[d].status = "draft" /\ documents[d].kind # "invoice"
  /\ \A c \in Call : Writes(c) => call[c].id # d

Confirm(c, d) ==
  /\ Free(c) /\ d \in DOMAIN documents /\ Confirmable(d)
  /\ Move(c, Appending(d, <<[documents[d] EXCEPT !.status = "confirmed"]>>))
  /\ UNCHANGED <<sequences, documents, trail, serial, vat>>
-------------------------------------------------------------------------------
(* get_annual_summary, generate_tds_summary *)

\* Every confirmed VAT credit the business opened the year with; each is of one.
OpeningCredit(y) ==
  Cardinality({d \in DOMAIN documents :
    documents[d].kind = "vat_credit" /\ documents[d].status = "confirmed" /\ documents[d].year = y})

BeginYear(c, y) ==
  /\ Free(c)
  /\ Move(c, [at |-> "read", opening |-> OpeningCredit(y), months |-> <<>>])
  /\ UNCHANGED <<sequences, documents, trail, serial, vat>>

\* Each month is a statement of its own and sees what is confirmed by then.
ReadMonth(c) ==
  /\ call[c].at = "read" /\ Len(call[c].months) < Months
  /\ Move(c, [call[c] EXCEPT !.months = Append(@, vat[Len(@) + 1])])
  /\ UNCHANGED <<sequences, documents, trail, serial, vat>>

Excess(n) == IF n > 0 THEN n ELSE 0

\* Mutant: a credit is used up by the month after it, and what is left is lost.
SettleMonthMutant(net, brought) ==
  [payable |-> Excess(net - brought), carry |-> Excess(-net)]

\* Output VAT is met by input VAT, then by what was brought forward.
SettleMonth(net, brought) ==
  [payable |-> Excess(net - brought), carry |-> Excess(brought - net)]

AnnualVatSummary(months, opening) ==
  FoldLeft(LAMBDA sum, net : LET s == SettleMonth(net, sum.carry)
                             IN [carry |-> s.carry, payable |-> sum.payable + s.payable],
           [carry |-> opening, payable |-> 0], months)

EndYear(c) ==
  /\ call[c].at = "read" /\ Len(call[c].months) = Months
  /\ Move(c, Appending(None, <<>>))
  /\ UNCHANGED <<sequences, documents, trail, serial, vat>>

\* A note that does not fit its invoice, or the month's TDS: a trace, and no document.
OnlyTrace(c) ==
  /\ Free(c)
  /\ Move(c, Appending(None, <<>>))
  /\ UNCHANGED <<sequences, documents, trail, serial, vat>>

\* Another entry of the month is confirmed: of interest while the year is read.
BooksChange(m) ==
  /\ \E c \in Call : call[c].at = "read"
  /\ vat' = [vat EXCEPT ![m] = -@]
  /\ UNCHANGED <<sequences, documents, trail, serial, call>>
-------------------------------------------------------------------------------
(* appendAudit, and the end of the transaction *)

\* Mutant: the lock is let go as soon as the row is inserted.
TrailFreeMutant == TRUE

TrailFree == \A d \in Call : call[d].at # "commit"

\* The hash of the row with the highest id, or the genesis hash.
LastHash(rows) ==
  IF rows = {} THEN Genesis ELSE (CHOOSE r \in rows : \A q \in rows : q.id <= r.id).hash

HashRow(prev, says) == Append(prev, says)

AppendAudit(c) ==
  /\ call[c].at = "append" /\ TrailFree /\ serial < MaxRows
  /\ serial' = serial + 1
  /\ Move(c, [call[c] EXCEPT !.at = "commit", !.row = serial', !.prev = LastHash(trail)])
  /\ UNCHANGED <<sequences, documents, trail, vat>>

Commit(c) ==
  /\ call[c].at = "commit"
  /\ LET says == [wrote |-> Writes(c), at |-> call[c].row]
     IN trail' = trail \cup {[id |-> call[c].row, says |-> says, prev |-> call[c].prev,
                              hash |-> HashRow(call[c].prev, says)]}
  /\ LET doc == call[c].write[1] IN
     IF Writes(c)
     THEN /\ documents' = [d \in DOMAIN documents \cup {call[c].id} |->
               IF d = call[c].id THEN doc ELSE documents[d]]
          /\ sequences' = IF doc.number > sequences[doc.year]
                          THEN [sequences EXCEPT ![doc.year] = doc.number] ELSE sequences
     ELSE UNCHANGED <<documents, sequences>>
  /\ Move(c, Idle)
  /\ UNCHANGED <<serial, vat>>

\* A statement fails, or the server dies: nothing was written.
Rollback(c) ==
  /\ call[c] # Idle
  /\ Move(c, Idle)
  /\ UNCHANGED <<sequences, documents, trail, serial, vat>>

\* verify_audit_chain reads the rows in the order of their ids: those before r.
Before(rows, r) == {q \in rows : q.id < r.id}

\* Mutant: only the links are looked at.
VerifiedMutant(rows) == \A r \in rows : r.prev = LastHash(Before(rows, r))

\* verifyAuditChain: each row has the hash of the row before it, and its own.
Verified(rows) ==
  \A r \in rows :
    LET prev == LastHash(Before(rows, r))
    IN r.prev = prev /\ r.hash = HashRow(prev, r.says)

Next ==
  \/ \E c \in Call :
       \/ \E y \in Year :
            \/ BeginYear(c, y)
            \/ \E id \in Doc : NextInvoiceNumber(c, y, id) \/ IssueNote(c, y, id) \/ RecordOpening(c, y, id)
       \/ \E id \in Doc : Confirm(c, id)
       \/ ReadMonth(c) \/ EndYear(c) \/ OnlyTrace(c)
       \/ AppendAudit(c) \/ Commit(c) \/ Rollback(c)
  \/ \E m \in Month : BooksChange(m)

Spec == Init /\ [][Next]_vars
-------------------------------------------------------------------------------
NumbersOf(y) ==
  {d \in DOMAIN documents : documents[d].kind \in Numbered /\ documents[d].year = y}

\* The numbers of a fiscal year, on invoices and on notes, are 1, 2, 3 and so on,
\* each on one document, whatever overlapped, was rejected or rolled back.
NumbersGapFree ==
  \A y \in Year :
    /\ {documents[d].number : d \in NumbersOf(y)} = 1..sequences[y]
    /\ Cardinality(NumbersOf(y)) = sequences[y]

\* The rows in the order of their ids are one chain, though calls overlapped and ids were
\* lost to rollbacks.
ChainVerifies == Verified(trail)

LastRow(r) == \A q \in trail : q.id <= r.id
Rewrite(r) == (trail \ {r}) \cup {[r EXCEPT !.says.wrote = ~@]}
Exchange(r, q) == (trail \ {r, q}) \cup {[r EXCEPT !.id = q.id], [q EXCEPT !.id = r.id]}

\* verify_audit_chain notices a row that was altered, removed from before another, moved
\* or repeated; not that the last ones are gone.
ChangesNoticed ==
  \A r \in trail :
    /\ ~Verified(Rewrite(r))
    /\ ~LastRow(r) => ~Verified(trail \ {r})
    /\ \A q \in trail \ {r} : ~Verified(Exchange(r, q))
    /\ \A id \in 1..serial \ {q.id : q \in trail} : ~Verified(trail \cup {[r EXCEPT !.id = id]})

\* No credit is lost or invented over a year: what is carried out of it, less what is
\* payable, is what it was opened with less the net VAT of the months as they were read.
YearAddsUp ==
  \A c \in Call : (call[c].at = "read" /\ Len(call[c].months) = Months) =>
    LET s == AnnualVatSummary(call[c].months, call[c].opening)
    IN s.carry - s.payable = call[c].opening - SumFunction(call[c].months)
===============================================================================
