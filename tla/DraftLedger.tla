------------------------------ MODULE DraftLedger ------------------------------
(***************************************************************************)
(* Confirm-before-save in the ledger of one business (mcp-ledger/src       *)
(* tools.ts and owner-approval.ts, orchestrator/src/whatsapp).             *)
(*                                                                         *)
(* A message of a member starts a turn of the agent; an explicit yes from  *)
(* a member who may confirm is recorded first.  In its turn the agent      *)
(* drafts entries, corrects drafts by replacing them, confirms drafts that *)
(* are older than a fresh yes, and prepares the month's VAT return from    *)
(* what is confirmed.  Messages of one member wait for each other, turns   *)
(* of different members overlap.                                           *)
(*                                                                         *)
(* A tool call is a transaction at READ COMMITTED.  now() is the time at   *)
(* which a transaction began; no two began at the same time.  The entries  *)
(* are those of one month.                                                 *)
(***************************************************************************)
EXTENDS Naturals, FiniteSets

CONSTANTS
  Member,
  Recorder,     \* members whose role may record: owner, accountant, staff
  Reporter,     \* whose role may report: owner, accountant, auditor, viewer
  Confirmer,    \* whose role may confirm and mark returns as filed: owner, accountant
  MaxEntries,   \* bound: entries drafted
  MaxClock      \* bound: transactions begun

ASSUME RecorderAssumption ==
  /\ Recorder \subseteq Member /\ Reporter \subseteq Member
  /\ Confirmer \subseteq Recorder \cap Reporter
ASSUME DraftBoundAssumption == MaxEntries \in Nat /\ MaxClock \in Nat

VARIABLES
  clock,     \* when the last transaction began
  entries,   \* sales and expenses
  approvals, \* owner_approvals that are inside the approval window
  bearer,    \* the member for whose role the session's token was last made
  running,   \* is a turn of the member running?
  toolCall,  \* the transaction of each turn
  vatReturn  \* vat_returns of the month: its status and the entries its figures count

draftVars == <<clock, entries, approvals, bearer, running, toolCall, vatReturn>>
-------------------------------------------------------------------------------
Entry == 1..MaxEntries
Time == 0..MaxClock
Kind == {"sale", "expense"}
NoEntry == 0

\* History: who drafted the entry, when it could first be shown, and whether the
\* turn was cut off while it was written.
EntryRow ==
  [status: {"absent", "draft", "confirmed", "superseded"}, kind: Kind, created: Time,
   replaces: Entry \cup {NoEntry}, author: Member, saved: Time, cutOff: BOOLEAN]

Approval == [at: Time, by: Confirmer]
NoCall == [at |-> "idle"]
CallState == {NoCall}
  \cup [at: {"record"}, began: Time, kind: Kind, replaces: Entry \cup {NoEntry},
        cutOff: BOOLEAN]
  \cup [at: {"count"}, sales: SUBSET Entry, confirmed: SUBSET Entry]

DraftTypeOK ==
  /\ clock \in Time
  /\ entries \in [Entry -> EntryRow]
  /\ approvals \subseteq Approval
  /\ bearer \in Member
  /\ running \in [Member -> BOOLEAN]
  /\ toolCall \in [Member -> CallState]
  /\ vatReturn \in [status: {"absent", "prepared", "confirmed_filed_by_user"},
                    counted: SUBSET Entry]

DraftInit ==
  /\ clock = 0
  /\ entries = [e \in Entry |->
       [status |-> "absent", kind |-> "sale", created |-> 0, replaces |-> NoEntry,
        author |-> CHOOSE m \in Member : TRUE, saved |-> 0, cutOff |-> FALSE]]
  /\ approvals = {}
  /\ bearer \in Member
  /\ running = [m \in Member |-> FALSE]
  /\ toolCall = [m \in Member |-> NoCall]
  /\ vatReturn = [status |-> "absent", counted |-> {}]
-------------------------------------------------------------------------------
\* Operators named ...Mutant are wrong versions of the definition after them,
\* kept to show that a property notices the change; the model does not use them.

Tick == clock < MaxClock /\ clock' = clock + 1

\* Mutant: messages of one member do not wait for each other.
LineFreeMutant(m) == TRUE

LineFree(m) == ~running[m]

\* Mutant: a yes is a yes.
MayApproveMutant(m) == TRUE

MayApprove(m) == m \in Confirmer

\* The yes is recorded before the turn it starts.
TakeMessage(m, yes) ==
  /\ Tick /\ LineFree(m)
  /\ yes => MayApprove(m)
  /\ bearer' = m
  /\ running' = [running EXCEPT ![m] = TRUE]
  /\ approvals' = IF yes THEN approvals \cup {[at |-> clock', by |-> m]} ELSE approvals
  /\ UNCHANGED <<entries, toolCall, vatReturn>>

EndTurn(m) ==
  /\ running[m] /\ toolCall[m].at # "record"
  /\ running' = [running EXCEPT ![m] = FALSE]
  /\ UNCHANGED <<clock, entries, approvals, bearer, toolCall, vatReturn>>

\* A turn that takes too long is given up, the transaction it is in goes on.
CutOff(m) ==
  /\ running[m] /\ toolCall[m].at = "record"
  /\ running' = [running EXCEPT ![m] = FALSE]
  /\ toolCall' = [toolCall EXCEPT ![m].cutOff = TRUE]
  /\ UNCHANGED <<clock, entries, approvals, bearer, vatReturn>>

\* The business has one agent session: a tool asks for the role of whoever wrote last.
MayRecord == bearer \in Recorder
MayReport == bearer \in Reporter
MayConfirm == bearer \in Confirmer

MayCall(m) == running[m] /\ toolCall[m] = NoCall
-------------------------------------------------------------------------------
(* record_sale, record_expense *)

\* A draft that is being replaced is locked until the replacement commits.
Locked(e) == \E m \in Member : toolCall[m].at = "record" /\ toolCall[m].replaces = e

\* Mutant: the draft is looked up without a lock.
SupersedableMutant(e, kind) == entries[e].status = "draft" /\ entries[e].kind = kind

Supersedable(e, kind) ==
  entries[e].status = "draft" /\ entries[e].kind = kind /\ ~Locked(e)

BeginRecord(m, kind, old) ==
  /\ Tick /\ MayCall(m) /\ MayRecord
  /\ old # NoEntry => Supersedable(old, kind)
  /\ toolCall' = [toolCall EXCEPT ![m] =
       [at |-> "record", began |-> clock', kind |-> kind, replaces |-> old,
        cutOff |-> FALSE]]
  /\ UNCHANGED <<entries, approvals, bearer, running, vatReturn>>

Save(m, e) ==
  LET c == toolCall[m]
      row == [status |-> "draft", kind |-> c.kind, created |-> c.began,
              replaces |-> c.replaces, author |-> m, saved |-> clock,
              cutOff |-> c.cutOff]
  IN
  /\ c.at = "record"
  /\ entries[e].status = "absent" /\ \A f \in 1..(e - 1) : entries[f].status # "absent"
  /\ entries' = [f \in Entry |->
       IF f = e THEN row
       ELSE IF f = c.replaces THEN [entries[f] EXCEPT !.status = "superseded"]
       ELSE entries[f]]
  /\ toolCall' = [toolCall EXCEPT ![m] = NoCall]
  /\ UNCHANGED <<clock, approvals, bearer, running, vatReturn>>
-------------------------------------------------------------------------------
(* confirm_entry *)

\* Mutant: any fresh yes will do.
ApprovedMutant(e) == approvals # {}

Approved(e) == \E a \in approvals : a.at > entries[e].created

\* Mutant: whatever was ever drafted.
ConfirmableMutant(e) == entries[e].status \in {"draft", "superseded"} /\ ~Locked(e)

Confirmable(e) == entries[e].status = "draft" /\ ~Locked(e)

\* The draft is locked first; one that was replaced meanwhile is not found.
Confirm(m, e) ==
  /\ MayCall(m) /\ MayConfirm
  /\ Confirmable(e) /\ Approved(e)
  /\ entries' = [entries EXCEPT ![e].status = "confirmed"]
  /\ UNCHANGED <<clock, approvals, bearer, running, toolCall, vatReturn>>
-------------------------------------------------------------------------------
(* generate_return_summary, mark_return_filed_by_user *)

Confirmed == {e \in Entry : entries[e].status = "confirmed"}

\* Mutant: drafts are counted too.
CountedMutant(kind) ==
  {e \in Entry : entries[e].status \in {"draft", "confirmed"} /\ entries[e].kind = kind}

Counted(kind) == {e \in Confirmed : entries[e].kind = kind}

\* Sales and expenses are added up by one statement each.
CountSales(m) ==
  /\ MayCall(m) /\ MayReport
  /\ toolCall' = [toolCall EXCEPT ![m] =
       [at |-> "count", sales |-> Counted("sale"), confirmed |-> Confirmed]]
  /\ UNCHANGED <<clock, entries, approvals, bearer, running, vatReturn>>

\* The row is written over, whatever its status.
Prepare(m) ==
  /\ toolCall[m].at = "count"
  /\ vatReturn' =
       [status |-> IF vatReturn.status = "absent" THEN "prepared" ELSE vatReturn.status,
        counted |-> toolCall[m].sales \cup Counted("expense")]
  /\ toolCall' = [toolCall EXCEPT ![m] = NoCall]
  /\ UNCHANGED <<clock, entries, approvals, bearer, running>>

MarkFiled(m) ==
  /\ MayCall(m) /\ MayConfirm /\ vatReturn.status = "prepared"
  /\ vatReturn' = [vatReturn EXCEPT !.status = "confirmed_filed_by_user"]
  /\ UNCHANGED <<clock, entries, approvals, bearer, running, toolCall>>
-------------------------------------------------------------------------------
\* The server dies in a transaction; the agent's turn goes on, or ends.
Rollback(m) ==
  /\ toolCall[m] # NoCall
  /\ toolCall' = [toolCall EXCEPT ![m] = NoCall]
  /\ UNCHANGED <<clock, entries, approvals, bearer, running, vatReturn>>

\* Half an hour has passed since an approval, and any before it.
Expire(a) ==
  /\ a \in approvals
  /\ approvals' = {b \in approvals : b.at > a.at}
  /\ UNCHANGED <<clock, entries, bearer, running, toolCall, vatReturn>>

DraftNext ==
  \/ \E m \in Member :
       \/ \E yes \in BOOLEAN : TakeMessage(m, yes)
       \/ \E kind \in Kind, old \in Entry \cup {NoEntry} : BeginRecord(m, kind, old)
       \/ \E e \in Entry : Save(m, e) \/ Confirm(m, e)
       \/ CountSales(m) \/ Prepare(m) \/ MarkFiled(m) \/ EndTurn(m) \/ CutOff(m) \/ Rollback(m)
  \/ \E a \in approvals : Expire(a)

DraftSpec == DraftInit /\ [][DraftNext]_draftVars
-------------------------------------------------------------------------------
\* A correction never counts twice: a draft is superseded exactly when one other
\* entry replaces it, and what is still a draft or confirmed is replaced by none.
OneLiveVersion ==
  \A e \in Entry : entries[e].status # "absent" =>
    Cardinality({f \in Entry : entries[f].replaces = e}) =
      IF entries[e].status = "superseded" THEN 1 ELSE 0

\* Nothing is saved but on a yes that came after the draft was begun.  A yes of the
\* member who had it drafted came after it was there to be shown, so no draft rides
\* on the yes its own turn began with; only a turn that was cut off can break this.
YesAfterDraft ==
  [][\A e \in Confirmed' \ Confirmed : \E a \in approvals :
       /\ a.at > entries[e].created
       /\ (a.by = entries[e].author /\ ~entries[e].cutOff) => a.at > entries[e].saved]_draftVars

\* What is confirmed stays confirmed, what is superseded stays so; and a return counts
\* all that was confirmed when its preparation began and nothing that was not confirmed
\* when it ended.
SettledAndCounted ==
  [][/\ \A e \in Entry : entries[e].status \in {"confirmed", "superseded"} => entries'[e] = entries[e]
     /\ \A m \in Member : (toolCall[m].at = "count" /\ toolCall'[m] = NoCall /\ vatReturn' # vatReturn) =>
          toolCall[m].confirmed \subseteq vatReturn'.counted /\ vatReturn'.counted \subseteq Confirmed]_draftVars
===============================================================================
