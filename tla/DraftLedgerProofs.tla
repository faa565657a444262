--------------------------- MODULE DraftLedgerProofs ---------------------------
(***************************************************************************)
(* Proofs about DraftLedger, for any members, any number of entries and of *)
(* transactions.  IInv is inductive.  That an entry has one live version   *)
(* is Lineage, which rests on the locks: two corrections of one draft do   *)
(* not get to their commits together.  The two action properties are read  *)
(* off the invariant at the step of one action each.                       *)
(***************************************************************************)
EXTENDS DraftLedger, FiniteSetTheorems, TLAPS

USE RecorderAssumption, DraftBoundAssumption

\* The draft a call is to replace stays a draft until the call's commit, and no
\* other call is to replace it.
LocksHeld ==
  \A m \in Member :
    (toolCall[m].at = "record" /\ toolCall[m].replaces # NoEntry) =>
      /\ entries[toolCall[m].replaces].status = "draft"
      /\ \A n \in Member :
           (toolCall[n].at = "record" /\ toolCall[n].replaces = toolCall[m].replaces) => n = m

\* What is replaced is superseded, by one entry, and what is superseded is replaced.
Lineage ==
  /\ \A f \in Entry : entries[f].status = "absent" => entries[f].replaces = NoEntry
  /\ \A f \in Entry : entries[f].replaces # NoEntry =>
       entries[entries[f].replaces].status = "superseded"
  /\ \A f, g \in Entry :
       (entries[f].replaces = entries[g].replaces /\ entries[f].replaces # NoEntry) => f = g
  /\ \A e \in Entry : entries[e].status = "superseded" => \E f \in Entry : entries[f].replaces = e

\* Time: nothing was saved or approved after now.  While a call of a turn that was
\* not cut off writes, its member has said no yes that is younger than the call.
SavedAhead ==
  /\ \A a \in approvals : a.at <= clock
  /\ \A e \in Entry : entries[e].saved <= clock
  /\ \A m \in Member : (toolCall[m].at = "record" /\ ~toolCall[m].cutOff) =>
       running[m] /\ \A a \in approvals : a.by = m => a.at <= toolCall[m].began
  /\ \A e \in Entry, a \in approvals :
       (/\ entries[e].status # "absent" /\ ~entries[e].cutOff
        /\ a.by = entries[e].author /\ a.at > entries[e].created) => a.at > entries[e].saved

\* The sales of a preparation under way are confirmed, and with the confirmed expenses
\* of now they make up all that was confirmed when it began.
CountSound ==
  \A m \in Member : toolCall[m].at = "count" =>
    /\ toolCall[m].sales \subseteq Confirmed
    /\ toolCall[m].confirmed \subseteq toolCall[m].sales \cup Counted("expense")

IInv == DraftTypeOK /\ LocksHeld /\ Lineage /\ SavedAhead /\ CountSound

-------------------------------------------------------------------------------
\* The three kinds of transaction.
RecordCall ==
  [at: {"record"}, began: Time, kind: Kind, replaces: Entry \cup {NoEntry}, cutOff: BOOLEAN]
CountCall == [at: {"count"}, sales: SUBSET Entry, confirmed: SUBSET Entry]

\* A transaction is of the kind its place says.
LEMMA CallTyped ==
  ASSUME NEW c \in CallState
  PROVE  /\ c.at = "record" => c \in RecordCall
         /\ c.at = "count" => c \in CountCall
         /\ c.at = "idle" => c = NoCall
BY DEF CallState, NoCall, RecordCall, CountCall

\* All of them are transactions; one of a turn that is cut off stays one.
LEMMA CallsTyped ==
  /\ NoCall \in CallState
  /\ \A began \in Time, kind \in Kind, old \in Entry \cup {NoEntry}, cut \in BOOLEAN :
       [at |-> "record", began |-> began, kind |-> kind, replaces |-> old, cutOff |-> cut] \in CallState
  /\ \A s, c \in SUBSET Entry : [at |-> "count", sales |-> s, confirmed |-> c] \in CallState
  /\ \A c \in RecordCall : [c EXCEPT !.cutOff = TRUE] \in CallState
<1>1. \A c \in RecordCall : [c EXCEPT !.cutOff = TRUE] \in RecordCall
  BY DEF RecordCall
<1> QED BY <1>1 DEF CallState, NoCall, RecordCall

\* The first state satisfies the invariant.
LEMMA InitIInv == DraftInit => IInv
<1> SUFFICES ASSUME DraftInit PROVE IInv
  OBVIOUS
<1> DEFINE first == CHOOSE m \in Member : TRUE
<1>1. first \in Member
  BY DEF DraftInit
<1>2. DraftTypeOK
  BY <1>1, CallsTyped DEF DraftInit, DraftTypeOK, EntryRow, Kind, Time, Entry, NoEntry
<1>3. LocksHeld /\ CountSound
  BY DEF DraftInit, LocksHeld, CountSound, NoCall
<1>4. Lineage
  BY DEF DraftInit, Lineage, Entry, NoEntry
<1>5. SavedAhead
  BY DEF DraftInit, SavedAhead, Entry, NoCall
<1> QED BY <1>2, <1>3, <1>4, <1>5 DEF IInv

\* Every step keeps every variable in its type.
LEMMA StepTyped == DraftTypeOK /\ [DraftNext]_draftVars => DraftTypeOK'
<1> SUFFICES ASSUME DraftTypeOK, [DraftNext]_draftVars PROVE DraftTypeOK'
  OBVIOUS
<1> USE DEF DraftTypeOK
<1>1. ASSUME NEW m \in Member, NEW yes \in BOOLEAN, TakeMessage(m, yes) PROVE DraftTypeOK'
  BY <1>1 DEF TakeMessage, Tick, MayApprove, Approval, Time
<1>2. ASSUME NEW m \in Member, NEW kind \in Kind, NEW old \in Entry \cup {NoEntry},
             BeginRecord(m, kind, old)
      PROVE  DraftTypeOK'
  <2>1. clock' \in Time
    BY <1>2 DEF BeginRecord, Tick, Time
  <2>2. [at |-> "record", began |-> clock', kind |-> kind, replaces |-> old, cutOff |-> FALSE]
          \in CallState
    BY <2>1, CallsTyped
  <2> QED BY <1>2, <2>1, <2>2 DEF BeginRecord
<1>3. ASSUME NEW m \in Member, NEW e \in Entry, Save(m, e) PROVE DraftTypeOK'
  <2> DEFINE row == [status |-> "draft", kind |-> toolCall[m].kind, created |-> toolCall[m].began,
                     replaces |-> toolCall[m].replaces, author |-> m, saved |-> clock,
                     cutOff |-> toolCall[m].cutOff]
  <2>1. row \in EntryRow
    BY <1>3, CallTyped DEF Save, EntryRow, RecordCall
  <2>2. \A f \in Entry : [entries[f] EXCEPT !.status = "superseded"] \in EntryRow
    BY DEF EntryRow
  <2> HIDE DEF row
  <2>3. entries' = [f \in Entry |->
          IF f = e THEN row
          ELSE IF f = toolCall[m].replaces THEN [entries[f] EXCEPT !.status = "superseded"]
          ELSE entries[f]]
    BY <1>3 DEF Save, row
  <2>4. entries' \in [Entry -> EntryRow]
    BY <2>1, <2>2, <2>3
  <2> QED BY <1>3, <2>4, CallsTyped DEF Save
<1>4. ASSUME NEW m \in Member, NEW e \in Entry, Confirm(m, e) PROVE DraftTypeOK'
  BY <1>4 DEF Confirm, EntryRow
<1>5. ASSUME NEW m \in Member, CountSales(m) PROVE DraftTypeOK'
  BY <1>5, CallsTyped DEF CountSales, Counted, Confirmed
<1>6. ASSUME NEW m \in Member, Prepare(m) PROVE DraftTypeOK'
  <2>1. toolCall[m].sales \subseteq Entry
    BY <1>6, CallTyped DEF Prepare, CountCall
  <2>2. Counted("expense") \subseteq Entry
    BY DEF Counted, Confirmed
  <2> QED BY <1>6, <2>1, <2>2, CallsTyped DEF Prepare
<1>7. ASSUME NEW m \in Member, MarkFiled(m) PROVE DraftTypeOK'
  BY <1>7 DEF MarkFiled
<1>8. ASSUME NEW m \in Member, EndTurn(m) PROVE DraftTypeOK'
  BY <1>8 DEF EndTurn
<1>9. ASSUME NEW m \in Member, CutOff(m) PROVE DraftTypeOK'
  <2>1. [toolCall[m] EXCEPT !.cutOff = TRUE] \in CallState
    BY <1>9, CallTyped, CallsTyped DEF CutOff
  <2> QED BY <1>9, <2>1 DEF CutOff
<1>10. ASSUME NEW m \in Member, Rollback(m) PROVE DraftTypeOK'
  BY <1>10, CallsTyped DEF Rollback
<1>11. ASSUME NEW a \in approvals, Expire(a) PROVE DraftTypeOK'
  BY <1>11 DEF Expire
<1>12. CASE UNCHANGED draftVars
  BY <1>12 DEF draftVars
<1> QED
  BY <1>1, <1>2, <1>3, <1>4, <1>5, <1>6, <1>7, <1>8, <1>9, <1>10, <1>11, <1>12 DEF DraftNext

\* The locks are held through every step: the draft a call is to replace is
\* confirmed by nobody and replaced by nobody else.
LEMMA StepLocks == IInv /\ [DraftNext]_draftVars => LocksHeld'
<1> SUFFICES ASSUME IInv, [DraftNext]_draftVars PROVE LocksHeld'
  OBVIOUS
<1> USE DEF IInv, DraftTypeOK, LocksHeld
<1>1. ASSUME NEW m \in Member, NEW kind \in Kind, NEW old \in Entry \cup {NoEntry},
             BeginRecord(m, kind, old)
      PROVE  LocksHeld'
  BY <1>1 DEF BeginRecord, Supersedable, Locked
<1>2. ASSUME NEW m \in Member, NEW e \in Entry, Save(m, e) PROVE LocksHeld'
  <2> SUFFICES ASSUME NEW n \in Member, toolCall'[n].at = "record", toolCall'[n].replaces # NoEntry
               PROVE  /\ entries'[toolCall'[n].replaces].status = "draft"
                      /\ \A k \in Member :
                           (toolCall'[k].at = "record" /\ toolCall'[k].replaces = toolCall'[n].replaces) => k = n
    OBVIOUS
  <2>1. n # m /\ \A k \in Member : k # m => toolCall'[k] = toolCall[k]
    BY <1>2 DEF Save, NoCall
  <2>2. toolCall'[m].at = "idle"
    BY <1>2 DEF Save, NoCall
  <2>3. toolCall[n].replaces \in Entry
    BY <2>1, CallTyped DEF RecordCall
  <2>4. toolCall[n].replaces # e /\ toolCall[n].replaces # toolCall[m].replaces
    BY <1>2, <2>1 DEF Save
  <2>5. entries'[toolCall[n].replaces] = entries[toolCall[n].replaces]
    BY <1>2, <2>3, <2>4 DEF Save
  <2> QED BY <2>1, <2>2, <2>5
<1>3. ASSUME NEW m \in Member, NEW e \in Entry, Confirm(m, e) PROVE LocksHeld'
  BY <1>3, CallTyped DEF Confirm, Confirmable, Locked, RecordCall
<1>4. ASSUME NEW m \in Member, CountSales(m) \/ Prepare(m) \/ Rollback(m) PROVE LocksHeld'
  BY <1>4 DEF CountSales, Prepare, Rollback, NoCall
<1>5. ASSUME NEW m \in Member, CutOff(m) PROVE LocksHeld'
  <2>1. \A n \in Member : toolCall'[n].at = toolCall[n].at /\
          (toolCall[n].at = "record" => toolCall'[n].replaces = toolCall[n].replaces)
    BY <1>5, CallTyped DEF CutOff, RecordCall
  <2> QED BY <1>5, <2>1 DEF CutOff
<1>6. ASSUME NEW m \in Member, NEW yes \in BOOLEAN,
             TakeMessage(m, yes) \/ MarkFiled(m) \/ EndTurn(m)
      PROVE  LocksHeld'
  BY <1>6 DEF TakeMessage, MarkFiled, EndTurn
<1>7. ASSUME NEW a \in approvals, Expire(a) PROVE LocksHeld'
  BY <1>7 DEF Expire
<1>8. CASE UNCHANGED draftVars
  BY <1>8 DEF draftVars
<1> QED BY <1>1, <1>2, <1>3, <1>4, <1>5, <1>6, <1>7, <1>8 DEF DraftNext

\* The draft a call is about to replace is a draft that nothing replaces yet.
LEMMA ReplacedOnce ==
  ASSUME IInv, NEW m \in Member, toolCall[m].at = "record", toolCall[m].replaces # NoEntry
  PROVE  /\ toolCall[m].replaces \in Entry
         /\ entries[toolCall[m].replaces].status = "draft"
         /\ \A f \in Entry : entries[f].replaces # toolCall[m].replaces
<1>1. toolCall[m].replaces \in Entry /\ entries[toolCall[m].replaces].status = "draft"
  BY CallTyped DEF IInv, DraftTypeOK, LocksHeld, RecordCall
<1> QED BY <1>1 DEF IInv, Lineage

\* Every step keeps the lineage of the entries.
LEMMA StepLineage == IInv /\ [DraftNext]_draftVars => Lineage'
<1> SUFFICES ASSUME IInv, [DraftNext]_draftVars PROVE Lineage'
  OBVIOUS
<1>1. ASSUME NEW m \in Member, NEW e \in Entry, Save(m, e) PROVE Lineage'
  <2> DEFINE old == toolCall[m].replaces
  <2>1. entries[e].status = "absent" /\ entries[e].replaces = NoEntry
    BY <1>1 DEF Save, IInv, Lineage
  <2>2. /\ entries'[e].status = "draft" /\ entries'[e].replaces = old
        /\ \A f \in Entry : f # e =>
             /\ entries'[f].replaces = entries[f].replaces
             /\ f # old => entries'[f].status = entries[f].status
             /\ f = old => entries'[f].status = "superseded"
    BY <1>1 DEF Save, IInv, DraftTypeOK, EntryRow
  <2>3. old # NoEntry =>
          /\ old \in Entry /\ entries[old].status = "draft" /\ old # e
          /\ \A f \in Entry : entries[f].replaces # old
    BY <1>1, <2>1, ReplacedOnce DEF Save
  <2>4. \A f \in Entry : entries[f].replaces \in Entry \cup {NoEntry}
    BY DEF IInv, DraftTypeOK, EntryRow
  <2> HIDE DEF old
  <2>5. \A f \in Entry : entries'[f].status = "absent" => entries'[f].replaces = NoEntry
    BY <2>2 DEF IInv, Lineage
  <2>6. \A f \in Entry : entries'[f].replaces # NoEntry =>
          entries'[entries'[f].replaces].status = "superseded"
    BY <2>1, <2>2, <2>3, <2>4 DEF IInv, Lineage
  <2>7. \A f, g \in Entry :
          (entries'[f].replaces = entries'[g].replaces /\ entries'[f].replaces # NoEntry) => f = g
    BY <2>2, <2>3 DEF IInv, Lineage
  <2>8. \A g \in Entry : entries'[g].status = "superseded" =>
          \E f \in Entry : entries'[f].replaces = g
    BY <2>1, <2>2 DEF IInv, Lineage, NoEntry, Entry
  <2> QED BY <2>5, <2>6, <2>7, <2>8 DEF Lineage
<1>2. ASSUME NEW m \in Member, NEW e \in Entry, Confirm(m, e) PROVE Lineage'
  <2>1. entries[e].status = "draft" /\ entries'[e].status = "confirmed"
        /\ \A f \in Entry : /\ entries'[f].replaces = entries[f].replaces
                            /\ f # e => entries'[f].status = entries[f].status
    BY <1>2 DEF Confirm, Confirmable, IInv, DraftTypeOK, EntryRow
  <2>2. \A f \in Entry : entries[f].replaces \in Entry \cup {NoEntry}
    BY DEF IInv, DraftTypeOK, EntryRow
  <2> QED BY <2>1, <2>2 DEF IInv, Lineage
<1>3. ASSUME UNCHANGED entries PROVE Lineage'
  BY <1>3 DEF IInv, Lineage
<1> QED
  BY <1>1, <1>2, <1>3
  DEF DraftNext, draftVars, TakeMessage, BeginRecord, CountSales, Prepare, MarkFiled, EndTurn, CutOff, Rollback, Expire

\* Every step keeps what is known of the times.
LEMMA StepTimes == IInv /\ [DraftNext]_draftVars => SavedAhead'
<1> SUFFICES ASSUME IInv, [DraftNext]_draftVars PROVE SavedAhead'
  OBVIOUS
<1>t. /\ clock \in Nat /\ \A a \in approvals : a.at \in Nat
      /\ \A e \in Entry : entries[e].created \in Nat /\ entries[e].saved \in Nat
      /\ \A m \in Member : toolCall[m].at = "record" => toolCall[m].began \in Nat
  <2>1. \A m \in Member : toolCall[m].at = "record" => toolCall[m].began \in Time
    BY CallTyped DEF IInv, DraftTypeOK, RecordCall
  <2> QED BY <2>1 DEF IInv, DraftTypeOK, Approval, EntryRow, Time
<1>1. ASSUME NEW m \in Member, NEW yes \in BOOLEAN, TakeMessage(m, yes) PROVE SavedAhead'
  <2>1. clock' = clock + 1 /\ ~running[m] /\ UNCHANGED <<entries, toolCall>>
        /\ \A n \in Member : running[n] => running'[n]
    BY <1>1 DEF TakeMessage, Tick, LineFree, IInv, DraftTypeOK
  <2>2. \A a \in approvals' : a \in approvals \/ (a.at = clock + 1 /\ a.by = m)
    BY <1>1, <2>1 DEF TakeMessage
  <2>3. \A n \in Member : (toolCall[n].at = "record" /\ ~toolCall[n].cutOff) => n # m
    BY <2>1 DEF IInv, SavedAhead
  <2> QED BY <2>1, <2>2, <2>3, <1>t DEF IInv, SavedAhead
<1>2. ASSUME NEW m \in Member, NEW kind \in Kind, NEW old \in Entry \cup {NoEntry},
             BeginRecord(m, kind, old)
      PROVE  SavedAhead'
  <2>1. clock' = clock + 1 /\ running[m] /\ UNCHANGED <<entries, approvals, running>>
        /\ \A n \in Member : n # m => toolCall'[n] = toolCall[n]
    BY <1>2 DEF BeginRecord, Tick, MayCall, IInv, DraftTypeOK
  <2>2. toolCall'[m].began = clock + 1
    BY <1>2, <2>1 DEF BeginRecord, IInv, DraftTypeOK
  <2>3. \A a \in approvals : a.at <= clock + 1
    BY <1>t DEF IInv, SavedAhead
  <2> QED BY <2>1, <2>2, <2>3, <1>t DEF IInv, SavedAhead
<1>3. ASSUME NEW m \in Member, NEW e \in Entry, Save(m, e) PROVE SavedAhead'
  <2>1. UNCHANGED <<clock, approvals, running>> /\ toolCall[m].at = "record" /\ toolCall'[m].at # "record"
        /\ \A n \in Member : n # m => toolCall'[n] = toolCall[n]
    BY <1>3 DEF Save, NoCall, IInv, DraftTypeOK
  <2>2. /\ entries'[e].author = m /\ entries'[e].created = toolCall[m].began
        /\ entries'[e].saved = clock /\ entries'[e].cutOff = toolCall[m].cutOff
    BY <1>3 DEF Save
  <2>3. \A f \in Entry : f # e =>
          /\ entries'[f].author = entries[f].author /\ entries'[f].created = entries[f].created
          /\ entries'[f].saved = entries[f].saved /\ entries'[f].cutOff = entries[f].cutOff
    BY <1>3 DEF Save, IInv, DraftTypeOK, EntryRow
  <2>4. \A f \in Entry : f # e /\ entries'[f].status # "absent" => entries[f].status # "absent"
    <3>1. toolCall[m].replaces # NoEntry => entries[toolCall[m].replaces].status = "draft"
      BY <2>1, ReplacedOnce
    <3>2. NoEntry \notin Entry
      BY DEF NoEntry, Entry
    <3> QED BY <1>3, <3>1, <3>2 DEF Save
  <2>5. ~toolCall[m].cutOff => \A a \in approvals : a.by = m => a.at <= toolCall[m].began
    BY <2>1 DEF IInv, SavedAhead
  <2>6. \A f \in Entry, a \in approvals :
          (/\ entries'[f].status # "absent" /\ ~entries'[f].cutOff
           /\ a.by = entries'[f].author /\ a.at > entries'[f].created) => a.at > entries'[f].saved
    BY <2>1, <2>2, <2>3, <2>4, <2>5, <1>t DEF IInv, SavedAhead
  <2>7. \A f \in Entry : entries'[f].saved <= clock
    BY <2>2, <2>3, <1>t DEF IInv, SavedAhead
  <2> QED BY <2>1, <2>6, <2>7 DEF IInv, SavedAhead
<1>4. ASSUME NEW m \in Member, NEW e \in Entry, Confirm(m, e) PROVE SavedAhead'
  <2>1. UNCHANGED <<clock, approvals, running, toolCall>> /\ entries[e].status # "absent"
    BY <1>4 DEF Confirm, Confirmable
  <2>2. \A f \in Entry :
          /\ entries'[f].author = entries[f].author /\ entries'[f].created = entries[f].created
          /\ entries'[f].saved = entries[f].saved /\ entries'[f].cutOff = entries[f].cutOff
          /\ f # e => entries'[f].status = entries[f].status
    BY <1>4 DEF Confirm, IInv, DraftTypeOK, EntryRow
  <2> QED BY <2>1, <2>2 DEF IInv, SavedAhead
<1>5. ASSUME NEW m \in Member, CountSales(m) \/ Prepare(m) \/ Rollback(m) PROVE SavedAhead'
  <2>1. UNCHANGED <<clock, approvals, running, entries>>
        /\ \A n \in Member : toolCall'[n].at = "record" => toolCall'[n] = toolCall[n]
    <3>1. toolCall'[m].at # "record" /\ \A n \in Member : n # m => toolCall'[n] = toolCall[n]
      BY <1>5 DEF CountSales, Prepare, Rollback, NoCall, IInv, DraftTypeOK
    <3> QED BY <1>5, <3>1 DEF CountSales, Prepare, Rollback
  <2> QED BY <2>1 DEF IInv, SavedAhead
<1>6. ASSUME NEW m \in Member, CutOff(m) PROVE SavedAhead'
  <2>1. UNCHANGED <<clock, approvals, entries>> /\ \A n \in Member : n # m => running'[n] = running[n]
    BY <1>6 DEF CutOff, IInv, DraftTypeOK
  <2>2. \A n \in Member : (toolCall'[n].at = "record" /\ ~toolCall'[n].cutOff) =>
          n # m /\ toolCall'[n] = toolCall[n]
    BY <1>6, CallTyped DEF CutOff, IInv, DraftTypeOK, RecordCall
  <2> QED BY <2>1, <2>2 DEF IInv, SavedAhead
<1>7. ASSUME NEW m \in Member, EndTurn(m) PROVE SavedAhead'
  BY <1>7 DEF EndTurn, IInv, DraftTypeOK, SavedAhead
<1>8. ASSUME NEW m \in Member, MarkFiled(m) PROVE SavedAhead'
  BY <1>8 DEF MarkFiled, IInv, SavedAhead
<1>9. ASSUME NEW a \in approvals, Expire(a) PROVE SavedAhead'
  <2>1. approvals' \subseteq approvals /\ UNCHANGED <<clock, entries, running, toolCall>>
    BY <1>9 DEF Expire
  <2> QED BY <2>1 DEF IInv, SavedAhead
<1>10. CASE UNCHANGED draftVars
  BY <1>10 DEF draftVars, IInv, SavedAhead
<1> QED BY <1>1, <1>2, <1>3, <1>4, <1>5, <1>6, <1>7, <1>8, <1>9, <1>10 DEF DraftNext

\* Confirmed entries stay, with their kind.
LEMMA ConfirmedStay ==
  ASSUME IInv, [DraftNext]_draftVars
  PROVE  /\ \A e \in Entry : entries[e].status \in {"confirmed", "superseded"} => entries'[e] = entries[e]
         /\ Confirmed \subseteq Confirmed' /\ Counted("expense") \subseteq Counted("expense")'
<1>1. \A e \in Entry : entries[e].status \in {"confirmed", "superseded"} => entries'[e] = entries[e]
  <2>1. ASSUME NEW m \in Member, NEW e \in Entry, Save(m, e)
        PROVE  \A f \in Entry : entries[f].status \in {"confirmed", "superseded"} => entries'[f] = entries[f]
    <3>1. toolCall[m].replaces # NoEntry => entries[toolCall[m].replaces].status = "draft"
      BY <2>1, ReplacedOnce DEF Save
    <3>2. NoEntry \notin Entry
      BY DEF NoEntry, Entry
    <3> QED BY <2>1, <3>1, <3>2 DEF Save
  <2>2. ASSUME NEW m \in Member, NEW e \in Entry, Confirm(m, e)
        PROVE  \A f \in Entry : entries[f].status \in {"confirmed", "superseded"} => entries'[f] = entries[f]
    BY <2>2 DEF Confirm, Confirmable, IInv, DraftTypeOK
  <2>3. CASE UNCHANGED entries
    BY <2>3
  <2> QED
    BY <2>1, <2>2, <2>3
    DEF DraftNext, draftVars, TakeMessage, BeginRecord, CountSales, Prepare, MarkFiled, EndTurn, CutOff, Rollback, Expire
<1> QED BY <1>1 DEF Confirmed, Counted

\* What a preparation has read so far is completed by what is confirmed now, later too.
LEMMA StepCounts == IInv /\ [DraftNext]_draftVars => CountSound'
<1> SUFFICES ASSUME IInv, [DraftNext]_draftVars, NEW n \in Member, toolCall'[n].at = "count"
             PROVE  /\ toolCall'[n].sales \subseteq Confirmed'
                    /\ toolCall'[n].confirmed \subseteq toolCall'[n].sales \cup Counted("expense")'
  BY DEF CountSound
<1> USE DEF IInv, DraftTypeOK
<1>1. CASE toolCall'[n] = toolCall[n]
  BY <1>1, ConfirmedStay DEF CountSound
<1>2. CASE toolCall'[n] # toolCall[n]
  <2>1. CountSales(n)
    <3>1. ASSUME NEW m \in Member, NEW kind \in Kind, NEW old \in Entry \cup {NoEntry},
                 BeginRecord(m, kind, old)
          PROVE  toolCall'[n].at = "count" => toolCall'[n] = toolCall[n]
      BY <3>1 DEF BeginRecord
    <3>2. ASSUME NEW m \in Member, NEW e \in Entry, Save(m, e)
          PROVE  toolCall'[n].at = "count" => toolCall'[n] = toolCall[n]
      BY <3>2 DEF Save, NoCall
    <3>3. ASSUME NEW m \in Member, CutOff(m)
          PROVE  toolCall'[n].at = "count" => toolCall'[n] = toolCall[n]
      BY <3>3, CallTyped DEF CutOff, RecordCall
    <3>4. ASSUME NEW m \in Member, Prepare(m) \/ Rollback(m)
          PROVE  toolCall'[n].at = "count" => toolCall'[n] = toolCall[n]
      BY <3>4 DEF Prepare, Rollback, NoCall
    <3>5. ASSUME NEW m \in Member, CountSales(m), m # n
          PROVE  toolCall'[n] = toolCall[n]
      BY <3>5 DEF CountSales
    <3> QED
      BY <1>2, <3>1, <3>2, <3>3, <3>4, <3>5
      DEF DraftNext, draftVars, TakeMessage, Confirm, MarkFiled, EndTurn, Expire
  <2>2. toolCall'[n].sales = Counted("sale") /\ toolCall'[n].confirmed = Confirmed /\ UNCHANGED entries
    BY <2>1 DEF CountSales
  <2>3. Confirmed \subseteq Counted("sale") \cup Counted("expense")
    BY DEF Confirmed, Counted, EntryRow, Kind
  <2> QED BY <2>2, <2>3 DEF Counted, Confirmed
<1> QED BY <1>1, <1>2

\* The invariant is inductive.
LEMMA StepIInv == IInv /\ [DraftNext]_draftVars => IInv'
BY StepTyped, StepLocks, StepLineage, StepTimes, StepCounts DEF IInv

LEMMA Invariant == DraftSpec => []IInv
BY InitIInv, StepIInv, PTL DEF DraftSpec
-------------------------------------------------------------------------------
\* The rows of the ledger, of the yeses and of the calls are well typed in every
\* reachable state, for any members and bounds.
THEOREM TypeCorrect == DraftSpec => []DraftTypeOK
<1>1. IInv => DraftTypeOK
  BY DEF IInv
<1> QED BY <1>1, Invariant, PTL

\* A correction never counts twice (record_sale, record_expense with replaces): a
\* superseded draft is replaced by exactly one entry, a live one by none, whatever
\* corrections and confirmations overlap.
THEOREM OneVersionLives == DraftSpec => []OneLiveVersion
<1>1. IInv => OneLiveVersion
  <2> SUFFICES ASSUME IInv, NEW e \in Entry, entries[e].status # "absent"
               PROVE  Cardinality({f \in Entry : entries[f].replaces = e}) =
                        IF entries[e].status = "superseded" THEN 1 ELSE 0
    BY DEF OneLiveVersion
  <2>1. CASE entries[e].status = "superseded"
    <3>1. PICK f \in Entry : entries[f].replaces = e
      BY <2>1 DEF IInv, Lineage
    <3>2. {g \in Entry : entries[g].replaces = e} = {f}
      BY <3>1 DEF IInv, Lineage, NoEntry, Entry
    <3> QED BY <2>1, <3>2, FS_Singleton
  <2>2. CASE entries[e].status # "superseded"
    <3>1. {g \in Entry : entries[g].replaces = e} = {}
      BY <2>2 DEF IInv, Lineage, NoEntry, Entry
    <3> QED BY <2>2, <3>1, FS_EmptySet
  <2> QED BY <2>1, <2>2
<1> QED BY <1>1, Invariant, PTL

\* An entry is confirmed (confirm_entry) only on a yes younger than the call that
\* drafted it; if the yes is of the member who had it drafted in a turn that was not
\* cut off, it is younger than the moment the draft could first be shown.
THEOREM YesFollowsDraft == DraftSpec => YesAfterDraft
<1> DEFINE Rides ==
      \A e \in Confirmed' \ Confirmed : \E a \in approvals :
        /\ a.at > entries[e].created
        /\ (a.by = entries[e].author /\ ~entries[e].cutOff) => a.at > entries[e].saved
<1>1. IInv /\ [DraftNext]_draftVars => [Rides]_draftVars
  <2> SUFFICES ASSUME IInv, [DraftNext]_draftVars, NEW e \in Confirmed' \ Confirmed
               PROVE  \E a \in approvals :
                        /\ a.at > entries[e].created
                        /\ (a.by = entries[e].author /\ ~entries[e].cutOff) => a.at > entries[e].saved
    OBVIOUS
  <2>1. PICK m \in Member : Confirm(m, e)
    <3>0. e \in Entry /\ entries'[e].status = "confirmed" /\ entries[e].status # "confirmed"
      BY DEF Confirmed
    <3>1. ASSUME NEW m \in Member, NEW f \in Entry, Save(m, f) PROVE FALSE
      BY <3>0, <3>1 DEF Save, IInv, DraftTypeOK, EntryRow
    <3>2. ASSUME NEW m \in Member, NEW f \in Entry, Confirm(m, f), f # e PROVE FALSE
      BY <3>0, <3>2 DEF Confirm
    <3> QED
      BY <3>0, <3>1, <3>2
      DEF DraftNext, draftVars, TakeMessage, BeginRecord, CountSales, Prepare, MarkFiled, EndTurn, CutOff, Rollback, Expire
  <2>2. PICK a \in approvals : a.at > entries[e].created
    BY <2>1 DEF Confirm, Approved
  <2>3. e \in Entry /\ entries[e].status # "absent"
    BY <2>1 DEF Confirm, Confirmable, Confirmed
  <2> QED BY <2>2, <2>3 DEF IInv, SavedAhead
<1> QED BY <1>1, Invariant, PTL DEF DraftSpec, YesAfterDraft

\* A confirmed or superseded entry never changes, and a prepared return
\* (generate_return_summary) counts all that was confirmed when its first sum was
\* taken and nothing that is not confirmed when it is written.
THEOREM SettledStaysAndCounts == DraftSpec => SettledAndCounted
<1> DEFINE Settles ==
      /\ \A e \in Entry : entries[e].status \in {"confirmed", "superseded"} => entries'[e] = entries[e]
      /\ \A m \in Member : (toolCall[m].at = "count" /\ toolCall'[m] = NoCall /\ vatReturn' # vatReturn) =>
           toolCall[m].confirmed \subseteq vatReturn'.counted /\ vatReturn'.counted \subseteq Confirmed
<1>1. IInv /\ [DraftNext]_draftVars => [Settles]_draftVars
  <2> SUFFICES ASSUME IInv, [DraftNext]_draftVars, NEW m \in Member,
                      toolCall[m].at = "count", toolCall'[m] = NoCall, vatReturn' # vatReturn
               PROVE  toolCall[m].confirmed \subseteq vatReturn'.counted /\ vatReturn'.counted \subseteq Confirmed
    BY ConfirmedStay
  <2>1. Prepare(m)
    <3>1. ASSUME NEW n \in Member, Prepare(n), n # m PROVE FALSE
      BY <3>1 DEF Prepare, IInv, DraftTypeOK, NoCall
    <3>2. ASSUME NEW n \in Member, MarkFiled(n) PROVE FALSE
      BY <3>2 DEF MarkFiled, NoCall
    <3> QED
      BY <3>1, <3>2
      DEF DraftNext, draftVars, TakeMessage, BeginRecord, Save, Confirm, CountSales, EndTurn, CutOff, Rollback, Expire
  <2>2. vatReturn'.counted = toolCall[m].sales \cup Counted("expense")
    BY <2>1 DEF Prepare
  <2> QED BY <2>2 DEF IInv, CountSound, Counted
<1> QED BY <1>1, Invariant, PTL DEF DraftSpec, SettledAndCounted
===============================================================================
