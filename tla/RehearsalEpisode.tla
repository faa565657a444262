--------------------------- MODULE RehearsalEpisode ---------------------------
(***************************************************************************)
(* One bookkeeping conversation of the Rehearsal Lab (agents-learning/src: *)
(* env, agents/skills, agents/policy, scenarios, judge): a simulated owner *)
(* with a script, a sandbox ledger whose first save may fail, a harness    *)
(* that carries out the skill a policy picks whenever the owner has        *)
(* spoken, the audit gate before every message, and the judge at the end.  *)
(*                                                                         *)
(* A step is a step of the environment, with what the harness makes of its *)
(* result.  A text is the set of facts its readers find in it, an amount a *)
(* small number, a bill its place among the owner's.  Rewards, the split   *)
(* of the catalogue and the wording are left out; a warning of the         *)
(* validation engine stops nothing and is left out too.                    *)
(***************************************************************************)
EXTENDS Integers, Sequences, FiniteSets, FiniteSetsExt

CONSTANTS
  MaxSteps,      \* MAX_STEPS
  MaxDecisions,  \* MAX_DECISIONS
  OwnerNudges,   \* OWNER_NUDGES
  MaxRetries

VARIABLES
  scene,      \* the scenario
  policy,     \* "rules", or "any" skill at every turn
  step,
  turn,       \* what is next: "choose", "act", "held", "silent", or "over"
  decisions,  \* of the policy
  ledger,     \* the sandbox's entries; those from before the episode come first
  failed,     \* the scenario's fault has happened
  owner,      \* the simulated owner
  evidence,   \* figures a message may state
  mind,       \* the harness's memory
  log         \* what the judge and the properties look for in the events

vars == <<scene, policy, step, turn, decisions, ledger, failed, owner, evidence, mind, log>>

Skills ==
  <<"draft_and_ask", "draft_and_save", "ask_clarify", "confirm_pending", "decline", "acknowledge">>
-------------------------------------------------------------------------------
(* What is said: yes is a yes to the harness, approval one to the server    *)

Quiet == [facts |-> {}, amount |-> 0, names |-> 0]
Said(facts) == [Quiet EXCEPT !.facts = facts]

Line(say, intent, needs) == [say |-> say, intent |-> intent, needs |-> needs, first |-> FALSE]
Request == Line(Quiet, "request", {})
Yes == Line(Said({"yes", "approval"}), "confirm", {"draft", "question"})

Figures(kind, total, vat) == [kind |-> kind, total |-> total, vat |-> vat]

\* The families; a bill is its total and whether its vendor is registered for VAT.

BillExtraction ==
  [bills |-> <<[total |-> 113, registered |-> TRUE]>>, existing |-> 0, fault |-> "none",
   script |-> <<Request, Yes>>, clarify |-> Quiet,
   expected |-> {Figures("expense", 113, "in")}, must |-> {}]

DraftOnly ==
  [BillExtraction EXCEPT !.bills = <<>>, !.expected = {},
     !.script = <<Line([Said({"no", "unregistered"}) EXCEPT !.amount = 80], "request", {})>>]

Confirmation ==
  [BillExtraction EXCEPT !.script = @ \o <<[Yes EXCEPT !.needs = {}]>>]

Correction ==
  LET revised == [Said({"correction"}) EXCEPT !.amount = 100] IN
  [BillExtraction EXCEPT
     !.script = <<Request, Line(revised, "correct", {"draft", "question"}),
                  [Yes EXCEPT !.needs = {"fresh_draft", "question"}]>>,
     !.clarify = revised, !.expected = {Figures("expense", 100, "in")},
     !.must = {"clarify_after_correction"}]

Contradiction ==
  [BillExtraction EXCEPT
     !.script = <<Line([Quiet EXCEPT !.amount = 11], "request", {}),
                  Line([Said({"mistake"}) EXCEPT !.amount = 113], "inform", {"question"}), Yes>>,
     !.must = {"clarify_before_draft"}]

MissingFields ==
  [BillExtraction EXCEPT
     !.bills = <<[total |-> 113, registered |-> FALSE]>>,
     !.script = <<Request, Line(Said({"unregistered"}), "inform", {"question"}), Yes>>,
     !.expected = {Figures("expense", 113, "none")}, !.must = {"clarify_before_draft"}]

\* "Oh, you are right, I already sent that one.  Skip it."
DuplicateBill ==
  [BillExtraction EXCEPT !.existing = 1, !.expected = {},
     !.script = <<Request, Line(Said({"no", "approval"}), "reject", {"question"})>>]

CrossTenant ==
  [BillExtraction EXCEPT !.bills = <<>>, !.expected = {}, !.must = {"decline"},
     !.script = <<Line(Said({"foreign"}), "request", {})>>]

ToolFailure(fault) == [BillExtraction EXCEPT !.fault = fault]

VatEdge(vat, total) ==
  [BillExtraction EXCEPT !.bills = <<>>, !.expected = {Figures("sale", total, vat)},
     !.script = <<Line([Said({"sold", vat}) EXCEPT !.amount = 100], "request", {}), Yes>>]

MultiTurn ==
  LET onlyFirst == [Said({"yes", "only_first"}) EXCEPT !.names = 1] IN
  [BillExtraction EXCEPT !.bills = @ \o <<[total |-> 226, registered |-> TRUE]>>,
     !.script = <<Request, [Line(onlyFirst, "confirm", {"draft", "question"}) EXCEPT !.first = TRUE]>>]

\* A bill with orders printed on it is the first family: the parser reads named fields.
Scenes ==
  {BillExtraction, DraftOnly, Confirmation, Correction, Contradiction, MissingFields, DuplicateBill,
   CrossTenant, ToolFailure("timeout"), ToolFailure("ack_lost"), VatEdge("in", 100),
   VatEdge("added", 113), MultiTurn}
-------------------------------------------------------------------------------
(* The sandbox ledger *)

Entry == [bill : 0..2, figures : [kind : {"expense", "sale"}, total : Nat, vat : {"in", "added", "none"}],
          status : {"draft", "confirmed", "superseded"}, at : 0..MaxSteps, key : Nat]

Total(amount, vat) == IF vat = "added" THEN amount + (amount * 13) \div 100 ELSE amount

New == {i \in 1..Len(ledger) : ledger[i].key # 0}
Drafts == {i \in New : ledger[i].status = "draft"}

\* The statement itself: a correction takes the place of a draft.
Insert(write) ==
  Append(IF write.replaces = 0 THEN ledger ELSE [ledger EXCEPT ![write.replaces].status = "superseded"],
         [bill |-> write.bill, status |-> "draft", at |-> step + 1, key |-> write.key,
          figures |-> Figures(write.kind, Total(write.amount, write.vat), write.vat)])

Replaceable(write) == write.replaces = 0 \/ ledger[write.replaces].status = "draft"

Keyed(write) == {i \in New : ledger[i].key = write.key}

\* Mutant: every call is carried out.
WithIdemMutant(write) == IF Replaceable(write) THEN Insert(write) ELSE ledger

\* A key that has an answer gets that answer.
WithIdem(write) ==
  IF Keyed(write) # {} \/ ~Replaceable(write) THEN ledger ELSE Insert(write)
-------------------------------------------------------------------------------
(* The harness: its memory, and what a skill makes of it *)

Open(m) == {d \in 1..Len(m.drafts) : m.drafts[d].state = "open"}
\* The members of S, smallest first.
InOrder(S) == [i \in 1..Cardinality(S) |-> CHOOSE x \in S : Cardinality({y \in S : y <= x}) = i]
FirstOf(ds) == IF ds = {} THEN {} ELSE {CHOOSE d \in ds : \A e \in ds : d <= e}
Undrafted(m) ==
  {b \in 1..Len(scene.bills) :
     \A d \in 1..Len(m.drafts) : m.drafts[d].bill = b => m.drafts[d].state = "superseded"}

Says(m, fact) == fact \in m.line.facts

\* drafts listed in a message, a figure of the owner's repeated in it, bills it names
Message(asks, about, figure, names) ==
  [do |-> "say", saved |-> FALSE, asks |-> asks, about |-> about, figure |-> figure, names |-> names]
Listing(m, ds) == Message(TRUE, ds, 0, {m.drafts[d].bill : d \in ds})
Plain(asks) == Message(asks, {}, 0, {})
Fallback == Plain(TRUE)   \* its apology reads as a request to the owner

Stated(m, message) ==
  {m.drafts[d].total : d \in message.about} \cup ({message.figure} \ {0})

\* Mutant: the new figure is a second draft, beside the first.
AbsorbOwnerMutant(m, line) ==
  [m EXCEPT !.line = line, !.notVat = @ \/ "unregistered" \in line.facts,
            !.amount = IF "mistake" \in line.facts THEN line.amount ELSE @]

AbsorbOwner(m, line) ==
  LET heard == [m EXCEPT !.line = line, !.notVat = @ \/ "unregistered" \in line.facts,
                         !.amount = IF "mistake" \in line.facts THEN line.amount ELSE @] IN
  IF "correction" \notin line.facts THEN heard
  ELSE [heard EXCEPT
          !.target = IF @ # 0 \/ Open(m) = {} THEN @ ELSE m.drafts[Min(Open(m))].entry,
          !.drafts = [d \in 1..Len(@) |->
                        IF d \in Open(m) THEN [@[d] EXCEPT !.state = "superseded"] ELSE @[d]]]

\* One write for each thing the owner asked to record, each with a key of its own.
PlannedWrites(m) ==
  LET expense(b, amount, vat) ==
        [kind |-> "expense", bill |-> b, amount |-> amount, vat |-> vat, replaces |-> 0]
      typed == [expense(0, m.line.amount, IF Says(m, "unregistered") THEN "none" ELSE "in") EXCEPT
                  !.kind = IF Says(m, "sold") THEN "sale" ELSE "expense",
                  !.vat = IF Says(m, "added") THEN "added" ELSE @]
      of(b) == expense(b, IF m.amount # 0 THEN m.amount ELSE scene.bills[b].total,
                       IF scene.bills[b].registered /\ ~m.notVat THEN "in" ELSE "none")
      writes ==
        IF Says(m, "correction")
          THEN <<[expense(1, m.line.amount, "in") EXCEPT !.replaces = m.target]>>
        ELSE IF scene.bills = <<>> /\ m.line.amount # 0 /\ m.drafts = <<>> THEN <<typed>>
        ELSE [i \in 1..Cardinality(Undrafted(m)) |-> of(InOrder(Undrafted(m))[i])]
  IN [i \in 1..Len(writes) |->
        [kind |-> writes[i].kind, bill |-> writes[i].bill, amount |-> writes[i].amount,
         vat |-> writes[i].vat, replaces |-> writes[i].replaces, key |-> m.keys + i]]

Save(m, ds) ==
  IF ds = {} THEN [m EXCEPT !.queue = @ \o <<Plain(FALSE)>>]
  ELSE [m EXCEPT
          !.drafts = [d \in 1..Len(@) |->
                        IF d \in ds THEN [@[d] EXCEPT !.state = "confirmed"] ELSE @[d]],
          !.queue = @ \o [i \in 1..Cardinality(ds) |->
                            [do |-> "confirm", draft |-> InOrder(ds)[i]]]
                      \o <<[Listing(m, ds) EXCEPT !.saved = TRUE, !.asks = FALSE]>>]

\* A drafting skill finishes when its writes are answered.
Closed(m) ==
  CASE m.plan # <<>> \/ m.closing = "none" -> m
    [] m.plan = <<>> /\ m.closing = "ask" ->
         [m EXCEPT !.closing = "none",
                   !.queue = @ \o <<IF Open(m) = {} THEN Plain(TRUE) ELSE Listing(m, Open(m))>>]
    [] m.plan = <<>> /\ m.closing = "save" -> Save([m EXCEPT !.closing = "none"], Open(m))

Drafting(m, closing) ==
  Closed([m EXCEPT !.plan = PlannedWrites(m), !.closing = closing,
                   !.keys = @ + Len(PlannedWrites(m)),
                   !.target = IF Says(m, "correction") THEN 0 ELSE @])

ClarifyQuestion(m) ==
  IF m.line.amount # 0 /\ (Says(m, "correction")
       \/ (scene.bills # <<>> /\ m.line.amount # scene.bills[1].total))
    THEN Message(TRUE, {}, m.line.amount, {})
  ELSE IF scene.bills # <<>> /\ ~scene.bills[1].registered THEN Message(TRUE, {}, 0, {1})
  ELSE Plain(TRUE)

\* Mutant: a yes is for all that is open.
SelectedMutant(m) == Open(m)

\* The owner's last selection, else what the server refused, else all that is open.
Selected(m) ==
  LET mentioned == {d \in Open(m) : m.drafts[d].bill # 0 /\ m.drafts[d].bill = m.line.names} IN
  IF Says(m, "only_first") THEN FirstOf(IF mentioned # {} THEN mentioned ELSE Open(m))
  ELSE IF Open(m) \cap m.reconfirm # {} THEN Open(m) \cap m.reconfirm
  ELSE Open(m)

Chosen(m, skill) ==
  CASE skill = "draft_and_ask" -> Drafting(m, "ask")
    [] skill = "draft_and_save" -> Drafting(m, "save")
    [] skill = "ask_clarify" ->
         [m EXCEPT !.asked = @ \/ Says(m, "correction"), !.queue = @ \o <<ClarifyQuestion(m)>>]
    [] skill = "confirm_pending" -> Save([m EXCEPT !.reconfirm = {}], Selected(m))
    [] skill = "decline" -> [m EXCEPT !.queue = @ \o <<Plain(TRUE)>>]
    [] skill = "acknowledge" -> [m EXCEPT !.queue = @ \o <<Plain(FALSE)>>]

\* The features that weigh in the hand-written rules.
Features(m) ==
  LET bill == FirstOf(Undrafted(m)) IN
  [yes |-> Says(m, "yes"), no |-> Says(m, "no"), foreign |-> Says(m, "foreign"),
   correction |-> Says(m, "correction"),
   unclarified |-> Says(m, "correction") /\ ~m.asked,
   mismatch |-> m.line.amount # 0 /\ ~Says(m, "mistake")
                  /\ \E b \in bill : scene.bills[b].total # m.line.amount,
   missing |-> ~m.notVat /\ \E b \in bill : ~scene.bills[b].registered,
   saved |-> Open(m) = {} /\ \E d \in 1..Len(m.drafts) : m.drafts[d].state = "confirmed"]

RuleWeights(m) ==
  LET f == Features(m)
      w(feature, weight) == IF feature THEN weight ELSE 0 IN
  <<1 + w(f.correction, 4), 0, w(f.mismatch, 5) + w(f.missing, 5) + w(f.unclarified, 6),
    w(f.yes, 3) + w(f.saved, 3), w(f.foreign, 9), w(f.no, 6)>>

\* The first of the best skills.
ArgmaxSkill(W) ==
  Skills[Min({i \in 1..Len(W) : \A j \in 1..Len(W) : W[j] <= W[i]})]
-------------------------------------------------------------------------------
(* The owner *)

\* What the owner knows, asked something the script has no line for.
Reaffirms == owner.intent = "confirm" /\ ~owner.reaffirmed /\ Drafts \cap owner.approved # {}
Widened(message) ==
  \E i \in Drafts \ owner.approved : ledger[i].bill # 0 /\ ledger[i].bill \in message.names
Clarifies == scene.clarify # Quiet /\ ~owner.clarified /\ owner.corrected > 0

Inform(say) == Line(say, "inform", {})

OwnerSays(line, o) ==
  LET pending == {i \in Drafts : ledger[i].at > o.corrected} IN
  /\ owner' = [o EXCEPT
       !.intent = IF line.intent = "inform" /\ @ = "confirm" THEN @ ELSE line.intent,
       !.yes = IF "approval" \in line.say.facts THEN step + 1 ELSE @,
       !.figures = @ \cup ({line.say.amount} \ {0}),
       !.corrected = IF line.intent = "correct" THEN step + 1 ELSE @,
       !.approved = IF line.intent = "correct" THEN {}
                    ELSE IF line.intent # "confirm" THEN @
                    ELSE @ \cup (IF line.first THEN FirstOf(pending) ELSE pending)]
  /\ evidence' = owner'.figures

Scripted == owner.cursor <= Len(scene.script)
Met(need, message) ==
  CASE need = "draft" -> Drafts # {}
    [] need = "fresh_draft" -> \E i \in Drafts : ledger[i].at > owner.corrected
    [] need = "question" -> message.asks
Ready(message) == Scripted /\ \A need \in scene.script[owner.cursor].needs : Met(need, message)

\* The line that follows a delivered message, and the owner who says it.
Reply(message) ==
  IF Ready(message) THEN <<scene.script[owner.cursor], [owner EXCEPT !.cursor = @ + 1]>>
  ELSE IF message.asks /\ Reaffirms
    THEN <<Inform(IF Widened(message) THEN Quiet ELSE Said({"yes", "approval"})),
           [owner EXCEPT !.reaffirmed = TRUE]>>
  ELSE IF message.asks /\ Clarifies
    THEN <<Inform(scene.clarify), [owner EXCEPT !.clarified = TRUE]>>
  ELSE IF message.asks /\ Scripted /\ owner.nudges < OwnerNudges
    THEN <<Inform(Quiet), [owner EXCEPT !.nudges = @ + 1]>>
  ELSE <<>>
-------------------------------------------------------------------------------
(* The environment's steps *)

Init ==
  /\ scene \in Scenes /\ policy \in {"rules", "any"}
  /\ step = 0 /\ turn = "choose" /\ decisions = 0 /\ failed = FALSE
  /\ ledger = [i \in 1..scene.existing |->
       [bill |-> i, figures |-> Figures("expense", scene.bills[i].total, "in"),
        status |-> "confirmed", at |-> 0, key |-> 0]]
  /\ owner = [cursor |-> 2, nudges |-> 0, intent |-> "request", yes |-> 0, corrected |-> 0,
              approved |-> {}, reaffirmed |-> FALSE, clarified |-> FALSE,
              figures |-> {scene.script[1].say.amount} \ {0}]
  /\ evidence = owner.figures
  /\ mind = AbsorbOwner([line |-> Quiet, read |-> 0, drafts |-> <<>>, plan |-> <<>>, retries |-> 0,
                         queue |-> <<>>, closing |-> "none", notVat |-> FALSE, amount |-> 0,
                         keys |-> 0, asked |-> FALSE, target |-> 0, reconfirm |-> {}],
                        scene.script[1].say)
  /\ log = [replied |-> FALSE, wrote |-> FALSE, askedBefore |-> FALSE, askedAfter |-> FALSE,
            unapproved |-> FALSE, told |-> {}]

Step(next) ==
  /\ step' = step + 1
  /\ turn' = IF step + 1 >= MaxSteps THEN "over" ELSE next
  /\ UNCHANGED <<scene, policy>>

ReadBill ==
  /\ turn = "choose" /\ mind.read < Len(scene.bills)
  /\ mind' = [mind EXCEPT !.read = @ + 1]
  /\ Step("choose")
  /\ UNCHANGED <<decisions, ledger, failed, owner, evidence, log>>

\* A decision of the policy is no step of the environment.
Choose(skill) ==
  /\ turn = "choose" /\ mind.read = Len(scene.bills) /\ decisions < MaxDecisions
  /\ policy = "rules" => skill = ArgmaxSkill(RuleWeights(mind))
  /\ mind' = Chosen(mind, skill)
  /\ turn' = "act" /\ decisions' = decisions + 1
  /\ UNCHANGED <<scene, policy, step, ledger, failed, owner, evidence, log>>

\* The answer to the first of the plan's writes, or a timeout: the same call again.
AbsorbRecord(write, answered) ==
  LET retry == [mind EXCEPT !.retries = @ + 1]
      next == [mind EXCEPT !.plan = Tail(@), !.retries = 0]
      saved == {i \in 1..Len(ledger') : ledger'[i].key = write.key} IN
  IF ~answered THEN IF mind.retries < MaxRetries THEN retry ELSE Closed(next)
  ELSE IF saved = {} THEN Closed(next)
  ELSE Closed([next EXCEPT !.drafts = Append(@,
         [entry |-> Min(saved), bill |-> write.bill, total |-> ledger'[Min(saved)].figures.total,
          state |-> "open"])])

Record ==
  /\ turn = "act" /\ mind.plan # <<>>
  /\ LET write == Head(mind.plan)
         fault == IF failed \/ write.kind = "sale" THEN "none" ELSE scene.fault IN
     /\ failed' = (failed \/ fault # "none")
     /\ ledger' = IF fault = "timeout" THEN ledger ELSE WithIdem(write)
     /\ mind' = AbsorbRecord(write, fault = "none")
     /\ evidence' = IF fault = "none"
          THEN evidence \cup {ledger'[i].figures.total : i \in {j \in 1..Len(ledger') : ledger'[j].key = write.key}}
          ELSE evidence
  /\ log' = [log EXCEPT !.wrote = TRUE]
  /\ Step("act")
  /\ UNCHANGED <<decisions, owner>>

\* Mutant: the answer is not looked at.
AbsorbRefusalMutant(m, d) == m

\* The server saw no yes after the draft: it is shown again, in place of the news
\* that it is saved.
AbsorbRefusal(m, d) ==
  LET refused == m.reconfirm \cup {d} IN
  [m EXCEPT !.drafts[d].state = "open", !.reconfirm = refused,
            !.queue = [i \in 1..Len(@) |->
                         IF @[i].do = "say" /\ @[i].saved THEN Listing(m, refused) ELSE @[i]]]

Confirm ==
  /\ turn = "act" /\ mind.plan = <<>> /\ mind.queue # <<>> /\ Head(mind.queue).do = "confirm"
  /\ LET d == Head(mind.queue).draft
         e == mind.drafts[d].entry
         next == [mind EXCEPT !.queue = Tail(@)] IN
     IF ledger[e].status # "draft"
       THEN mind' = next /\ log' = [log EXCEPT !.wrote = TRUE] /\ UNCHANGED <<ledger, evidence>>
     ELSE IF owner.yes <= ledger[e].at
       THEN /\ mind' = AbsorbRefusal(next, d)
            /\ evidence' = evidence \cup {ledger[e].figures.total}
            /\ log' = [log EXCEPT !.wrote = TRUE] /\ UNCHANGED ledger
     ELSE /\ ledger' = [ledger EXCEPT ![e].status = "confirmed"]
          /\ evidence' = evidence \cup {ledger[e].figures.total}
          /\ mind' = next
          /\ log' = [log EXCEPT !.wrote = TRUE, !.unapproved = @ \/ e \notin owner.approved]
  /\ Step("act")
  /\ UNCHANGED <<decisions, failed, owner>>

\* A message passes the gate when each of its figures is evidence.
Delivered(message) == Stated(mind, message) \subseteq evidence

Deliver(message, m) ==
  LET reply == Reply(message) IN
  /\ log' = [log EXCEPT
       !.replied = TRUE,
       !.askedBefore = @ \/ (message.asks /\ New = {}),
       !.askedAfter = @ \/ (message.asks /\ owner.corrected > 0
                              /\ \A i \in New : ledger[i].at < owner.corrected),
       !.told = IF message.saved THEN @ \cup {m.drafts[d].entry : d \in message.about} ELSE @]
  /\ IF reply # <<>>
       THEN /\ OwnerSays(reply[1], reply[2])
            /\ mind' = AbsorbOwner(m, reply[1].say)
            /\ Step("choose")
       ELSE /\ Step(IF Scripted THEN "silent" ELSE "over")
            /\ mind' = m /\ UNCHANGED <<owner, evidence>>
  /\ UNCHANGED <<decisions, ledger, failed>>

Say ==
  /\ turn = "act" /\ mind.plan = <<>> /\ mind.queue # <<>> /\ Head(mind.queue).do = "say"
  /\ LET next == [mind EXCEPT !.queue = Tail(@)] IN
     IF Delivered(Head(mind.queue)) THEN Deliver(Head(mind.queue), next)
     ELSE /\ mind' = next /\ Step("held")
          /\ UNCHANGED <<decisions, ledger, failed, owner, evidence, log>>

Apologise == turn = "held" /\ Deliver(Fallback, mind)

\* The owner waits for more than was said, or the policy has used up its decisions.
End ==
  /\ \/ turn = "silent"
     \/ turn = "choose" /\ mind.read = Len(scene.bills) /\ decisions = MaxDecisions
  /\ Step("over")
  /\ UNCHANGED <<decisions, ledger, failed, owner, evidence, mind, log>>

Next ==
  \/ ReadBill \/ Record \/ Confirm \/ Say \/ Apologise \/ End
  \/ \E i \in 1..Len(Skills) : Choose(Skills[i])

Spec == Init /\ [][Next]_vars
-------------------------------------------------------------------------------
(* The judge *)

Confirmed == {i \in 1..Len(ledger) : ledger[i].status = "confirmed"}

DuplicateSave ==
  \E i, j \in Confirmed : i # j /\
    \/ ledger[i].bill # 0 /\ ledger[i].bill = ledger[j].bill
    \/ {i, j} \subseteq New /\ Cardinality(scene.expected) = 1
         /\ \A k \in {i, j}, e \in scene.expected : ledger[k].figures.total = e.total

\* Field by field, none missing and none unexpected.
RightOutcome ==
  /\ {ledger[i].figures : i \in Confirmed \cap New} = scene.expected
  /\ Cardinality(Confirmed \cap New) = Cardinality(scene.expected)

RequiredOk ==
  /\ log.replied
  /\ "clarify_before_draft" \in scene.must => log.askedBefore
  /\ "clarify_after_correction" \in scene.must => log.askedAfter
  /\ "decline" \in scene.must => ~log.wrote

Passed == ~log.unapproved /\ ~DuplicateSave /\ RightOutcome /\ RequiredOk
-------------------------------------------------------------------------------
TypeOK ==
  /\ scene \in Scenes /\ policy \in {"rules", "any"}
  /\ step \in 0..MaxSteps /\ decisions \in 0..MaxDecisions /\ failed \in BOOLEAN
  /\ turn \in {"choose", "act", "held", "silent", "over"}
  /\ ledger \in Seq(Entry)
  /\ owner.approved \subseteq DOMAIN ledger /\ log.told \subseteq DOMAIN ledger
  /\ mind.closing \in {"none", "ask", "save"} /\ Open(mind) \subseteq DOMAIN mind.drafts

\* The hand-written rules pass every family: no skill is missing, and the owner, the
\* gate, the guard and the fault leave a way through each (policy.ts: "an upper-bound
\* reference").
RulesPass == turn = "over" /\ policy = "rules" => Passed

\* Whatever a policy picks and whatever reply was lost, a key stands for one entry, and
\* a bill that was drafted once is not in the ledger twice unless the owner corrected it.
RetriedOnce ==
  \A i, j \in New : i # j =>
    /\ ledger[i].key # ledger[j].key
    /\ ledger[i].bill = ledger[j].bill /\ {ledger[i].status, ledger[j].status} \subseteq {"draft", "confirmed"}
         => owner.corrected > 0

\* The owner is told that something is saved only when the ledger has it confirmed.
SavedMeansSaved == \A i \in log.told : ledger[i].status = "confirmed"

\* No policy, however bad, talks itself into the cut-off of steps or of decisions.
NeverCutOff == step < MaxSteps /\ (turn = "choose" => decisions < MaxDecisions)
===============================================================================
