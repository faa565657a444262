----------------------------- MODULE ReleaseReview -----------------------------
(***************************************************************************)
(* From the runs of the Rehearsal Lab to a decision on a candidate: an     *)
(* evaluation saved whole (experiment/evaluate.ts, store/persist.ts), a    *)
(* run queued for the workers (runner/worker.ts, of which LabWorker tells  *)
(* the episodes), the rule of the release gate                             *)
(* (shared/src/rehearsal/release-gate.ts), and the form in which a person  *)
(* decides (orchestrator/src/admin/lab.ts).                                *)
(*                                                                         *)
(* The form's verdict is computed from four queries that share no          *)
(* transaction; the workers go on meanwhile.  Confidence intervals and     *)
(* p-values are shown beside the verdict and do not enter it.              *)
(***************************************************************************)
EXTENDS Integers, FiniteSets

CONSTANTS
  Run,        \* rows of rehearsal.runs
  Queueable,  \* those that may be made by queueing; the others are saved whole
  Scenario,
  Selection,  \* sets of scenarios a run is begun with
  MaxReviews  \* bound: forms sent

VARIABLES
  catalog,    \* which dataset the lab's code has, and datasetHash() tells
  runs,       \* rehearsal.runs and their episodes; the report a run was saved from
  review,     \* the form being answered, and what its queries returned so far
  decisions,  \* rehearsal.release_decisions
  reviews     \* forms sent so far

vars == <<catalog, runs, review, decisions, reviews>>
-------------------------------------------------------------------------------
Judged == {"pass", "fail", "hard"}
Outcome == Judged \cup {"quarantined"}
Case == Outcome \cup {"none", "open"}
Dataset == {"old", "new"}
NoRun == [status |-> "none", dataset |-> "old", cases |-> [s \in Scenario |-> "none"], partial |-> FALSE]
RunRow ==
  [status: {"none", "queued", "completed"}, dataset: Dataset, cases: [Scenario -> Case], partial: BOOLEAN]

\* What gateFor knows of a run.
Loaded == [dataset: Dataset, complete: BOOLEAN, cases: [Scenario -> Case]]

NoReview == [at |-> "idle"]
Pair == {p \in Run \X Run : p[1] # p[2]}
ReviewState == {NoReview}
  \cup [at: {"baseline run"}, pair: Pair]
  \cup [at: {"baseline episodes", "candidate run"}, pair: Pair, baseline: Loaded]
  \cup [at: {"candidate episodes", "gate"}, pair: Pair, baseline: Loaded, candidate: Loaded]

TypeOK ==
  /\ catalog \in Dataset
  /\ runs \in [Run -> RunRow]
  /\ review \in ReviewState
  /\ decisions \subseteq [pair: Pair, gate: {"PASS", "FAIL", "BLOCKED"}, decision: {"approved", "rejected"}]
  /\ reviews \in 0..MaxReviews

Init ==
  /\ catalog = "old"
  /\ runs = [r \in Run |-> NoRun]
  /\ review = NoReview
  /\ decisions = {} /\ reviews = 0
-------------------------------------------------------------------------------
\* Operators named ...Mutant are wrong versions of the definition after them,
\* kept to show that a property notices the change; the model does not use them.

\* A new version of the lab's code; of interest while there is a run to come.
ChangeCatalog ==
  /\ \E r \in Run : runs[r] = NoRun
  /\ catalog' = "new"
  /\ UNCHANGED <<runs, review, decisions, reviews>>

\* evaluate and persistReport: the selected scenarios are played here, fewer if the
\* money is spent before the last; what was played is saved as a completed run.
SaveReport(r, selected, results) ==
  /\ runs[r] = NoRun
  /\ \E played \in SUBSET selected :
       runs' = [runs EXCEPT ![r] =
         [status |-> "completed", dataset |-> catalog, partial |-> played # selected,
          cases |-> [s \in Scenario |-> IF s \in played THEN results[s] ELSE "none"]]]
  /\ UNCHANGED <<catalog, review, decisions, reviews>>

\* enqueueRun
Enqueue(r, selected) ==
  /\ r \in Queueable /\ runs[r] = NoRun
  /\ runs' = [runs EXCEPT ![r] =
       [status |-> "queued", dataset |-> catalog, partial |-> FALSE,
        cases |-> [s \in Scenario |-> IF s \in selected THEN "open" ELSE "none"]]]
  /\ UNCHANGED <<catalog, review, decisions, reviews>>

\* A worker completes an episode or gives it up for a person to look at.
EndEpisode(r, s, outcome) ==
  /\ runs[r].cases[s] = "open"
  /\ runs' = [runs EXCEPT ![r].cases[s] = outcome]
  /\ UNCHANGED <<catalog, review, decisions, reviews>>

NothingOpen(r) == \A s \in Scenario : runs[r].cases[s] # "open"

\* finalizeRunIfDone, by whichever worker completed an episode.
FinalizeRun(r) ==
  /\ runs[r].status = "queued" /\ NothingOpen(r)
  /\ \E s \in Scenario : runs[r].cases[s] \in Judged
  /\ runs' = [runs EXCEPT ![r].status = "completed"]
  /\ UNCHANGED <<catalog, review, decisions, reviews>>
-------------------------------------------------------------------------------
Shared(base, cand) == {s \in Scenario : base.cases[s] # "none" /\ cand.cases[s] # "none"}
Passed(run, scenarios) == Cardinality({s \in scenarios : run.cases[s] = "pass"})
HardViolation(run) == \E s \in Scenario : run.cases[s] = "hard"

\* Mutant: an incomplete run compares by what it has.
NotComparableMutant(base, cand) == Shared(base, cand) = {} \/ base.dataset # cand.dataset

NotComparable(base, cand) ==
  Shared(base, cand) = {} \/ ~base.complete \/ ~cand.complete \/ base.dataset # cand.dataset

\* releaseGate: a failure counts for more than the lack of a comparison.
ReleaseGate(base, cand) ==
  LET both == Shared(base, cand)
  IN CASE HardViolation(cand) \/ Passed(cand, both) < Passed(base, both) -> "FAIL"
       [] ~HardViolation(cand) /\ Passed(cand, both) >= Passed(base, both) ->
            IF NotComparable(base, cand) THEN "BLOCKED" ELSE "PASS"

\* Mutant: an episode that was given up is left out of the comparison.
AllCompletedMutant(cases) == \A s \in Scenario : cases[s] # "open"

AllCompleted(cases) == \A s \in Scenario : cases[s] \notin {"open", "quarantined"}

\* gateFor, on rows read together.
AsLoaded(run) ==
  [dataset |-> run.dataset, cases |-> run.cases,
   complete |-> run.status = "completed" /\ AllCompleted(run.cases)]

\* compare, on the reports the runs were saved from.
AsReport(run) == [dataset |-> run.dataset, cases |-> run.cases, complete |-> ~run.partial]
-------------------------------------------------------------------------------
Submit(pair) ==
  /\ review = NoReview /\ reviews < MaxReviews
  /\ runs[pair[1]] # NoRun /\ runs[pair[2]] # NoRun
  /\ review' = [at |-> "baseline run", pair |-> pair]
  /\ reviews' = reviews + 1
  /\ UNCHANGED <<catalog, runs, decisions>>

Running(r) == [dataset |-> runs[r].dataset, complete |-> runs[r].status = "completed", cases |-> NoRun.cases]

WithCases(loaded, r) ==
  [loaded EXCEPT !.cases = runs[r].cases, !.complete = @ /\ AllCompleted(runs[r].cases)]

\* load, of the run and then of its episodes, first of the baseline.
Load ==
  /\ LET pair == review.pair IN
     review' =
       CASE review.at = "baseline run" ->
              [at |-> "baseline episodes", pair |-> pair, baseline |-> Running(pair[1])]
         [] review.at = "baseline episodes" ->
              [at |-> "candidate run", pair |-> pair, baseline |-> WithCases(review.baseline, pair[1])]
         [] review.at = "candidate run" ->
              [at |-> "candidate episodes", pair |-> pair, baseline |-> review.baseline,
               candidate |-> Running(pair[2])]
         [] review.at = "candidate episodes" ->
              [review EXCEPT !.at = "gate", !.candidate = WithCases(@, pair[2])]
  /\ UNCHANGED <<catalog, runs, decisions, reviews>>

LoadStep == review.at \notin {"idle", "gate"} /\ Load

\* Mutant: an approval is refused only where the candidate fails.
MayDecideMutant(gate, decision) == decision = "approved" => gate # "FAIL"

\* The verdict is computed again by the server, and the table has the same check.
MayDecide(gate, decision) == decision = "approved" => gate = "PASS"

Decide(decision) ==
  /\ review.at = "gate"
  /\ LET gate == ReleaseGate(review.baseline, review.candidate)
     IN decisions' = IF MayDecide(gate, decision)
                     THEN decisions \cup {[pair |-> review.pair, gate |-> gate, decision |-> decision]}
                     ELSE decisions
  /\ review' = NoReview
  /\ UNCHANGED <<catalog, runs, reviews>>

Next ==
  \/ ChangeCatalog
  \/ \E r \in Run, selected \in Selection :
       Enqueue(r, selected) \/ \E results \in [Scenario -> Judged] : SaveReport(r, selected, results)
  \/ \E r \in Run : FinalizeRun(r) \/ \E s \in Scenario, outcome \in Outcome : EndEpisode(r, s, outcome)
  \/ \E pair \in Pair : Submit(pair)
  \/ LoadStep
  \/ \E decision \in {"approved", "rejected"} : Decide(decision)

Spec == Init /\ [][Next]_vars
-------------------------------------------------------------------------------
\* An approval stands: though the workers went on between the queries, every episode of
\* both runs is judged, now and ever after, no hard rule is broken in the candidate's, and
\* of the scenarios both have, on one dataset, it passes as many as the baseline.
ApprovalStands ==
  \A d \in decisions : d.decision = "approved" =>
    LET base == runs[d.pair[1]]
        cand == runs[d.pair[2]]
        both == {s \in Scenario : base.cases[s] \in Judged /\ cand.cases[s] \in Judged}
    IN /\ base.dataset = cand.dataset /\ both # {}
       /\ \A s \in Scenario : {base.cases[s], cand.cases[s]} \subseteq Judged \cup {"none"}
       /\ \A s \in Scenario : cand.cases[s] # "hard"
       /\ Cardinality({s \in both : cand.cases[s] = "pass"}) >= Cardinality({s \in both : base.cases[s] = "pass"})

\* release-gate.ts:2: the lab's command line and the panel never disagree about whether
\* a candidate may ship, of two runs whose reports are saved.
OneRule ==
  \A pair \in Pair :
    LET base == runs[pair[1]]
        cand == runs[pair[2]]
    IN base.status = "completed" /\ cand.status = "completed"
         /\ AllCompleted(base.cases) /\ AllCompleted(cand.cases) =>
         ReleaseGate(AsLoaded(base), AsLoaded(cand)) = ReleaseGate(AsReport(base), AsReport(cand))
===============================================================================
