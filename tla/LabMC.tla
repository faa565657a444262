--------------------------------- MODULE LabMC ---------------------------------
(***************************************************************************)
(* The Rehearsal Lab: the durable workers that play a run's episodes, one  *)
(* episode from its first message to its verdict, or the review of what    *)
(* came out.  To the workers an episode is so many batches of events,      *)
(* whatever is said in them, and to the review a run is so many verdicts,  *)
(* so a behaviour follows one of the three (part) and the others stay in   *)
(* their first state.                                                      *)
(***************************************************************************)
EXTENDS LabWorker, FiniteSets

CONSTANTS MaxSteps, MaxDecisions, OwnerNudges, MaxRetries, Run, Queueable, Scenario, Selection, MaxReviews

ASSUME EpisodeAssumption ==
  /\ {MaxSteps, MaxDecisions} \subseteq Nat \ {0} /\ {OwnerNudges, MaxRetries, MaxReviews} \subseteq Nat
  /\ Queueable \subseteq Run /\ IsFiniteSet(Scenario) /\ Selection \subseteq (SUBSET Scenario) \ {{}}

VARIABLES part, scene, policy, step, turn, decisions, ledger, failed, owner, evidence, mind, log,
          catalog, compared, review, verdicts, reviews

talkVars == <<scene, policy, step, turn, decisions, ledger, failed, owner, evidence, mind, log>>
reviewVars == <<catalog, compared, review, verdicts, reviews>>
labVars == <<part, vars, talkVars, reviewVars>>

Talk == INSTANCE RehearsalEpisode
Review == INSTANCE ReleaseReview WITH runs <- compared, decisions <- verdicts

LabInit ==
  /\ Init /\ Talk!Init /\ Review!Init
  /\ part \in {"workers", "talk", "review"}
  /\ part # "talk" => policy = "rules" /\ scene = Talk!BillExtraction

LabNext ==
  /\ UNCHANGED part
  /\ \/ part = "workers" /\ Next /\ UNCHANGED <<talkVars, reviewVars>>
     \/ part = "talk" /\ Talk!Next /\ UNCHANGED <<vars, reviewVars>>
     \/ part = "review" /\ Review!Next /\ UNCHANGED <<vars, talkVars>>

\* The workers' scheduling of LabWorker's Fairness.
LabFairness ==
  /\ \A w \in Worker :
       /\ WF_labVars(part = "workers" /\ Work(w) /\ UNCHANGED <<part, talkVars, reviewVars>>)
       /\ WF_labVars(part = "workers" /\ (\E e \in Episode : Claim(w, e)) /\ UNCHANGED <<part, talkVars, reviewVars>>)
  /\ \A e \in Episode : WF_labVars(part = "workers" /\ ExpireLease(e) /\ UNCHANGED <<part, talkVars, reviewVars>>)

LabSpec == LabInit /\ [][LabNext]_labVars /\ LabFairness
-------------------------------------------------------------------------------
AllTypesOK ==
  CASE part = "workers" -> TypeOK [] part = "talk" -> Talk!TypeOK [] part = "review" -> Review!TypeOK

\* Whoever resumes from an undamaged checkpoint carries on exactly where the events
\* end, a run is not summed up while one of its episodes may still change, and what a
\* person approved is so of the runs for ever.
RecordsStand ==
  /\ part = "workers" => CheckpointTellsEvents /\ SummaryIsFinal
  /\ part = "review" => Review!ApprovalStands

\* The workers implement the abstract episode, and no decision is paid for twice.
PlayedOnce == ImplementsEpisodes /\ NeverReasks

\* Every episode is completed, or given up for a person to look at.
EpisodesEnd == part = "workers" => EveryEpisodeEnds

\* In every family the rules of the product lead to a pass; whatever a policy picks, a
\* lost reply adds nothing to the ledger, what is told as saved is saved, and the
\* conversation ends by itself.
RehearsalSound ==
  part = "talk" => Talk!RulesPass /\ Talk!RetriedOnce /\ Talk!SavedMeansSaved /\ Talk!NeverCutOff
===============================================================================
