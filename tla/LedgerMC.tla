-------------------------------- MODULE LedgerMC -------------------------------
(***************************************************************************)
(* What comes into the ledger of a business, for TLC: the money it         *)
(* collects and pays (PaymentsMC), and what its members save through the   *)
(* agent (DraftLedger).  These share no row; a behaviour follows one of    *)
(* them (strand) and leaves the other in its first state.  The members'    *)
(* turns are followed twice: "drafts", of those who may record, without    *)
(* preparing a return, and "returns", with one transaction less.           *)
(***************************************************************************)
EXTENDS PaymentsMC, DraftLedger

VARIABLE strand

ledgerVars == <<allVars, draftVars, strand>>

LedgerInit ==
  /\ strand \in {"payments", "drafts", "returns"}
  /\ MCInit
  /\ strand # "payments" => part = "collection"
  /\ DraftInit
  /\ bearer = CHOOSE m \in Member : TRUE

Pay == strand = "payments" /\ MCNext /\ UNCHANGED draftVars

Draft ==
  /\ strand = "drafts" /\ DraftNext /\ UNCHANGED allVars
  /\ \A m \in Member : toolCall'[m].at # "count" /\ (running'[m] => m \in Recorder)

Return == strand = "returns" /\ DraftNext /\ clock' < MaxClock /\ UNCHANGED allVars

LedgerNext == (Pay \/ Draft \/ Return) /\ UNCHANGED strand

LedgerSpec == LedgerInit /\ [][LedgerNext]_ledgerVars /\ Fairness
===============================================================================
