------------------------------ MODULE MCDecision -----------------------------
(***************************************************************************)
(* HumanDecision for TLC, and what comments say of resuming that the code  *)
(* does not keep.                                                          *)
(***************************************************************************)
EXTENDS HumanDecision, TLC

(* runadmission/resume_linux.go: resuming "allows the legitimate sequence  *)
(* pause -> resume -> re-implement -> pause -> resume": a resumed process  *)
(* that finds its pause answered goes on.                                  *)
EveryAnsweredPauseResumes ==
  resumed /\ at = "" /\ pc = "choose" /\ CurrentState(ledger) = "HUMAN_DECISION_REQUIRED"
    /\ AnswersTo(ledger, LatestTransition(ledger)) # {}
  => PendingAnswer # {}

(* actionapi/controller.go: the paused run is re-launched "so the recorded *)
(* answer takes effect", for every applied decision.                       *)
AppliedAnswerTakesEffect ==
  \A d \in Decisions :
    (status[d] = "APPLIED") ~> ~(CurrentState(ledger) = "HUMAN_DECISION_REQUIRED" /\ LatestTransition(ledger) = ref[d])
=============================================================================
