------------------------------ MODULE RunStates ------------------------------
(***************************************************************************)
(* The run lifecycle table of internal/domain/state.go: the 27 states, the *)
(* allowed transitions and ValidateTransition.  Every other module of the  *)
(* project takes its states from here.                                     *)
(***************************************************************************)

State ==
  { "RUN_CREATED", "AUTHORITY_VALIDATED", "EXECUTION_STARTING", "IMPLEMENTING",
    "IMPLEMENTATION_COMPLETED", "BRANCH_ACCEPTANCE_PENDING", "BRANCH_ACCEPTED",
    "INTEGRATION_PENDING", "INTEGRATING", "INTEGRATION_CONFLICT",
    "SEMANTIC_CONFLICT", "INTEGRATION_ACCEPTED", "READY_FOR_MERGE", "MERGED",
    "PRODUCTION_ACCEPTANCE_PENDING", "PRODUCTION_ACCEPTED", "COMPLETED",
    "RETRYING", "CAPACITY_WAIT", "RECOVERY_REQUIRED", "HUMAN_DECISION_REQUIRED",
    "SECRET_REQUIRED", "EXTERNAL_DEPENDENCY", "VALIDATION_UNAVAILABLE",
    "POLICY_BLOCKED", "FAILED", "CANCELLED" }

\* The two exits nearly every state has.
Stop == {"FAILED", "CANCELLED"}

\* allowedTransitions: the states that may follow s.
Successors(s) ==
  CASE s = "RUN_CREATED"              -> {"AUTHORITY_VALIDATED"} \cup Stop
    [] s = "AUTHORITY_VALIDATED"      -> {"EXECUTION_STARTING", "POLICY_BLOCKED", "HUMAN_DECISION_REQUIRED",
                                          "SECRET_REQUIRED", "EXTERNAL_DEPENDENCY"} \cup Stop
    [] s = "EXECUTION_STARTING"       -> {"IMPLEMENTING", "CAPACITY_WAIT", "RECOVERY_REQUIRED"} \cup Stop
    [] s = "IMPLEMENTING"             -> {"IMPLEMENTATION_COMPLETED", "RETRYING", "CAPACITY_WAIT", "RECOVERY_REQUIRED",
                                          "HUMAN_DECISION_REQUIRED", "SECRET_REQUIRED", "EXTERNAL_DEPENDENCY",
                                          "VALIDATION_UNAVAILABLE", "POLICY_BLOCKED"} \cup Stop
    [] s = "RETRYING"                 -> {"EXECUTION_STARTING"} \cup Stop
    [] s = "CAPACITY_WAIT"            -> {"EXECUTION_STARTING", "HUMAN_DECISION_REQUIRED"} \cup Stop
    [] s = "RECOVERY_REQUIRED"        -> {"EXECUTION_STARTING", "HUMAN_DECISION_REQUIRED"} \cup Stop
    [] s = "HUMAN_DECISION_REQUIRED"  -> {"AUTHORITY_VALIDATED"} \cup Stop
    [] s = "SECRET_REQUIRED"          -> {"AUTHORITY_VALIDATED"} \cup Stop
    [] s = "EXTERNAL_DEPENDENCY"      -> {"AUTHORITY_VALIDATED"} \cup Stop
    [] s = "VALIDATION_UNAVAILABLE"   -> {"BRANCH_ACCEPTANCE_PENDING", "HUMAN_DECISION_REQUIRED"} \cup Stop
    [] s = "POLICY_BLOCKED"           -> {"HUMAN_DECISION_REQUIRED"} \cup Stop
    [] s = "IMPLEMENTATION_COMPLETED" -> {"BRANCH_ACCEPTANCE_PENDING"} \cup Stop
    [] s = "BRANCH_ACCEPTANCE_PENDING" -> {"BRANCH_ACCEPTED", "VALIDATION_UNAVAILABLE", "RETRYING"} \cup Stop
    [] s = "BRANCH_ACCEPTED"          -> {"INTEGRATION_PENDING"} \cup Stop
    [] s = "INTEGRATION_PENDING"      -> {"INTEGRATING"} \cup Stop
    [] s = "INTEGRATING"              -> {"INTEGRATION_ACCEPTED", "INTEGRATION_CONFLICT", "SEMANTIC_CONFLICT",
                                          "VALIDATION_UNAVAILABLE"} \cup Stop
    [] s = "INTEGRATION_CONFLICT"     -> {"INTEGRATING", "HUMAN_DECISION_REQUIRED"} \cup Stop
    [] s = "SEMANTIC_CONFLICT"        -> {"HUMAN_DECISION_REQUIRED"} \cup Stop
    [] s = "INTEGRATION_ACCEPTED"     -> {"READY_FOR_MERGE"} \cup Stop
    [] s = "READY_FOR_MERGE"          -> {"MERGED"} \cup Stop
    [] s = "MERGED"                   -> {"PRODUCTION_ACCEPTANCE_PENDING", "COMPLETED", "FAILED"}
    [] s = "PRODUCTION_ACCEPTANCE_PENDING" -> {"PRODUCTION_ACCEPTED", "VALIDATION_UNAVAILABLE", "FAILED"}
    [] s = "PRODUCTION_ACCEPTED"      -> {"COMPLETED", "FAILED"}
    [] OTHER                          -> {}

\* Mutants of ValidateTransition: an edge too many in the table.
WithEdge(from, to, a, b) == from # to /\ (to \in Successors(from) \/ (from = a /\ to = b))
SkipsIntegration(from, to) == WithEdge(from, to, "BRANCH_ACCEPTED", "READY_FOR_MERGE")
CompletesUnmerged(from, to) == WithEdge(from, to, "VALIDATION_UNAVAILABLE", "COMPLETED")
RetriesFailed(from, to) == WithEdge(from, to, "FAILED", "RETRYING")

\* ValidateTransition: no self transition, and only what the table lists.
ValidateTransition(from, to) ==
  /\ from \in State /\ to \in State
  /\ from # to
  /\ to \in Successors(from)

\* terminalState of the read model: nothing follows these.
Terminal == {"COMPLETED", "FAILED", "CANCELLED"}
=============================================================================
