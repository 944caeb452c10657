------------------------------ MODULE RunHistory -----------------------------
(***************************************************************************)
(* What the control plane promises about one run, whoever writes its       *)
(* ledger: the run starts in RUN_CREATED and moves only along the          *)
(* lifecycle table.  milestones remembers the acceptance states the run    *)
(* has been through, so that the table's promises about the whole path can *)
(* be stated.                                                              *)
(***************************************************************************)
EXTENDS RunStates

VARIABLES state,        \* the current lifecycle state, "" before RUN_CREATED
          milestones    \* the milestones the run has reached

hvars == <<state, milestones>>

\* The states whose order along a path governance depends on.
Milestone == {"AUTHORITY_VALIDATED", "IMPLEMENTATION_COMPLETED", "BRANCH_ACCEPTED",
              "INTEGRATION_ACCEPTED", "READY_FOR_MERGE", "MERGED", "PRODUCTION_ACCEPTED"}

Init == state = "" /\ milestones = {}

Create == state = "" /\ state' = "RUN_CREATED" /\ UNCHANGED milestones

\* Mutant of Advance: every state is kept as a milestone.
AdvanceKeepsAll(to) ==
  ValidateTransition(state, to) /\ state' = to /\ milestones' = milestones \cup {to}

\* One appended transition.
Advance(to) ==
  /\ ValidateTransition(state, to)
  /\ state' = to
  /\ milestones' = milestones \cup ({to} \cap Milestone)

Next == Create \/ \E to \in State : Advance(to)

Spec == Init /\ [][Next]_hvars

-----------------------------------------------------------------------------
\* The type of the abstract run: a state of the table and milestones of it.
TypeOK == state \in State \cup {""} /\ milestones \subseteq Milestone

(* STATE_MACHINE.md section 3, invariants 1 to 3, along every path of the  *)
(* table: a run is merged or ready for merge only after its authority was  *)
(* validated, its branch accepted and its combination accepted, whatever   *)
(* retries, conflicts, waits and human decisions came in between.          *)
MergeNeedsEveryAcceptance ==
  ("MERGED" \in milestones \/ state \in {"READY_FOR_MERGE", "MERGED"}) =>
    {"AUTHORITY_VALIDATED", "BRANCH_ACCEPTED", "INTEGRATION_ACCEPTED", "READY_FOR_MERGE"} \subseteq milestones

(* COMPLETED is a control-plane conclusion: it is reached only through a   *)
(* merge.                                                                  *)
CompletionNeedsMerge == state = "COMPLETED" => "MERGED" \in milestones

(* FAILED, CANCELLED and COMPLETED are final: no transition leaves them.   *)
TerminalIsFinal == [][(state \in Terminal) => (state' = state)]_hvars
=============================================================================
