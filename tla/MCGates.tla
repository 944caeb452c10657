------------------------------- MODULE MCGates -------------------------------
(***************************************************************************)
(* What stands between a run's steps, each part for TLC on its own small   *)
(* instance: the lifecycle table, the governance ledger, the integration   *)
(* gate, the recovery of a dead attempt, the file of the ledger, the hand- *)
(* over of the plan to the builder and the store of what a client is shown *)
(* of it. They share no state here, so a behaviour moves one of them,      *)
(* chosen at the start.                                                    *)
(***************************************************************************)
EXTENDS RunHistory, Governance, IntegrationGate, Recovery, LedgerFile, PlanHandoff, ActivityStore

VARIABLE focus   \* the component that moves; the others stay at their start

PathsFor(r) == IF r = "r1" THEN {"p"} ELSE {"q"}
\* Two candidates, a required contract check and an optional lint.
Order == <<"a", "b">>
Commands == <<[class |-> "contract", required |-> TRUE], [class |-> "lint", required |-> FALSE]>>
\* The transitions of one run.
LedgerRun(e) == "r"

MCGatesInit ==
  /\ focus \in {"history", "governance", "integration", "recovery", "ledger", "handoff", "activity"}
  /\ Init /\ GVInit /\ IGInit /\ RCInit /\ LFInit /\ PHInit /\ ASInit
  /\ focus = "integration" \/ igWorld = [paths |-> [c \in IGCandidates |-> IGPaths], clashes |-> {}, contained |-> {}, moved |-> {}]
  /\ focus = "recovery" \/ rcOwner = "running"

MCGatesNext ==
  \/ focus = "history" /\ Next /\ UNCHANGED <<focus, gvVars, igVars, rcVars, lfVars, phVars, asVars>>
  \/ focus = "governance" /\ GVNext /\ UNCHANGED <<focus, hvars, igVars, rcVars, lfVars, phVars, asVars>>
  \/ focus = "integration" /\ IGNext /\ UNCHANGED <<focus, hvars, gvVars, rcVars, lfVars, phVars, asVars>>
  \/ focus = "recovery" /\ RCNext /\ UNCHANGED <<focus, hvars, gvVars, igVars, lfVars, phVars, asVars>>
  \/ focus = "ledger" /\ LFNext /\ UNCHANGED <<focus, hvars, gvVars, igVars, rcVars, phVars, asVars>>
  \/ focus = "handoff" /\ PHNext /\ UNCHANGED <<focus, hvars, gvVars, igVars, rcVars, lfVars, asVars>>
  \/ focus = "activity" /\ ASNext /\ UNCHANGED <<focus, hvars, gvVars, igVars, rcVars, lfVars, phVars>>

MCGatesVars == <<focus, hvars, gvVars, igVars, rcVars, lfVars, phVars, asVars>>
MCGatesSpec == MCGatesInit /\ [][MCGatesNext]_MCGatesVars

-----------------------------------------------------------------------------
\* The files of a run survive the deaths of the processes that share them: the
\* ledger with its run locks, the plan's copy with its slots and its lease, and
\* the store of its activity with its sequence, its registry and its anchors.
RunFilesSound == LFSound /\ PHSound /\ ASSound
=============================================================================
