--------------------------- MODULE TransitionBarrier --------------------------
(***************************************************************************)
(* internal/ledger/transition_barrier.go: the durable exclusion of one     *)
(* READY_FOR_MERGE run while one target-ref submission is unresolved, and  *)
(* the run's ledger as the barrier guards it.  The barrier is a file that  *)
(* is staged under a temporary name, hard-linked to its name and unlinked  *)
(* from the temporary one; each of the three steps is a crash point, and   *)
(* readBarrier refuses a file that has two links.                          *)
(***************************************************************************)
EXTENDS RunStates

VARIABLES barrier,   \* the barrier's files: see BarrierFile
          ledger     \* the state of the run's last transition

ledgerVars == <<barrier, ledger>>

\* absent: no file; torn: a partly written staging file; staged: the staging
\* file complete; linked: both names; active: the published barrier alone.
BarrierFile == {"absent", "torn", "staged", "linked", "active"}

\* readBarrier: the barrier's name resolves to a file with one link.
BarrierFound == barrier = "active"
\* readBarrier fails: verifyLedgerFileInfo refuses the second link.
BarrierUnreadable == barrier = "linked"

\* InstallTransitionBarrier, up to the file it has to publish: a byte-identical
\* staging file is taken over, a conflicting one (torn) is an error.
InstallRefused == BarrierUnreadable \/ barrier = "torn"
StageBarrier == barrier = "absent" /\ barrier' = "staged" /\ UNCHANGED ledger
TearStage == barrier = "absent" /\ barrier' = "torn" /\ UNCHANGED ledger
\* publishNoReplace: Link, then Remove of the staging name.
LinkBarrier == barrier = "staged" /\ barrier' = "linked" /\ UNCHANGED ledger
UnlinkStage == barrier = "linked" /\ barrier' = "active" /\ UNCHANGED ledger

\* ResolveTransitionBarrier: an absent barrier is already resolved.
ResolveTransitionBarrier ==
  /\ ~BarrierUnreadable
  /\ barrier' = IF BarrierFound THEN "absent" ELSE barrier
  /\ UNCHANGED ledger

\* authorizeTransition: a leased append never passes a barrier; the exact
\* digest passes it, and no barrier lets everybody pass.
authorizeTransition(via) == ~BarrierUnreadable /\ (BarrierFound => via = "barrier")

\* appendOrVerify of the terminal event: an event already there is verified.
AppendOrVerify(to, via) ==
  /\ authorizeTransition(via)
  /\ ledger' = to
  /\ UNCHANGED barrier
=============================================================================
