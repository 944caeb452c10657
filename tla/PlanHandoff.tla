----------------------------- MODULE PlanHandoff -----------------------------
(***************************************************************************)
(* internal/run: the run slots and the execution lease of a repository,    *)
(* and the copy of the plan a worktree run leaves in it for the builder    *)
(* (run.go and repository_lease_linux.go).  The copy is named by an        *)
(* ownership record and a lock its run holds; every run that starts takes  *)
(* the lease and removes the copies whose owner is gone.  Runs in the      *)
(* repository itself take every slot and leave no copy.                    *)
(***************************************************************************)
EXTENDS Naturals, FiniteSets

CONSTANTS PHRuns,
          PHExclusive,  \* the runs without a worktree
          PHSlots,      \* parallelRuns
          PHFaults      \* bound: deaths, and writes that stop part way

NoPHRun == "no-run"
PHSlot == 1..PHSlots

ASSUME PHAssumption ==
  NoPHRun \notin PHRuns /\ PHExclusive \subseteq PHRuns /\ PHSlots \in Nat \ {0} /\ PHFaults \in Nat

VARIABLES phPC,      \* where each run is
          phSlot,    \* who holds each slot's flock
          phLease,   \* who holds the repository execution lease
          phLock,    \* the lock file beside a record: none, left, or held by its run
          phRec,     \* the ownership record: its temporary name, its name, both
          phDir,     \* the directory of the copy exists
          phPlan,    \* the copy
          phTorn,    \* a copy was ever left part way
          phFaults

phFiles == <<phLock, phRec, phDir, phPlan>>
phVars == <<phPC, phSlot, phLease, phFiles, phTorn, phFaults>>

PHPC == {"idle", "slots", "lease", "recover", "validate", "lock", "record", "link", "unlink", "mkdir", "copy",
         "execute", "retake", "cleanup"}

PHTypeOK ==
  /\ phPC \in [PHRuns -> PHPC] /\ phSlot \in [PHSlot -> PHRuns \cup {NoPHRun}] /\ phLease \in PHRuns \cup {NoPHRun}
  /\ phLock \in [PHRuns -> {"none", "left", "held"}] /\ phRec \in [PHRuns -> {"none", "temporary", "both", "named"}]
  /\ phDir \in [PHRuns -> BOOLEAN] /\ phPlan \in [PHRuns -> {"none", "part", "whole"}]
  /\ phTorn \in BOOLEAN /\ phFaults \in 0..PHFaults

PHInit ==
  /\ phPC = [r \in PHRuns |-> "idle"] /\ phSlot = [s \in PHSlot |-> NoPHRun] /\ phLease = NoPHRun
  /\ phLock = [r \in PHRuns |-> "none"] /\ phRec = [r \in PHRuns |-> "none"]
  /\ phDir = [r \in PHRuns |-> FALSE] /\ phPlan = [r \in PHRuns |-> "none"]
  /\ phTorn = FALSE /\ phFaults = 0

PHAt(p, pc) == phPC[p] = pc
PHGo(p, pc) == phPC' = [phPC EXCEPT ![p] = pc]
PHSlotsOf(p) == {s \in PHSlot : phSlot[s] = p}
PHFreeSlots == {s \in PHSlot : phSlot[s] = NoPHRun}

\* The deferred calls of Run: the lease, the slots and the lock are let go.
PHLetGo(p) ==
  /\ PHGo(p, "idle")
  /\ phSlot' = [s \in PHSlot |-> IF phSlot[s] = p THEN NoPHRun ELSE phSlot[s]]
  /\ phLease' = IF phLease = p THEN NoPHRun ELSE phLease

PHUnlocked(p) == IF phLock[p] = "held" THEN [phLock EXCEPT ![p] = "left"] ELSE phLock

\* A step that fails, outside the handoff's own files: the run ends.
PHFail(p) == PHLetGo(p) /\ phLock' = PHUnlocked(p) /\ UNCHANGED <<phRec, phDir, phPlan, phTorn, phFaults>>

PHStart(p) ==
  /\ PHAt(p, "idle") /\ PHGo(p, "slots")
  /\ UNCHANGED <<phSlot, phLease, phFiles, phTorn, phFaults>>

-----------------------------------------------------------------------------
\* Mutant of PHNextSlots: an exclusive run takes whatever slot is free.
PHNextSlotsAny(p) == PHFreeSlots

\* acquireExecutionSlots: any one slot, or every slot in slot order.
PHNextSlots(p) ==
  IF p \in PHExclusive THEN {s \in PHFreeSlots : \A t \in 1..(s - 1) : phSlot[t] = p} ELSE PHFreeSlots

acquireExecutionSlots(p) ==
  /\ PHAt(p, "slots")
  /\ \E s \in PHNextSlots(p) :
       /\ phSlot' = [phSlot EXCEPT ![s] = p]
       /\ IF p \in PHExclusive /\ PHSlotsOf(p) \cup {s} # PHSlot THEN UNCHANGED phPC ELSE PHGo(p, "lease")
  /\ UNCHANGED <<phLease, phFiles, phTorn, phFaults>>

acquireRepositoryExecutionLease(p) ==
  /\ PHAt(p, "lease") \/ PHAt(p, "retake")
  /\ phLease = NoPHRun /\ phLease' = p
  /\ PHGo(p, IF PHAt(p, "lease") THEN "recover" ELSE "cleanup")
  /\ UNCHANGED <<phSlot, phFiles, phTorn, phFaults>>

\* waitForLock: the context ends a wait, but not the one before the cleanup.
PHCancelled(p) == (PHAt(p, "slots") \/ PHAt(p, "lease")) /\ PHFail(p)

-----------------------------------------------------------------------------
\* Mutant of executionPlanHandoffLive: a lock file is not tried.
executionPlanHandoffDead(r) == FALSE

\* executionPlanHandoffLive.
executionPlanHandoffLive(r) == phLock[r] = "held"

\* The hash of a copy part way is not the record's: nothing is removed, by
\* anybody, until a person does.
PHRefused(r) == phRec[r] \in {"both", "named"} /\ phPlan[r] = "part"

\* Mutant of PHRemoveNext: the record goes first.
PHRemoveNextRecord(r) ==
  \/ phRec[r] # "none" /\ phRec' = [phRec EXCEPT ![r] = "none"] /\ UNCHANGED <<phPlan, phDir, phLock>>
  \/ phRec[r] = "none" /\ phPlan[r] # "none" /\ phPlan' = [phPlan EXCEPT ![r] = "none"] /\ UNCHANGED <<phRec, phDir, phLock>>
  \/ /\ phRec[r] = "none" /\ phPlan[r] = "none" /\ (phDir[r] \/ phLock[r] # "none")
     /\ phDir' = [phDir EXCEPT ![r] = FALSE] /\ phLock' = [phLock EXCEPT ![r] = "none"] /\ UNCHANGED <<phPlan, phRec>>

\* removeExecutionPlanHandoff, one unlink at a time: the copy, its directory,
\* the record, the lock.  A record under its temporary name is only unlinked.
PHRemoveNext(r) ==
  \/ phPlan[r] = "whole" /\ phPlan' = [phPlan EXCEPT ![r] = "none"] /\ UNCHANGED <<phDir, phRec, phLock>>
  \/ phPlan[r] = "none" /\ phDir[r] /\ phDir' = [phDir EXCEPT ![r] = FALSE] /\ UNCHANGED <<phPlan, phRec, phLock>>
  \/ /\ ~phDir[r] /\ phRec[r] # "none"
     /\ phRec' = [phRec EXCEPT ![r] = IF @ = "both" THEN "temporary" ELSE "none"] /\ UNCHANGED <<phPlan, phDir, phLock>>
  \/ /\ phRec[r] = "none" /\ ~phDir[r] /\ phLock[r] # "none"
     /\ phLock' = [phLock EXCEPT ![r] = "none"] /\ UNCHANGED <<phPlan, phDir, phRec>>

PHLeft(r) == phRec[r] # "none" \/ phLock[r] # "none"

\* recoverExecutionPlanHandoffs: what has no living owner is removed, entry by
\* entry; one that cannot be ends the run that tried.
recoverExecutionPlanHandoffs(p) ==
  /\ PHAt(p, "recover")
  /\ LET dead == {r \in PHRuns : PHLeft(r) /\ ~executionPlanHandoffLive(r)} IN
     \/ \E r \in dead : PHRefused(r) /\ PHFail(p)
     \/ \E r \in dead : ~PHRefused(r) /\ PHRemoveNext(r) /\ UNCHANGED <<phPC, phSlot, phLease, phTorn, phFaults>>
     \/ dead = {} /\ PHGo(p, "validate") /\ UNCHANGED <<phSlot, phLease, phFiles, phTorn, phFaults>>

\* withoutLiveExecutionPlanHandoffs and the clean-tree check of
\* validatePinnedIdentity: a copy whose owner died since is not overlooked, but
\* by a resumed run, which does not check again.
PHClean == \A r \in PHRuns : phPlan[r] # "none" => phRec[r] \in {"both", "named"} /\ executionPlanHandoffLive(r)
validatePinnedIdentity(p) ==
  /\ PHAt(p, "validate")
  /\ \/ ~PHClean /\ PHFail(p)
     \/ /\ PHGo(p, IF p \in PHExclusive THEN "execute" ELSE "lock")
        /\ UNCHANGED <<phSlot, phLease, phFiles, phTorn, phFaults>>

-----------------------------------------------------------------------------
\* writeExecutionPlanHandoffOwner: the lock, the temporary name, the link, the
\* unlink.  The recovery before left nothing of this run.
lockExecutionPlanHandoff(p) ==
  /\ PHAt(p, "lock")
  /\ phLock' = [phLock EXCEPT ![p] = "held"] /\ PHGo(p, "record")
  /\ UNCHANGED <<phSlot, phLease, phRec, phDir, phPlan, phTorn, phFaults>>

writeExecutionPlanHandoffOwner(p) ==
  /\ \/ PHAt(p, "record") /\ phRec[p] = "none" /\ phRec' = [phRec EXCEPT ![p] = "temporary"] /\ PHGo(p, "link")
     \/ PHAt(p, "link") /\ phRec' = [phRec EXCEPT ![p] = "both"] /\ PHGo(p, "unlink")
     \/ PHAt(p, "unlink") /\ phRec' = [phRec EXCEPT ![p] = "named"] /\ PHGo(p, "mkdir")
  /\ UNCHANGED <<phSlot, phLease, phLock, phDir, phPlan, phTorn, phFaults>>

\* Its failures: the names it made and the lock are removed again.
abandonExecutionPlanHandoff(p) ==
  /\ PHAt(p, "record") \/ PHAt(p, "link") \/ PHAt(p, "unlink")
  /\ phFaults < PHFaults /\ phFaults' = phFaults + 1
  /\ phRec' = [phRec EXCEPT ![p] = "none"] /\ phLock' = [phLock EXCEPT ![p] = "none"]
  /\ PHLetGo(p)
  /\ UNCHANGED <<phDir, phPlan, phTorn>>

\* prepareExecutionPlan, after the record: the directory and the copy.
prepareExecutionPlan(p) ==
  \/ /\ PHAt(p, "mkdir") /\ ~phDir[p] /\ phDir' = [phDir EXCEPT ![p] = TRUE] /\ PHGo(p, "copy")
     /\ UNCHANGED <<phSlot, phLease, phLock, phRec, phPlan, phTorn, phFaults>>
  \/ /\ PHAt(p, "copy") /\ phPlan' = [phPlan EXCEPT ![p] = "whole"] /\ PHGo(p, "execute")
     /\ UNCHANGED <<phSlot, phLease, phLock, phRec, phDir, phTorn, phFaults>>

\* A failure there: the same cleanup as after the build.
prepareExecutionPlanFails(p) ==
  /\ PHAt(p, "mkdir") \/ PHAt(p, "copy")
  /\ phFaults < PHFaults /\ phFaults' = phFaults + 1
  /\ \/ UNCHANGED <<phPlan, phTorn>>
     \/ PHAt(p, "copy") /\ phPlan' = [phPlan EXCEPT ![p] = "part"] /\ phTorn' = TRUE
  /\ PHGo(p, "cleanup")
  /\ UNCHANGED <<phSlot, phLease, phLock, phRec, phDir>>

\* releaseLeaseAfterWorktreeSetup.
releaseLeaseAfterWorktreeSetup(p) ==
  /\ PHAt(p, "execute") /\ p \notin PHExclusive /\ phLease = p
  /\ phLease' = NoPHRun
  /\ UNCHANGED <<phPC, phSlot, phFiles, phTorn, phFaults>>

\* Ralphex exits: the copy is removed under the lease, taken again if need be.
PHExits(p) ==
  /\ PHAt(p, "execute")
  /\ PHGo(p, IF phLease = p THEN "cleanup" ELSE "retake")
  /\ UNCHANGED <<phSlot, phLease, phFiles, phTorn, phFaults>>

cleanupExecutionPlan(p) ==
  /\ PHAt(p, "cleanup")
  /\ \/ PHRefused(p) /\ PHFail(p)
     \/ ~PHRefused(p) /\ PHRemoveNext(p) /\ UNCHANGED <<phPC, phSlot, phLease, phTorn, phFaults>>
     \/ ~PHLeft(p) /\ ~phDir[p] /\ PHLetGo(p) /\ UNCHANGED <<phFiles, phTorn, phFaults>>

\* The process dies; while it copied, part of the copy may be there.
PHDies(p) ==
  /\ ~PHAt(p, "idle") /\ phFaults < PHFaults /\ phFaults' = phFaults + 1
  /\ \/ UNCHANGED <<phPlan, phTorn>>
     \/ PHAt(p, "copy") /\ phPlan' = [phPlan EXCEPT ![p] = "part"] /\ phTorn' = TRUE
  /\ PHLetGo(p) /\ phLock' = PHUnlocked(p)
  /\ UNCHANGED <<phRec, phDir>>

PHNext ==
  \E p \in PHRuns :
    \/ PHStart(p) \/ acquireExecutionSlots(p) \/ acquireRepositoryExecutionLease(p) \/ PHCancelled(p)
    \/ recoverExecutionPlanHandoffs(p) \/ validatePinnedIdentity(p)
    \/ lockExecutionPlanHandoff(p) \/ writeExecutionPlanHandoffOwner(p) \/ abandonExecutionPlanHandoff(p)
    \/ prepareExecutionPlan(p) \/ prepareExecutionPlanFails(p)
    \/ releaseLeaseAfterWorktreeSetup(p) \/ PHExits(p) \/ cleanupExecutionPlan(p)
    \/ PHDies(p)

PHSpec == PHInit /\ [][PHNext]_phVars

-----------------------------------------------------------------------------
\* While its builder runs, nobody's recovery touches a run's copy, its record
\* or its lock.
PHLiveCopyStays ==
  \A p \in PHRuns \ PHExclusive :
    phPC[p] \in {"execute", "retake"} => phLock[p] = "held" /\ phRec[p] = "named" /\ phDir[p] /\ phPlan[p] = "whole"

\* Whatever died in whatever order, a directory or a copy in the repository is
\* named by a record: else no recovery would ever find it.
PHNothingUnowned ==
  \A r \in PHRuns : /\ phPlan[r] # "none" => phDir[r]
                    /\ phDir[r] => phRec[r] = "named"

\* Runs of the repository are refused only after a copy was left part way, and
\* nothing is left behind at all unless something failed.
PHOnlyATornCopyBlocks ==
  /\ (\E r \in PHRuns : PHRefused(r)) => phTorn
  /\ phFaults = 0 => \A r \in PHRuns : phPC[r] = "idle" => ~PHLeft(r) /\ ~phDir[r]

\* A run in the repository itself builds alone, and a run builds on a slot.
PHBuildsOnSlots ==
  \A p \in PHRuns : phPC[p] \notin {"idle", "slots"} => PHSlotsOf(p) # {} /\ (p \in PHExclusive => PHSlotsOf(p) = PHSlot)

\* The waits for slots and for the lease end: when every run that started is
\* waiting, one of them can take what it waits for.
PHCanTake(p) == IF PHAt(p, "slots") THEN PHNextSlots(p) # {} ELSE phLease = NoPHRun
PHNobodyBlocksAll ==
  LET started == {p \in PHRuns : ~PHAt(p, "idle")} IN
  started # {} => \E p \in started : phPC[p] \notin {"slots", "lease", "retake"} \/ PHCanTake(p)

PHSound == PHTypeOK /\ PHLiveCopyStays /\ PHNothingUnowned /\ PHOnlyATornCopyBlocks /\ PHBuildsOnSlots /\ PHNobodyBlocksAll
=============================================================================
