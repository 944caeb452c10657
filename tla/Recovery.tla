------------------------------ MODULE Recovery ------------------------------
(***************************************************************************)
(* The recovery of a run whose builder died (internal/recovery).  The      *)
(* command `abcp recovery-resume` inspects the recorded owner, publishes a *)
(* snapshot of the worktree and of the progress file, classifies the       *)
(* failure, takes the cleanup authority, removes the worktree, and records *)
(* the authority of the next attempt.  Nothing holds a lock: two commands  *)
(* with different snapshot ids may run side by side, a command may die     *)
(* between any two steps, and whatever the dead builder left running (or a *)
(* person) may still edit the worktree.                                    *)
(*                                                                         *)
(* What the worktree holds is one version number per captured part; a      *)
(* version in RCBig does not fit the snapshot's limits.                    *)
(***************************************************************************)
EXTENDS Naturals, FiniteSets

CONSTANTS RCIds,        \* snapshot ids, one command each
          RCMaxEdits,   \* edits of the worktree, of the progress or of the branch
          RCVaried,     \* the fields of a request that may be wrong
          RCBig,        \* versions larger than the snapshot's limits
          RCMaxFaults   \* deaths of a command and unreadable process tables

ASSUME RCAssumption == {RCMaxEdits, RCMaxFaults} \subseteq Nat /\ RCVaried \subseteq {"paths", "branch", "state", "requirement", "action", "cleanup"}

VARIABLES rcOwner,   \* the process of the recorded PID
          rcTree,    \* the worktree is registered and on disk
          rcWork,    \* the version of each part
          rcFiles,   \* the published artifacts: per id, the snapshot and whether the id is taken
          rcLog,     \* the recovery events of each id in the ledger
          rcCall,    \* the commands in progress
          rcLost,    \* the parts edited between the last comparison and the removal
          rcEdits, rcFaults

rcVars == <<rcOwner, rcTree, rcWork, rcFiles, rcLog, rcCall, rcLost, rcEdits, rcFaults>>

RCParts == {"diff", "untracked", "progress", "head"}

\* The parts in the order the cleaner compares them with the snapshot.
RCCompared == <<"head", "diff", "untracked", "progress">>

\* The states a failure is classified into: one that asks for recovery, one
\* that retries by itself, one that waits for an answer, one that ends the run.
RCStates == {"RECOVERY_REQUIRED", "RETRYING", "POLICY_BLOCKED", "FAILED"}

RCExact == [paths |-> "governed", branch |-> "registered", state |-> "RECOVERY_REQUIRED",
            requirement |-> "matching", action |-> "restart", cleanup |-> "exact"]

\* What a field of a request may be instead.
RCOther == [paths |-> {"outside"}, branch |-> {"other"}, state |-> RCStates, requirement |-> {"none"},
            action |-> {"resume"}, cleanup |-> {"other"}]

\* A request of the operator: the exact one, or one with one thing wrong.
RCRequests == {RCExact} \cup UNION {{[RCExact EXCEPT ![f] = v] : v \in RCOther[f]} : f \in RCVaried}

RCIdle == [at |-> "idle", request |-> RCExact, snapshot |-> [p \in RCParts |-> 0], late |-> {}]

RCNoSnapshot == [taken |-> FALSE, published |-> FALSE, snapshot |-> [p \in RCParts |-> 0]]

---------------------------------------------------------------------------
\* The paths of the request resolve inside the governed roots, with no
\* symbolic link and nothing sensitive among the progress files.
RCPathsFit(q) == q.paths = "governed"

\* git lists the worktree with the branch the ownership record names.
RCRegistered(q) == q.branch = "registered"

\* What /proc says of the recorded PID: its start ticks and boot id must match too.
RCProof(owner) ==
    CASE owner = "absent" -> "process-absent"
      [] owner = "reused" -> "process-identity-mismatch"
      [] owner = "zombie" -> "process-exited"
      [] owner = "running" -> "matching-process-identity"

RCDeadProofs == {"process-absent", "process-identity-mismatch", "process-exited"}

\* The classification of an inspection; readable is FALSE when the process table could not be read.
RCClassification(q, readable) ==
    IF ~RCPathsFit(q) THEN "ambiguous"
    ELSE IF ~rcTree THEN "missing"
    ELSE IF ~RCRegistered(q) \/ ~readable THEN "ambiguous"
    ELSE IF RCProof(rcOwner) \in RCDeadProofs THEN "stale-owner-dead" ELSE "active"

\* mutant: an owner that cannot be proved alive counts as dead.
RCPositiveOwnerDeadUnproved(q, readable) == RCClassification(q, readable) \in {"stale-owner-dead", "ambiguous"}

RCPositiveOwnerDead(q, readable) == RCClassification(q, readable) = "stale-owner-dead"

\* An artifact is created only when its name is free: an id is used once.
RCFree(i) == ~rcFiles[i].taken

RCReadable == {TRUE} \cup {r \in {FALSE} : rcFaults < RCMaxFaults}

RCFaultOf(readable) == rcFaults' = IF readable THEN rcFaults ELSE rcFaults + 1

RCAppend(i, event) == rcLog' = [rcLog EXCEPT ![i] = @ \cup {event}]

RCMove(i, at) == rcCall' = [rcCall EXCEPT ![i].at = at]

RCRefuse(i) == rcCall' = [rcCall EXCEPT ![i] = RCIdle]

\* The command reads its request, inspects the owner and records what it saw,
\* and goes on only with a positive proof that the owner is dead.
RCCommand(i, q, readable) ==
    /\ rcCall[i].at = "idle"
    /\ RCFree(i)
    /\ rcFiles' = [rcFiles EXCEPT ![i].taken = TRUE]
    /\ RCAppend(i, "INSPECTED")
    /\ IF RCPositiveOwnerDead(q, readable)
       THEN rcCall' = [rcCall EXCEPT ![i] = [RCIdle EXCEPT !.at = "capture", !.request = q]]
       ELSE RCRefuse(i)
    /\ RCFaultOf(readable)
    /\ UNCHANGED <<rcOwner, rcTree, rcWork, rcLost, rcEdits>>

---------------------------------------------------------------------------
\* A captured output is kept up to its limit and marked truncated beyond it.
RCFits(version) == version \notin RCBig

\* The snapshot inspects again and reads HEAD, then the status and the diff.
RCCaptureDiff(i, readable) ==
    /\ rcCall[i].at = "capture"
    /\ IF RCPositiveOwnerDead(rcCall[i].request, readable)
       THEN rcCall' = [rcCall EXCEPT ![i].at = "archive", ![i].snapshot.head = rcWork.head,
                                     ![i].snapshot.diff = rcWork.diff]
       ELSE RCRefuse(i)
    /\ RCFaultOf(readable)
    /\ UNCHANGED <<rcOwner, rcTree, rcWork, rcFiles, rcLog, rcLost, rcEdits>>

\* The untracked files are archived; a worktree that is gone fails the capture.
RCCaptureUntracked(i) ==
    /\ rcCall[i].at = "archive"
    /\ IF rcTree
       THEN rcCall' = [rcCall EXCEPT ![i].at = "publish", ![i].snapshot.untracked = rcWork.untracked]
       ELSE RCRefuse(i)
    /\ UNCHANGED <<rcOwner, rcTree, rcWork, rcFiles, rcLog, rcLost, rcEdits, rcFaults>>

\* The progress files, read through their governed root.
RCProgress == rcWork.progress

\* The progress files are archived, HEAD must not have moved, and the
\* artifacts are published and recorded.
RCCaptureProgress(i) ==
    /\ rcCall[i].at = "publish"
    /\ IF rcTree /\ rcWork.head = rcCall[i].snapshot.head
       THEN LET taken == [rcCall[i].snapshot EXCEPT !.progress = RCProgress]
            IN /\ rcCall' = [rcCall EXCEPT ![i].at = "decide", ![i].snapshot = taken]
               /\ rcFiles' = [rcFiles EXCEPT ![i].published = TRUE, ![i].snapshot = taken]
               /\ RCAppend(i, "SNAPSHOT_PUBLISHED")
       ELSE RCRefuse(i) /\ UNCHANGED <<rcFiles, rcLog>>
    /\ UNCHANGED <<rcOwner, rcTree, rcWork, rcLost, rcEdits, rcFaults>>

---------------------------------------------------------------------------
\* The states that ask something of the outside and need exactly one matching requirement.
RCNeedsRequirement == {"RECOVERY_REQUIRED", "POLICY_BLOCKED"}

RCRequirementFits(q) == (q.requirement = "matching") <=> (q.state \in RCNeedsRequirement)

\* The blocker decision freezes the classification and is recorded with its evidence.
RCDecided(q) == IF RCRequirementFits(q) THEN {"DECIDED"} ELSE {}

RCResumeSources == {"RETRYING", "RECOVERY_REQUIRED"}

\* The authority names a new attempt of the same run, from a state that may be resumed.
RCAuthorityFits(q) == q.state \in RCResumeSources /\ q.action = "restart"

\* The authority record frozen for the next attempt, and the restart prepared under it.
RCAuthority(q) == IF RCAuthorityFits(q) THEN {"AUTHORIZED", "RESTART_PREPARED"} ELSE {}

\* The authorization names exactly the worktree and the progress files of the record.
RCCleanupAuthorized(q) == q.cleanup = "exact"

\* mutant: a truncated artifact is accepted.
RCWholeAnyway(snapshot) == TRUE

\* Nothing of the snapshot was cut at its limit, and the artifacts still have their bytes.
RCWhole(snapshot) == \A p \in RCParts \ {"head"} : RCFits(snapshot[p])

\* The failure is classified and recorded, and the cleanup authorized on the
\* strength of the published snapshot, or the command refuses.
RCDecide(i) ==
    /\ rcCall[i].at = "decide"
    /\ LET q == rcCall[i].request
           authorized == RCRequirementFits(q) /\ RCAuthorityFits(q) /\ RCCleanupAuthorized(q) /\ RCWhole(rcCall[i].snapshot)
       IN /\ rcLog' = [rcLog EXCEPT ![i] = @ \cup RCDecided(q)
                                             \cup (IF authorized THEN {"CLEANUP_AUTHORIZED"} ELSE {})]
          /\ IF authorized THEN RCMove(i, "clean") ELSE RCRefuse(i)
    /\ UNCHANGED <<rcOwner, rcTree, rcWork, rcFiles, rcLost, rcEdits, rcFaults>>

---------------------------------------------------------------------------
\* A cleanup that fails leaves its evidence and its event.
RCCleanupFails(i) == RCRefuse(i) /\ RCAppend(i, "CLEANUP_FAILED")

\* The cleaner inspects a third time before it compares anything.
RCCleanInspect(i, readable) ==
    /\ rcCall[i].at = "clean"
    /\ IF RCPositiveOwnerDead(rcCall[i].request, readable)
       THEN RCMove(i, "head") /\ UNCHANGED rcLog
       ELSE RCCleanupFails(i)
    /\ RCFaultOf(readable)
    /\ UNCHANGED <<rcOwner, rcTree, rcWork, rcFiles, rcLost, rcEdits>>

\* mutant: the untracked files are not captured again.
RCUnchangedTracked(i, p) == p = "untracked" \/ rcWork[p] = rcCall[i].snapshot[p]

\* A part, captured again, is byte for byte what the snapshot holds.
RCUnchanged(i, p) == rcWork[p] = rcCall[i].snapshot[p]

\* The step after the comparison of part p.
RCAfter(p) == LET n == CHOOSE k \in DOMAIN RCCompared : RCCompared[k] = p
              IN IF n = Cardinality(DOMAIN RCCompared) THEN "remove" ELSE RCCompared[n + 1]

RCCompare(i, p) ==
    /\ rcCall[i].at = p
    /\ IF rcTree /\ RCUnchanged(i, p)
       THEN RCMove(i, RCAfter(p)) /\ UNCHANGED rcLog
       ELSE RCCleanupFails(i)
    /\ UNCHANGED <<rcOwner, rcTree, rcWork, rcFiles, rcLost, rcEdits, rcFaults>>

\* `git worktree remove --force` takes whatever is there by now; git fails
\* when another command removed the worktree first.
RCRemove(i) ==
    /\ rcCall[i].at = "remove"
    /\ IF rcTree
       THEN /\ rcTree' = FALSE
            /\ rcLost' = rcCall[i].late
            /\ RCMove(i, "finish")
            /\ UNCHANGED rcLog
       ELSE RCCleanupFails(i) /\ UNCHANGED <<rcTree, rcLost>>
    /\ UNCHANGED <<rcOwner, rcWork, rcFiles, rcEdits, rcFaults>>

\* The progress files go (rcWork keeps the version they had), and the branch must still be at the snapshot's head.
RCFinishCleanup(i) ==
    /\ rcCall[i].at = "finish"
    /\ IF rcWork.head = rcCall[i].snapshot.head
       THEN RCMove(i, "restart") /\ RCAppend(i, "CLEANUP_COMPLETED")
       ELSE RCCleanupFails(i)
    /\ UNCHANGED <<rcOwner, rcTree, rcWork, rcFiles, rcLost, rcEdits, rcFaults>>

\* The authority of the next attempt is validated again and recorded with the restart.
RCRestart(i) ==
    /\ rcCall[i].at = "restart"
    /\ RCRefuse(i)
    /\ rcLog' = [rcLog EXCEPT ![i] = @ \cup RCAuthority(rcCall[i].request)]
    /\ UNCHANGED <<rcOwner, rcTree, rcWork, rcFiles, rcLost, rcEdits, rcFaults>>

---------------------------------------------------------------------------
\* The command dies.
RCDies(i) ==
    /\ rcCall[i].at # "idle"
    /\ rcFaults < RCMaxFaults
    /\ rcFaults' = rcFaults + 1
    /\ RCRefuse(i)
    /\ UNCHANGED <<rcOwner, rcTree, rcWork, rcFiles, rcLog, rcLost, rcEdits>>

\* The builder exits, is reaped, and its PID is used again.
RCOwnerEnds ==
    /\ \/ rcOwner = "running" /\ rcOwner' = "zombie"
       \/ rcOwner = "zombie" /\ rcOwner' = "absent"
       \/ rcOwner = "absent" /\ rcOwner' = "reused"
    /\ UNCHANGED <<rcTree, rcWork, rcFiles, rcLog, rcCall, rcLost, rcEdits, rcFaults>>

\* The builder, a child it left behind, or a person edits a part.
RCEdit(p) ==
    /\ rcEdits < RCMaxEdits
    /\ rcTree \/ p = "head"
    /\ rcEdits' = rcEdits + 1
    /\ rcWork' = [rcWork EXCEPT ![p] = rcEdits + 1]
    /\ LET passed(i) == \/ rcCall[i].at \in {"remove", "finish"}
                        \/ \E m, n \in DOMAIN RCCompared : /\ RCCompared[m] = p /\ RCCompared[n] = rcCall[i].at
                                                           /\ m < n
       IN rcCall' = [i \in RCIds |-> IF passed(i) THEN [rcCall[i] EXCEPT !.late = @ \cup {p}] ELSE rcCall[i]]
    /\ UNCHANGED <<rcOwner, rcTree, rcFiles, rcLog, rcLost, rcFaults>>

RCInit ==
    /\ rcOwner \in {"running", "absent"}
    /\ rcTree = TRUE
    /\ rcWork = [p \in RCParts |-> 0]
    /\ rcFiles = [i \in RCIds |-> RCNoSnapshot]
    /\ rcLog = [i \in RCIds |-> {}]
    /\ rcCall = [i \in RCIds |-> RCIdle]
    /\ rcLost = {}
    /\ rcEdits = 0
    /\ rcFaults = 0

RCNext ==
    \/ \E i \in RCIds :
        \/ \E q \in RCRequests, readable \in RCReadable : RCCommand(i, q, readable)
        \/ \E readable \in RCReadable : RCCaptureDiff(i, readable)
        \/ RCCaptureUntracked(i)
        \/ RCCaptureProgress(i)
        \/ RCDecide(i)
        \/ \E readable \in RCReadable : RCCleanInspect(i, readable)
        \/ \E p \in RCParts : RCCompare(i, p)
        \/ RCRemove(i)
        \/ RCFinishCleanup(i)
        \/ RCRestart(i)
        \/ RCDies(i)
    \/ RCOwnerEnds
    \/ \E p \in RCParts : RCEdit(p)

RCSpec == RCInit /\ [][RCNext]_rcVars

---------------------------------------------------------------------------
\* Each variable has its type.
RCTypeOK ==
    /\ rcOwner \in {"running", "zombie", "absent", "reused"}
    /\ rcTree \in BOOLEAN
    /\ rcWork \in [RCParts -> 0..RCMaxEdits]
    /\ rcFiles \in [RCIds -> [taken : BOOLEAN, published : BOOLEAN, snapshot : [RCParts -> 0..RCMaxEdits]]]
    /\ \A i \in RCIds : rcCall[i].request \in RCRequests /\ rcCall[i].late \subseteq RCParts
    /\ rcLost \subseteq RCParts
    /\ rcEdits \in 0..RCMaxEdits
    /\ rcFaults \in 0..RCMaxFaults

\* The worktree is removed only after its owner is dead (the removal runs
\* under a third inspection, workflow.go:101).
RCRemovedWasDead == rcTree \/ rcOwner # "running"

\* The captured parts of a removed worktree (ignored files are never captured),
\* and the progress file removed with it, are in one whole, published, authorized
\* snapshot, except what was edited in
\* the window between the last comparison and the removal.
RCRemovedIsKept ==
    ~rcTree => \E i \in RCIds :
        /\ rcFiles[i].published
        /\ "CLEANUP_AUTHORIZED" \in rcLog[i]
        /\ \A p \in RCParts \ {"head"} :
             /\ rcFiles[i].snapshot[p] \notin RCBig
             /\ rcWork[p] = rcFiles[i].snapshot[p] \/ p \in rcLost

\* Of all the commands run against one dead attempt at most one prepares a
\* restart, and it removed the worktree and completed the cleanup before.
RCOneRestart ==
    /\ Cardinality({i \in RCIds : "RESTART_PREPARED" \in rcLog[i]}) <= 1
    /\ \A i \in RCIds : "RESTART_PREPARED" \in rcLog[i] =>
         ~rcTree /\ {"CLEANUP_COMPLETED", "CLEANUP_AUTHORIZED"} \subseteq rcLog[i]

\* A recovery never destroys work that is not preserved, acts only for a dead
\* owner, and hands over to one new attempt.
RCSound == RCTypeOK /\ RCRemovedWasDead /\ RCRemovedIsKept /\ RCOneRestart
=============================================================================
