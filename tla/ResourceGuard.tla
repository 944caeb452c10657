---------------------------- MODULE ResourceGuard ----------------------------
(***************************************************************************)
(* The cross-process limits: the read-model resource guard of              *)
(* internal/actioncontrol, whose ledger and snapshot slots are files locked *)
(* with flock, and the build slots of internal/openmodel.                  *)
(*                                                                         *)
(* The guard's directories, slot files and identity records are published  *)
(* once, by whichever process comes first, under the lock of the service   *)
(* root: an intent in the root's authority, an empty stage, its inode bound *)
(* in the authority, its bytes, its rename, the commit.  A process may be  *)
(* killed between any two of these and another resumes.  Afterwards a      *)
(* process takes all the slots an operation needs, or none, and waits; a   *)
(* killed process drops its locks.  A person may replace a slot file.      *)
(***************************************************************************)
EXTENDS Naturals, FiniteSets, FiniteSetsExt

CONSTANTS RGProcs,
          RGLedgerSlots, RGSnapshotSlots, \* how many slot files of each resource
          RGIdentities,  \* identity records in the order of the schema; the last names the slots
          RGCapacities,  \* the build slots a model may be given; the setting may change
          RGMaxKills     \* processes killed, and slot files replaced

VARIABLES rgAuthority, \* the root's authority: state, committed identities, the prepared one
          rgStage,     \* the stage file: none, unbound, bound, and how much of it is written
          rgFinal,     \* the identity records under their final names
          rgSlotFiles, \* the slot files that exist, with the inode under each name
          rgRoot,      \* the process holding the lock of the root
          rgProc,      \* where each process is, what it wants and its open slot files
          rgLocks,     \* the locked inodes of slot files, with their holders
          rgBuild,     \* the build slots taken: by whom, and under which capacity
          rgRefused,   \* an open or an acquisition failed its integrity check
          rgKills

rgVars == <<rgAuthority, rgStage, rgFinal, rgSlotFiles, rgRoot, rgProc, rgLocks, rgBuild, rgRefused, rgKills>>

RGSlots == ({"ledger"} \X (1..RGLedgerSlots)) \cup ({"snapshot"} \X (1..RGSnapshotSlots))

\* An operation of the read model: a projection takes one ledger and one
\* snapshot, a writable operation two ledgers, a runner's snapshot none.
RGOperations == {[ledger |-> 1, snapshot |-> 1], [ledger |-> 2, snapshot |-> 1], [ledger |-> 0, snapshot |-> 1]}

RGNothing == [ledger |-> 0, snapshot |-> 0]

RGClosed == [at |-> "closed", wants |-> RGNothing, took |-> {}]

RGNone == [state |-> "none", committed |-> 0, prepared |-> "none"]

---------------------------------------------------------------------------
(* Opening. *)

\* The authority is read without the lock first, and again under it while
\* the generation is not established; a fresh root must hold none of the names.
RGOpen(p) ==
    /\ rgProc[p].at = "closed"
    /\ IF rgAuthority.state = "established"
       THEN rgProc' = [rgProc EXCEPT ![p].at = "verify"] /\ UNCHANGED <<rgRoot, rgAuthority, rgRefused>>
       ELSE /\ rgRoot = "free"
            /\ rgRoot' = p
            /\ rgProc' = [rgProc EXCEPT ![p].at = "boot"]
            /\ IF rgAuthority.state = "none"
               THEN /\ rgAuthority' = [RGNone EXCEPT !.state = "initializing"]
                    /\ rgRefused' = (rgRefused \/ rgFinal # {} \/ rgSlotFiles # {})
               ELSE UNCHANGED <<rgAuthority, rgRefused>>
    /\ UNCHANGED <<rgStage, rgFinal, rgSlotFiles, rgLocks, rgBuild, rgKills>>

\* The identity record to be published next.
RGNow == rgAuthority.committed + 1

RGBooting(p) == rgProc[p].at = "boot" /\ rgAuthority.state = "initializing" /\ RGNow <= RGIdentities

\* The slot files are created one by one before their identity is.
RGEnsureSlot(p, slot) ==
    /\ RGBooting(p) /\ RGNow = RGIdentities
    /\ <<slot, 1>> \notin rgSlotFiles
    /\ rgSlotFiles' = rgSlotFiles \cup {<<slot, 1>>}
    /\ UNCHANGED <<rgAuthority, rgStage, rgFinal, rgRoot, rgProc, rgLocks, rgBuild, rgRefused, rgKills>>

RGObjectsThere == RGNow = RGIdentities => rgSlotFiles = {<<slot, 1>> : slot \in RGSlots}

\* The intent goes into the authority before anything has a name.
RGIntend(p) ==
    /\ RGBooting(p) /\ RGObjectsThere
    /\ rgAuthority.prepared = "none"
    /\ rgRefused' = (rgRefused \/ RGNow \in rgFinal)
    /\ rgAuthority' = [rgAuthority EXCEPT !.prepared = "intent"]
    /\ UNCHANGED <<rgStage, rgFinal, rgSlotFiles, rgRoot, rgProc, rgLocks, rgBuild, rgKills>>

\* An unbound stage of a process that was killed is empty; it is discarded.
RGDiscardable == rgStage \in {"none", "unbound"}

\* mutant: the stage's name is bound at once, before its inode is known.
RGCreateBound(p) ==
    /\ RGBooting(p)
    /\ rgAuthority.prepared = "intent"
    /\ rgAuthority' = [rgAuthority EXCEPT !.prepared = "bound"]
    /\ UNCHANGED <<rgStage, rgFinal, rgSlotFiles, rgRoot, rgProc, rgLocks, rgBuild, rgRefused, rgKills>>

\* The stage is created empty.
RGCreate(p) ==
    /\ RGBooting(p)
    /\ rgAuthority.prepared = "intent"
    /\ rgRefused' = (rgRefused \/ RGNow \in rgFinal \/ ~RGDiscardable)
    /\ rgStage' = "unbound"
    /\ rgProc' = [rgProc EXCEPT ![p].at = "bind"]
    /\ UNCHANGED <<rgAuthority, rgFinal, rgSlotFiles, rgRoot, rgLocks, rgBuild, rgKills>>

\* The authority names the inode of the stage this process created.
RGBind(p) ==
    /\ rgProc[p].at = "bind"
    /\ rgAuthority' = [rgAuthority EXCEPT !.prepared = "bound"]
    /\ rgStage' = "empty"
    /\ rgProc' = [rgProc EXCEPT ![p].at = "boot"]
    /\ UNCHANGED <<rgFinal, rgSlotFiles, rgRoot, rgLocks, rgBuild, rgRefused, rgKills>>

\* Exactly one of the stage and the final name is the bound inode.
RGBoundOnce == (rgStage \in {"empty", "partial", "whole"}) # (RGNow \in rgFinal)

\* The bytes are written from wherever the last writer stopped, synced, and
\* the stage renamed.
RGWrite(p) ==
    /\ RGBooting(p)
    /\ rgAuthority.prepared = "bound" /\ RGNow \notin rgFinal
    /\ rgRefused' = (rgRefused \/ ~RGBoundOnce)
    /\ \/ rgStage = "empty" /\ rgStage' = "partial" /\ UNCHANGED rgFinal
       \/ rgStage = "partial" /\ rgStage' = "whole" /\ UNCHANGED rgFinal
       \/ rgStage = "whole" /\ rgStage' = "none" /\ rgFinal' = rgFinal \cup {RGNow}
       \/ rgStage \in {"none", "unbound"} /\ UNCHANGED <<rgStage, rgFinal>>
    /\ UNCHANGED <<rgAuthority, rgSlotFiles, rgRoot, rgProc, rgLocks, rgBuild, rgKills>>

\* The published record becomes part of the authority's prefix of the schema.
RGCommit(p) ==
    /\ RGBooting(p)
    /\ rgAuthority.prepared = "bound" /\ RGNow \in rgFinal
    /\ rgRefused' = (rgRefused \/ ~RGBoundOnce)
    /\ rgAuthority' = [rgAuthority EXCEPT !.committed = @ + 1, !.prepared = "none"]
    /\ UNCHANGED <<rgStage, rgFinal, rgSlotFiles, rgRoot, rgProc, rgLocks, rgBuild, rgKills>>

\* With the whole schema committed the authority is established and the root unlocked.
RGEstablish(p) ==
    /\ rgProc[p].at = "boot" /\ RGNow > RGIdentities
    /\ rgAuthority' = [rgAuthority EXCEPT !.state = "established"]
    /\ rgRoot' = "free"
    /\ rgProc' = [rgProc EXCEPT ![p].at = "verify"]
    /\ UNCHANGED <<rgStage, rgFinal, rgSlotFiles, rgLocks, rgBuild, rgRefused, rgKills>>

---------------------------------------------------------------------------
(* Slots. *)

\* mutant: a slot file is trusted by its name.
RGIntactByName == TRUE

\* Every name of the schema is there with the inode the identities record.
RGIntact == rgSlotFiles = {<<slot, 1>> : slot \in RGSlots} /\ rgFinal = 1..RGIdentities

\* The guard is opened, with its slots pinned.
RGVerifyOpen(p) ==
    /\ rgProc[p].at = "verify"
    /\ IF RGIntact THEN rgProc' = [rgProc EXCEPT ![p].at = "open"]
       ELSE rgProc' = [rgProc EXCEPT ![p] = RGClosed]
    /\ rgRefused' = (rgRefused \/ ~RGIntact)
    /\ UNCHANGED <<rgAuthority, rgStage, rgFinal, rgSlotFiles, rgRoot, rgLocks, rgBuild, rgKills>>

\* An operation asks for its slots; the guard is verified first.
RGAsk(p, operation) ==
    /\ rgProc[p].at = "open"
    /\ IF RGIntact THEN rgProc' = [rgProc EXCEPT ![p] = [at |-> "take", wants |-> operation, took |-> {}]]
       ELSE UNCHANGED rgProc
    /\ rgRefused' = (rgRefused \/ ~RGIntact)
    /\ UNCHANGED <<rgAuthority, rgStage, rgFinal, rgSlotFiles, rgRoot, rgLocks, rgBuild, rgKills>>

RGTaken(p, resource) == Cardinality({l \in rgProc[p].took : l[1][1] = resource})

RGMissing(p) == {r \in {"ledger", "snapshot"} : RGTaken(p, r) < rgProc[p].wants[r]}

\* The resource being filled: ledgers before snapshots.
RGFilling(p) == IF "ledger" \in RGMissing(p) THEN "ledger" ELSE "snapshot"

\* The slot files of the resource that no one has locked, by the inode now under the name.
RGFreeSlots(p) == {f \in rgSlotFiles : f[1][1] = RGFilling(p) /\ f \notin {l[1] : l \in rgLocks}}

\* The first free slot file in order is opened, checked against its pin, and locked without waiting.
RGTake(p) ==
    /\ rgProc[p].at = "take"
    /\ RGMissing(p) # {}
    /\ RGFreeSlots(p) # {}
    /\ \E f \in RGFreeSlots(p) :
        /\ \A g \in RGFreeSlots(p) : f[1][2] <= g[1][2]
        /\ IF f[2] = 1 \/ RGIntact
           THEN /\ rgLocks' = rgLocks \cup {<<f, p>>}
                /\ rgProc' = [rgProc EXCEPT ![p].took = @ \cup {f}]
                /\ UNCHANGED rgRefused
           ELSE /\ rgLocks' = {l \in rgLocks : l[2] # p}
                /\ rgProc' = [rgProc EXCEPT ![p] = [RGClosed EXCEPT !.at = "open"]]
                /\ rgRefused' = TRUE
    /\ UNCHANGED <<rgAuthority, rgStage, rgFinal, rgSlotFiles, rgRoot, rgBuild, rgKills>>

\* mutant: what was taken is kept while waiting for the rest.
RGBusyKeeping(p) ==
    /\ rgProc[p].at = "take"
    /\ RGMissing(p) # {} /\ RGFreeSlots(p) = {}
    /\ rgProc' = [rgProc EXCEPT ![p].at = "wait"]
    /\ UNCHANGED <<rgAuthority, rgStage, rgFinal, rgSlotFiles, rgRoot, rgLocks, rgBuild, rgRefused, rgKills>>

\* Too few are free: everything taken is released before the wait.
RGBusy(p) ==
    /\ rgProc[p].at = "take"
    /\ RGMissing(p) # {} /\ RGFreeSlots(p) = {}
    /\ rgLocks' = {l \in rgLocks : l[2] # p}
    /\ rgProc' = [rgProc EXCEPT ![p].at = "wait", ![p].took = {}]
    /\ UNCHANGED <<rgAuthority, rgStage, rgFinal, rgSlotFiles, rgRoot, rgBuild, rgRefused, rgKills>>

\* After the poll it tries again, or its context ends.
RGPoll(p) ==
    /\ rgProc[p].at = "wait"
    /\ \/ rgProc' = [rgProc EXCEPT ![p].at = "take"]
       \/ rgProc' = [rgProc EXCEPT ![p] = [RGClosed EXCEPT !.at = "open"]]
    /\ UNCHANGED <<rgAuthority, rgStage, rgFinal, rgSlotFiles, rgRoot, rgLocks, rgBuild, rgRefused, rgKills>>

\* All are taken and the guard verified once more: the operation runs.
RGGrant(p) ==
    /\ rgProc[p].at = "take"
    /\ RGMissing(p) = {}
    /\ IF RGIntact
       THEN rgProc' = [rgProc EXCEPT ![p].at = "runs"] /\ UNCHANGED rgLocks
       ELSE /\ rgLocks' = {l \in rgLocks : l[2] # p}
            /\ rgProc' = [rgProc EXCEPT ![p] = [RGClosed EXCEPT !.at = "open"]]
    /\ rgRefused' = (rgRefused \/ ~RGIntact)
    /\ UNCHANGED <<rgAuthority, rgStage, rgFinal, rgSlotFiles, rgRoot, rgBuild, rgKills>>

\* The operation ends and its lease is closed.
RGRelease(p) ==
    /\ rgProc[p].at \in {"runs", "closing"}
    /\ rgLocks' = {l \in rgLocks : l[2] # p}
    /\ rgProc' = [rgProc EXCEPT ![p] = IF rgProc[p].at = "closing" THEN RGClosed ELSE [RGClosed EXCEPT !.at = "open"]]
    /\ UNCHANGED <<rgAuthority, rgStage, rgFinal, rgSlotFiles, rgRoot, rgBuild, rgRefused, rgKills>>

\* Close keeps the descriptors until the last lease is closed.
RGClose(p) ==
    /\ rgProc[p].at \in {"open", "runs"}
    /\ rgProc' = [rgProc EXCEPT ![p] = IF rgProc[p].at = "open" THEN RGClosed ELSE [@ EXCEPT !.at = "closing"]]
    /\ UNCHANGED <<rgAuthority, rgStage, rgFinal, rgSlotFiles, rgRoot, rgLocks, rgBuild, rgRefused, rgKills>>

---------------------------------------------------------------------------
(* The build slots of a model. *)

\* mutant: a build takes a slot beyond its capacity when the others are held.
RGBuildAnyway(p, capacity) ==
    /\ \A b \in rgBuild : b[2] # p
    /\ rgBuild' = rgBuild \cup {<<Cardinality(rgBuild) + 1, p, capacity>>}
    /\ UNCHANGED <<rgAuthority, rgStage, rgFinal, rgSlotFiles, rgRoot, rgProc, rgLocks, rgRefused, rgKills>>

\* The first free lock of slots 1 to capacity; with none free it waits until
\* its deadline.  Capacity is what the settings say when the build starts.
RGBuild(p, capacity) ==
    /\ \A b \in rgBuild : b[2] # p
    /\ LET free == (1..capacity) \ {b[1] : b \in rgBuild}
       IN free # {} /\ rgBuild' = rgBuild \cup {<<Min(free), p, capacity>>}
    /\ UNCHANGED <<rgAuthority, rgStage, rgFinal, rgSlotFiles, rgRoot, rgProc, rgLocks, rgRefused, rgKills>>

RGBuilt(p) ==
    /\ \E b \in rgBuild : b[2] = p
    /\ rgBuild' = {b \in rgBuild : b[2] # p}
    /\ UNCHANGED <<rgAuthority, rgStage, rgFinal, rgSlotFiles, rgRoot, rgProc, rgLocks, rgRefused, rgKills>>

---------------------------------------------------------------------------
\* A process is killed: its locks go with it, the files stay.
RGKill(p) ==
    /\ rgKills < RGMaxKills
    /\ rgProc[p].at # "closed" \/ \E b \in rgBuild : b[2] = p
    /\ rgKills' = rgKills + 1
    /\ rgProc' = [rgProc EXCEPT ![p] = RGClosed]
    /\ rgLocks' = {l \in rgLocks : l[2] # p}
    /\ rgBuild' = {b \in rgBuild : b[2] # p}
    /\ rgRoot' = IF rgRoot = p THEN "free" ELSE rgRoot
    /\ UNCHANGED <<rgAuthority, rgStage, rgFinal, rgSlotFiles, rgRefused>>

\* A person puts another file under the name of a slot.
RGReplace(slot) ==
    /\ rgKills < RGMaxKills
    /\ <<slot, 1>> \in rgSlotFiles /\ rgAuthority.state = "established"
    /\ rgKills' = rgKills + 1
    /\ rgSlotFiles' = (rgSlotFiles \ {<<slot, 1>>}) \cup {<<slot, 2>>}
    /\ UNCHANGED <<rgAuthority, rgStage, rgFinal, rgRoot, rgProc, rgLocks, rgBuild, rgRefused>>

RGInit ==
    /\ rgAuthority = RGNone
    /\ rgStage = "none"
    /\ rgFinal = {}
    /\ rgSlotFiles = {}
    /\ rgRoot = "free"
    /\ rgProc = [p \in RGProcs |-> RGClosed]
    /\ rgLocks = {}
    /\ rgBuild = {}
    /\ rgRefused = FALSE
    /\ rgKills = 0

RGNext ==
    \/ \E p \in RGProcs :
        \/ RGOpen(p)
        \/ \E slot \in RGSlots : RGEnsureSlot(p, slot)
        \/ RGIntend(p) \/ RGCreate(p) \/ RGBind(p) \/ RGWrite(p) \/ RGCommit(p) \/ RGEstablish(p)
        \/ RGVerifyOpen(p)
        \/ \E operation \in RGOperations : RGAsk(p, operation)
        \/ RGTake(p) \/ RGBusy(p) \/ RGPoll(p) \/ RGGrant(p) \/ RGRelease(p) \/ RGClose(p)
        \/ \E capacity \in RGCapacities : RGBuild(p, capacity)
        \/ RGBuilt(p)
        \/ RGKill(p)
    \/ \E slot \in RGSlots : RGReplace(slot)

RGSpec == RGInit /\ [][RGNext]_rgVars

---------------------------------------------------------------------------
\* Each variable has its type.
RGTypeOK ==
    /\ rgAuthority.state \in {"none", "initializing", "established"}
    /\ rgAuthority.committed \in 0..RGIdentities
    /\ rgStage \in {"none", "unbound", "empty", "partial", "whole"}
    /\ rgFinal \subseteq 1..RGIdentities
    /\ rgSlotFiles \subseteq RGSlots \X {1, 2}
    /\ rgRoot \in RGProcs \cup {"free"}
    /\ rgKills \in 0..RGMaxKills

\* However processes die and slot files are replaced, the operations that run
\* hold together at most the slots of each resource.
RGNeverOverbooked ==
    \A r \in {"ledger", "snapshot"} :
        MapThenSumSet(LAMBDA p : IF rgProc[p].at \in {"runs", "closing"} THEN rgProc[p].wants[r] ELSE 0, RGProcs)
            <= IF r = "ledger" THEN RGLedgerSlots ELSE RGSnapshotSlots

\* Nobody waits while holding a slot, so waiters cannot block one another.
RGWaitersHoldNothing == \A l \in rgLocks : rgProc[l[2]].at # "wait" /\ rgProc[l[2]].at # "open"

\* A kill at any step of the publication leaves something the next process
\* resumes: without a replaced slot file no open and no acquisition is refused.
RGAlwaysResumes == rgRefused => \E f \in rgSlotFiles : f[2] = 2

\* Builds hold at most the slots of the largest capacity among them.
RGBuildsFit == rgBuild # {} => Cardinality(rgBuild) <= Max({b[3] : b \in rgBuild})

\* The limits hold and their bookkeeping survives every kill.
RGSound == RGTypeOK /\ RGNeverOverbooked /\ RGWaitersHoldNothing /\ RGAlwaysResumes /\ RGBuildsFit
=============================================================================
