------------------------------ MODULE RunCatalog ------------------------------
(***************************************************************************)
(* internal/runtimecatalog/catalog_linux.go: the service's catalog of runs *)
(* as the process of a governed run uses it (cmd/abcp's registration):     *)
(* Open, ReadRun, RegisterRun, RegisterAttempt, then the owner lease and   *)
(* its retirement.  Everything is under one flock, so a run's namespace is *)
(* issued by one process at a time; but a process may die between any two  *)
(* of its steps, and the next holder of the lock has to finish or undo     *)
(* what it left before it does anything else (reconcile).                  *)
(***************************************************************************)
EXTENDS Naturals, Sequences, FiniteSets

CONSTANTS RKProcs,      \* processes of governed runs
          RKRuns,
          RKRunsOf(_),  \* the runs a process may be started for
          RKOwners,     \* MaxActiveOwners
          RKObjects,    \* what Open makes below the root (six in the code)
          RKCrashes,    \* bound: processes that die
          RKGens        \* bound: lease generations

NoRKRun == "no-run"
NoRKProc == "no-process"

ASSUME RKAssumption ==
  /\ \A p \in RKProcs : RKRunsOf(p) \subseteq RKRuns
  /\ NoRKRun \notin RKRuns /\ NoRKProc \notin RKProcs
  /\ RKOwners \in Nat \ {0} /\ RKObjects \in Nat \ {0} /\ RKCrashes \in Nat /\ RKGens \in Nat

VARIABLES rkRoot,      \* the root's generation: none, init, ready
          rkMade,      \* how many of the root's objects exist
          rkCopies,    \* where the run authority is stored: the root (legacy) or runs
          rkAuth,      \* the run authority: its state and the run it prepares
          rkStage,     \* the staged directory of a run's namespace
          rkDirs,      \* the published namespaces
          rkHistory,   \* the runs of the committed records
          rkTail,      \* what follows them: none, part or whole
          rkFile,      \* the records of a run and of its attempt
          rkLease,     \* the owner lease of a run
          rkAcked,     \* the runs a registration was acknowledged for
          rkFlock,     \* who holds the root's flock and the catalog's lock
          rkProc,
          rkDead       \* processes that died

rkNames == <<rkAuth, rkStage, rkDirs, rkHistory, rkTail>>
rkDisk == <<rkRoot, rkMade, rkCopies, rkNames, rkFile, rkLease>>
rkVars == <<rkDisk, rkAcked, rkFlock, rkProc, rkDead>>

\* Files are published by writeTemporary, link and unlink: a reader removes the
\* temporary name a crash left.
RKFileNames == {"run.json", "attempt"}
RKFile == [at : {"none", "temp", "linked", "whole"}, by : RKProcs \cup {NoRKProc}]
NoRKFile == [at |-> "none", by |-> NoRKProc]
NoRKLease == [gen |-> 0, state |-> "RETIRED"]
NoRKStage == [made |-> FALSE, attempts |-> FALSE, identity |-> "none"]
RKDown == [pc |-> "down", op |-> "open", run |-> NoRKRun, by |-> NoRKProc, gen |-> 0]
RKPC == {"down", "pins", "migrate", "remove", "lock", "reconcile", "publish", "body", "bind", "attempts",
         "identity", "full", "rename", "history", "checkpoint", "link", "unlink", "retire"}
RKOp == {"open", "read", "run", "read attempt", "attempt", "own", "close"}

RKTypeOK ==
  /\ rkRoot \in {"none", "init", "ready"} /\ rkMade \in 0..RKObjects
  /\ rkCopies \subseteq {"root", "runs"}
  /\ rkAuth \in [state : {"none", "ESTABLISHED", "PREPARED_RUN", "PREPARED_FULL"}, run : RKRuns \cup {NoRKRun}]
  /\ rkStage \in [made : BOOLEAN, attempts : BOOLEAN, identity : {"none", "part", "whole"}]
  /\ rkDirs \subseteq RKRuns /\ rkHistory \in Seq(RKRuns) /\ rkTail \in {"none", "part", "whole"}
  /\ rkFile \in [RKRuns -> [RKFileNames -> RKFile]]
  /\ rkLease \in [RKRuns -> [gen : 0..RKGens, state : {"ACTIVE", "CLOSING", "RETIRED"}]]
  /\ rkAcked \subseteq RKRuns \X RKProcs
  /\ rkFlock \in [{"root", "catalog"} -> RKProcs \cup {NoRKProc}]
  /\ rkProc \in [RKProcs -> [pc : RKPC, op : RKOp, run : RKRuns \cup {NoRKRun}, by : RKProcs \cup {NoRKProc}, gen : 0..RKGens]]
  /\ rkDead \in 0..RKCrashes

\* A fresh root, or one an older version left without runs: its run authority
\* is on the root itself.
RKInit ==
  /\ \/ rkRoot = "none" /\ rkMade = 0 /\ rkCopies = {} /\ rkAuth = [state |-> "none", run |-> NoRKRun]
     \/ rkRoot = "ready" /\ rkMade = RKObjects /\ rkCopies = {"root"} /\ rkAuth = [state |-> "ESTABLISHED", run |-> NoRKRun]
  /\ rkStage = NoRKStage /\ rkDirs = {} /\ rkHistory = <<>> /\ rkTail = "none"
  /\ rkFile = [r \in RKRuns |-> [n \in RKFileNames |-> NoRKFile]]
  /\ rkLease = [r \in RKRuns |-> NoRKLease]
  /\ rkAcked = {} /\ rkFlock = [f \in {"root", "catalog"} |-> NoRKProc]
  /\ rkProc = [p \in RKProcs |-> RKDown] /\ rkDead = 0

RKAt(p, pc) == rkProc[p].pc = pc
RKGo(p, pc) == rkProc' = [rkProc EXCEPT ![p].pc = pc]
RKNextOp(p, op) == rkProc' = [rkProc EXCEPT ![p].pc = "lock", ![p].op = op]
RKDrop(p) == [f \in {"root", "catalog"} |-> IF rkFlock[f] = p THEN NoRKProc ELSE rkFlock[f]]

\* An error ends the registration of the process, and its locks with it.
RKFail(p) ==
  /\ rkProc' = [rkProc EXCEPT ![p] = RKDown]
  /\ rkFlock' = RKDrop(p)
  /\ UNCHANGED <<rkDisk, rkAcked, rkDead>>

-----------------------------------------------------------------------------
\* Open: under the root's flock.  A root without a generation has nothing
\* below it; the generation is published as initializing first.
Open(p, r) ==
  /\ RKAt(p, "down") /\ rkFlock["root"] = NoRKProc
  /\ rkRoot = "none" => rkMade = 0
  /\ rkRoot' = IF rkRoot = "none" THEN "init" ELSE rkRoot
  /\ rkFlock' = [rkFlock EXCEPT !["root"] = p]
  /\ rkProc' = [rkProc EXCEPT ![p] = [RKDown EXCEPT !.pc = "pins", !.run = r]]
  /\ UNCHANGED <<rkMade, rkCopies, rkNames, rkFile, rkLease, rkAcked, rkDead>>

\* openCatalogDirectoryPin and openCatalogFilePin, made only while initializing.
openCatalogPins(p) ==
  /\ RKAt(p, "pins")
  /\ \/ rkMade < RKObjects /\ rkRoot # "init" /\ RKFail(p)
     \/ /\ rkMade < RKObjects /\ rkRoot = "init" /\ rkMade' = rkMade + 1
        /\ UNCHANGED <<rkRoot, rkCopies, rkNames, rkFile, rkLease, rkAcked, rkFlock, rkProc, rkDead>>
     \/ /\ rkMade = RKObjects /\ RKGo(p, "migrate")
        /\ UNCHANGED <<rkDisk, rkAcked, rkFlock, rkDead>>

\* migrateCatalogRunAuthorityStorage: under the catalog's lock the authority is
\* copied to runs, and only then removed from the root; the lock is released.
migrateCatalogRunAuthority(p) ==
  \/ /\ RKAt(p, "migrate") /\ rkFlock["catalog"] = NoRKProc
     /\ rkFlock' = [rkFlock EXCEPT !["catalog"] = p]
     /\ rkCopies' = IF "root" \in rkCopies THEN {"root", "runs"} ELSE rkCopies
     /\ RKGo(p, "remove")
     /\ UNCHANGED <<rkRoot, rkMade, rkNames, rkFile, rkLease, rkAcked, rkDead>>
  \/ /\ RKAt(p, "remove")
     /\ rkCopies' = rkCopies \ {"root"}
     /\ rkFlock' = [rkFlock EXCEPT !["catalog"] = NoRKProc] /\ RKGo(p, "lock")
     /\ UNCHANGED <<rkRoot, rkMade, rkNames, rkFile, rkLease, rkAcked, rkDead>>

\* acquireLockRaw of Open and acquireLock of the operations: the lock, then the
\* same reconciliation.
acquireLock(p) ==
  /\ RKAt(p, "lock") /\ rkFlock["catalog"] = NoRKProc
  /\ rkFlock' = [rkFlock EXCEPT !["catalog"] = p]
  /\ RKGo(p, "reconcile")
  /\ UNCHANGED <<rkDisk, rkAcked, rkDead>>

-----------------------------------------------------------------------------
\* verifyPreparedRunNamespace: what the authority may name as a whole namespace.
verifyPreparedRunNamespace(stage) == stage.attempts /\ stage.identity = "whole"

\* loadRunNamespaceGenerationState and the branches of the reconciliation that
\* find what no step of the protocol leaves.
RKIntegrity ==
  \/ rkAuth.state = "ESTABLISHED" /\ (rkTail # "none" \/ rkStage.attempts \/ rkStage.identity # "none")
  \/ rkAuth.state = "PREPARED_RUN" /\ (rkTail # "none" \/ rkAuth.run \in rkDirs)
  \/ rkAuth.state = "PREPARED_FULL" /\ (rkStage.made = (rkAuth.run \in rkDirs))
  \/ rkAuth.state = "PREPARED_FULL" /\ rkStage.made /\ ~verifyPreparedRunNamespace(rkStage)

\* bootstrapCatalogRunAuthority: only Open may, and only before the root is ready.
bootstrapCatalogRunAuthority(p) ==
  /\ RKAt(p, "reconcile") /\ rkAuth.state = "none"
  /\ rkProc[p].op = "open" /\ rkRoot = "init"
  /\ rkAuth' = [state |-> "ESTABLISHED", run |-> NoRKRun] /\ rkCopies' = {"runs"}
  /\ UNCHANGED <<rkRoot, rkMade, rkStage, rkDirs, rkHistory, rkTail, rkFile, rkLease, rkAcked, rkFlock, rkProc, rkDead>>

\* removeUnboundRunNamespaceStage: a stage no authority names is removed.
removeUnboundRunNamespaceStage(p) ==
  /\ RKAt(p, "reconcile") /\ rkAuth.state = "ESTABLISHED" /\ rkStage.made /\ ~RKIntegrity
  /\ rkStage' = NoRKStage
  /\ UNCHANGED <<rkRoot, rkMade, rkCopies, rkAuth, rkDirs, rkHistory, rkTail, rkFile, rkLease, rkAcked, rkFlock, rkProc, rkDead>>

\* Mutant of rollbackPreparedRunNamespace: the authority is given back before
\* the stage is empty.
rollbackPreparedRunNamespaceEarly(p) ==
  /\ RKAt(p, "reconcile") /\ rkAuth.state = "PREPARED_RUN" /\ ~RKIntegrity
  /\ rkAuth' = [state |-> "ESTABLISHED", run |-> NoRKRun]
  /\ UNCHANGED <<rkRoot, rkMade, rkCopies, rkStage, rkDirs, rkHistory, rkTail, rkFile, rkLease, rkAcked, rkFlock, rkProc, rkDead>>

\* cleanupPartiallyPreparedRunNamespace: the entries of the stage, one at a time.
cleanupPartiallyPreparedRunNamespace(stage) ==
  {[stage EXCEPT !.identity = "none"], [stage EXCEPT !.attempts = FALSE]} \ {stage}

\* rollbackPreparedRunNamespace: the stage's entries, the stage, the authority.
rollbackPreparedRunNamespace(p) ==
  /\ RKAt(p, "reconcile") /\ rkAuth.state = "PREPARED_RUN" /\ ~RKIntegrity
  /\ \/ rkStage' \in cleanupPartiallyPreparedRunNamespace(rkStage) /\ UNCHANGED rkAuth
     \/ rkStage = [NoRKStage EXCEPT !.made = TRUE] /\ rkStage' = NoRKStage /\ UNCHANGED rkAuth
     \/ ~rkStage.made /\ rkAuth' = [state |-> "ESTABLISHED", run |-> NoRKRun] /\ UNCHANGED rkStage
  /\ UNCHANGED <<rkRoot, rkMade, rkCopies, rkDirs, rkHistory, rkTail, rkFile, rkLease, rkAcked, rkFlock, rkProc, rkDead>>

\* completePreparedRunNamespace: the rename, the record (a part of it is cut
\* off and written again) and the checkpoint, as far as they are missing.
completePreparedRunNamespace(p) ==
  /\ RKAt(p, "reconcile") /\ rkAuth.state = "PREPARED_FULL" /\ ~RKIntegrity
  /\ \/ rkStage.made /\ rkStage' = NoRKStage /\ rkDirs' = rkDirs \cup {rkAuth.run} /\ UNCHANGED <<rkTail, rkHistory, rkAuth>>
     \/ /\ rkAuth.run \in rkDirs /\ rkTail # "whole" /\ rkTail' \in {"part", "whole"} \ {rkTail}
        /\ UNCHANGED <<rkStage, rkDirs, rkHistory, rkAuth>>
     \/ /\ rkAuth.run \in rkDirs /\ rkTail = "whole" /\ rkTail' = "none" /\ rkHistory' = Append(rkHistory, rkAuth.run)
        /\ rkAuth' = [state |-> "ESTABLISHED", run |-> NoRKRun] /\ UNCHANGED <<rkStage, rkDirs>>
  /\ UNCHANGED <<rkRoot, rkMade, rkCopies, rkFile, rkLease, rkAcked, rkFlock, rkProc, rkDead>>

\* reconcileRunNamespaceIssuance, its end: an error, or nothing left to do.
reconcileRunNamespaceIssuance(p) ==
  /\ RKAt(p, "reconcile")
  /\ \/ (RKIntegrity \/ (rkAuth.state = "none" /\ rkRoot = "ready")) /\ RKFail(p)
     \/ /\ rkAuth.state = "ESTABLISHED" /\ ~RKIntegrity /\ ~rkStage.made
        /\ RKGo(p, IF rkProc[p].op = "open" THEN "publish" ELSE "body")
        /\ UNCHANGED <<rkDisk, rkAcked, rkFlock, rkDead>>

\* publishCatalogRootGeneration, and both locks are released.
publishCatalogRootGeneration(p) ==
  /\ RKAt(p, "publish")
  /\ rkRoot' = "ready" /\ rkFlock' = RKDrop(p) /\ RKNextOp(p, "read")
  /\ UNCHANGED <<rkMade, rkCopies, rkNames, rkFile, rkLease, rkAcked, rkDead>>

-----------------------------------------------------------------------------
\* recoverTemporaryArtifacts, by which every read begins.
RKRecovered(f) == IF f.at = "temp" THEN NoRKFile ELSE IF f.at = "linked" THEN [f EXCEPT !.at = "whole"] ELSE f
RKRead(r, n) == rkFile' = [rkFile EXCEPT ![r][n] = RKRecovered(@)]
RKFileOf(p) == IF rkProc[p].op \in {"read", "run"} THEN "run.json" ELSE "attempt"
RKUnlock(p) == rkFlock' = [rkFlock EXCEPT !["catalog"] = NoRKProc]

\* ReadRun and ReadAttempt of the registration: a record that is there gives
\* the timestamp; without one the process's own is registered.
readRegistration(p) ==
  /\ RKAt(p, "body") /\ rkProc[p].op \in {"read", "read attempt"}
  /\ LET r == rkProc[p].run
         there == RKRecovered(rkFile[r][RKFileOf(p)])
     IN  /\ IF r \in rkDirs THEN RKRead(r, RKFileOf(p)) ELSE UNCHANGED rkFile
         /\ rkProc' = [rkProc EXCEPT ![p].pc = "lock",
                                     ![p].op = IF rkProc[p].op = "read" THEN "run" ELSE "attempt",
                                     ![p].by = IF there.at = "whole" THEN there.by ELSE p]
  /\ RKUnlock(p)
  /\ UNCHANGED <<rkRoot, rkMade, rkCopies, rkNames, rkLease, rkAcked, rkDead>>

\* createRunNamespace, one action per step that a crash can follow.
stageRunNamespace(p) ==
  /\ RKAt(p, "body") /\ rkProc[p].op = "run" /\ rkProc[p].run \notin rkDirs
  /\ rkStage' = [NoRKStage EXCEPT !.made = TRUE] /\ RKGo(p, "bind")
  /\ UNCHANGED <<rkRoot, rkMade, rkCopies, rkAuth, rkDirs, rkHistory, rkTail, rkFile, rkLease, rkAcked, rkFlock, rkDead>>

prepareRun(p) ==
  /\ RKAt(p, "bind")
  /\ rkAuth' = [state |-> "PREPARED_RUN", run |-> rkProc[p].run] /\ RKGo(p, "attempts")
  /\ UNCHANGED <<rkRoot, rkMade, rkCopies, rkStage, rkDirs, rkHistory, rkTail, rkFile, rkLease, rkAcked, rkFlock, rkDead>>

\* Mutant of makeAttempts: the authority names the whole namespace before it is.
makeAttemptsLate(p) ==
  /\ RKAt(p, "attempts")
  /\ rkAuth' = [rkAuth EXCEPT !.state = "PREPARED_FULL"]
  /\ rkStage' = [rkStage EXCEPT !.attempts = TRUE] /\ RKGo(p, "identity")
  /\ UNCHANGED <<rkRoot, rkMade, rkCopies, rkDirs, rkHistory, rkTail, rkFile, rkLease, rkAcked, rkFlock, rkDead>>

makeAttempts(p) ==
  /\ RKAt(p, "attempts")
  /\ rkStage' = [rkStage EXCEPT !.attempts = TRUE] /\ RKGo(p, "identity")
  /\ UNCHANGED <<rkRoot, rkMade, rkCopies, rkAuth, rkDirs, rkHistory, rkTail, rkFile, rkLease, rkAcked, rkFlock, rkDead>>

\* writePreparedRunIdentity, in two writes.
writePreparedRunIdentity(p) ==
  /\ RKAt(p, "identity")
  /\ rkStage' = [rkStage EXCEPT !.identity = IF @ = "none" THEN "part" ELSE "whole"]
  /\ IF rkStage.identity = "part" THEN RKGo(p, "full") ELSE UNCHANGED rkProc
  /\ UNCHANGED <<rkRoot, rkMade, rkCopies, rkAuth, rkDirs, rkHistory, rkTail, rkFile, rkLease, rkAcked, rkFlock, rkDead>>

prepareFull(p) ==
  /\ RKAt(p, "full")
  /\ rkAuth' = [rkAuth EXCEPT !.state = "PREPARED_FULL"] /\ RKGo(p, "rename")
  /\ UNCHANGED <<rkRoot, rkMade, rkCopies, rkStage, rkDirs, rkHistory, rkTail, rkFile, rkLease, rkAcked, rkFlock, rkDead>>

publishRunDirectory(p) ==
  /\ RKAt(p, "rename")
  /\ rkStage' = NoRKStage /\ rkDirs' = rkDirs \cup {rkProc[p].run} /\ RKGo(p, "history")
  /\ UNCHANGED <<rkRoot, rkMade, rkCopies, rkAuth, rkHistory, rkTail, rkFile, rkLease, rkAcked, rkFlock, rkDead>>

\* The record of the history, in two writes, and its checkpoint.
appendRunGeneration(p) ==
  /\ RKAt(p, "history")
  /\ rkTail' = IF rkTail = "none" THEN "part" ELSE "whole"
  /\ IF rkTail = "part" THEN RKGo(p, "checkpoint") ELSE UNCHANGED rkProc
  /\ UNCHANGED <<rkRoot, rkMade, rkCopies, rkAuth, rkStage, rkDirs, rkHistory, rkFile, rkLease, rkAcked, rkFlock, rkDead>>

checkpointRunGeneration(p) ==
  /\ RKAt(p, "checkpoint")
  /\ rkHistory' = Append(rkHistory, rkProc[p].run) /\ rkTail' = "none"
  /\ rkAuth' = [state |-> "ESTABLISHED", run |-> NoRKRun] /\ RKGo(p, "body")
  /\ UNCHANGED <<rkRoot, rkMade, rkCopies, rkStage, rkDirs, rkFile, rkLease, rkAcked, rkFlock, rkDead>>

\* createOrByteVerify of run.json or of the attempt's record: a record that is
\* there is this one or a conflict.  The attempt's needs the run's.
createOrByteVerify(p) ==
  /\ RKAt(p, "body") /\ rkProc[p].op \in {"run", "attempt"}
  /\ LET r == rkProc[p].run
         n == RKFileOf(p)
         there == RKRecovered(rkFile[r][n])
     IN \/ /\ r \notin rkDirs /\ n = "attempt" /\ RKFail(p)
        \/ /\ r \in rkDirs
           /\ \/ /\ \/ there.at = "whole" /\ there.by # rkProc[p].by
                    \/ n = "attempt" /\ RKRecovered(rkFile[r]["run.json"]).at # "whole"
                 /\ RKFail(p)
              \/ /\ there.at = "whole" /\ there.by = rkProc[p].by
                 /\ RKRead(r, n) /\ RKUnlock(p)
                 /\ rkProc' = [rkProc EXCEPT ![p].pc = "lock", ![p].by = NoRKProc,
                                             ![p].op = IF n = "run.json" THEN "read attempt" ELSE "own"]
                 /\ rkAcked' = IF n = "run.json" THEN rkAcked \cup {<<r, rkProc[p].by>>} ELSE rkAcked
                 /\ UNCHANGED <<rkRoot, rkMade, rkCopies, rkNames, rkLease, rkDead>>
              \/ /\ there.at = "none" /\ (n = "attempt" => RKRecovered(rkFile[r]["run.json"]).at = "whole")
                 /\ rkFile' = [rkFile EXCEPT ![r][n] = [at |-> "temp", by |-> rkProc[p].by]]
                 /\ RKGo(p, "link")
                 /\ UNCHANGED <<rkRoot, rkMade, rkCopies, rkNames, rkLease, rkAcked, rkFlock, rkDead>>

\* linkAt; after the unlink the record is read back by the next pass of the body.
publishRecord(p) ==
  /\ RKAt(p, "link") \/ RKAt(p, "unlink")
  /\ rkFile' = [rkFile EXCEPT ![rkProc[p].run][RKFileOf(p)].at = IF RKAt(p, "link") THEN "linked" ELSE "whole"]
  /\ RKGo(p, IF RKAt(p, "link") THEN "unlink" ELSE "body")
  /\ UNCHANGED <<rkRoot, rkMade, rkCopies, rkNames, rkLease, rkAcked, rkFlock, rkDead>>

-----------------------------------------------------------------------------
\* countActiveOwners: the leases of processes that died are counted too.
RKActive == {r \in RKRuns : rkLease[r].state # "RETIRED"}

\* Install: the attempt is registered, the prior generation retired and the
\* ceiling not reached.
Install(p) ==
  /\ RKAt(p, "body") /\ rkProc[p].op = "own"
  /\ LET r == rkProc[p].run
         may == /\ rkFile[r]["attempt"].at = "whole" /\ rkLease[r].state = "RETIRED"
                /\ Cardinality(RKActive) < RKOwners /\ rkLease[r].gen < RKGens
     IN \/ ~may /\ RKFail(p)
        \/ /\ may /\ RKUnlock(p)
           /\ rkLease' = [rkLease EXCEPT ![r] = [gen |-> @.gen + 1, state |-> "ACTIVE"]]
           /\ rkProc' = [rkProc EXCEPT ![p].pc = "lock", ![p].op = "close", ![p].gen = rkLease[r].gen + 1]
           /\ UNCHANGED <<rkRoot, rkMade, rkCopies, rkNames, rkFile, rkAcked, rkDead>>

\* retireRuntimeOwner: MarkClosing, then Retire, of its own lease only.
retireRuntimeOwner(p) ==
  /\ (RKAt(p, "body") /\ rkProc[p].op = "close") \/ RKAt(p, "retire")
  /\ LET r == rkProc[p].run
         from == IF RKAt(p, "retire") THEN "CLOSING" ELSE "ACTIVE"
     IN \/ (rkLease[r].gen # rkProc[p].gen \/ rkLease[r].state # from) /\ RKFail(p)
        \/ /\ rkLease[r].gen = rkProc[p].gen /\ rkLease[r].state = from
           /\ rkLease' = [rkLease EXCEPT ![r].state = IF from = "ACTIVE" THEN "CLOSING" ELSE "RETIRED"]
           /\ IF from = "ACTIVE" THEN RKGo(p, "retire") /\ UNCHANGED rkFlock
              ELSE rkProc' = [rkProc EXCEPT ![p] = RKDown] /\ RKUnlock(p)
           /\ UNCHANGED <<rkRoot, rkMade, rkCopies, rkNames, rkFile, rkAcked, rkDead>>

\* The process dies, or gives up at a lock still busy after LockTimeout; the
\* kernel drops its flocks.
RKCrash(p) ==
  /\ ~RKAt(p, "down") /\ rkDead < RKCrashes /\ rkDead' = rkDead + 1
  /\ rkProc' = [rkProc EXCEPT ![p] = RKDown] /\ rkFlock' = RKDrop(p)
  /\ UNCHANGED <<rkDisk, rkAcked>>

RKNext ==
  \E p \in RKProcs :
    \/ \E r \in RKRunsOf(p) : Open(p, r)
    \/ openCatalogPins(p) \/ migrateCatalogRunAuthority(p) \/ acquireLock(p)
    \/ bootstrapCatalogRunAuthority(p) \/ removeUnboundRunNamespaceStage(p) \/ rollbackPreparedRunNamespace(p)
    \/ completePreparedRunNamespace(p) \/ reconcileRunNamespaceIssuance(p) \/ publishCatalogRootGeneration(p)
    \/ readRegistration(p) \/ stageRunNamespace(p) \/ prepareRun(p) \/ makeAttempts(p) \/ writePreparedRunIdentity(p)
    \/ prepareFull(p) \/ publishRunDirectory(p) \/ appendRunGeneration(p) \/ checkpointRunGeneration(p)
    \/ createOrByteVerify(p) \/ publishRecord(p) \/ Install(p) \/ retireRuntimeOwner(p)
    \/ RKCrash(p)

RKSpec == RKInit /\ [][RKNext]_rkVars

-----------------------------------------------------------------------------
\* Whenever nobody holds the lock, what the last holder left, dead or alive, is
\* what the next one can finish or undo: it never finds the catalog corrupt.
RKAlwaysRecoverable ==
  /\ rkFlock["catalog"] = NoRKProc => ~RKIntegrity
  /\ rkRoot = "ready" => rkMade = RKObjects /\ rkAuth.state # "none"
  /\ rkRoot = "none" => rkMade = 0

\* A namespace is published once, with its record in the history, and the two
\* agree but for the one that is being issued.
RKHistoryNamesTheRuns ==
  LET named == {rkHistory[i] : i \in 1..Len(rkHistory)} IN
  /\ Cardinality(named) = Len(rkHistory)
  /\ named \subseteq rkDirs /\ rkDirs \subseteq named \cup {rkAuth.run}

\* The authority advances only where it has one copy, so the copies a crashed
\* migration left are never two different ones.
RKOneAuthority == "root" \in rkCopies => rkHistory = <<>> /\ rkAuth.state # "PREPARED_RUN" /\ rkAuth.state # "PREPARED_FULL"

\* A registration that was acknowledged is the run's record for good, and no two
\* processes were acknowledged different ones.
RKRegisteredOnce ==
  \A a \in rkAcked : /\ rkFile[a[1]]["run.json"] = [at |-> "whole", by |-> a[2]]
                     /\ a[1] \in rkDirs

\* ListRuns fails on a published run without its record: only a process that
\* died between the two leaves one, or is still to write it.
ListRunsFails(r) == r \in rkDirs /\ rkFile[r]["run.json"].at \notin {"linked", "whole"}
RKOnlyADeathHidesTheList ==
  \A r \in RKRuns : ListRunsFails(r) => rkDead > 0 \/ \E p \in RKProcs : rkProc[p].run = r /\ rkFlock["catalog"] = p

\* A process that owns a run holds its current lease; a lease that is not
\* retired belongs to a process that runs or that died.
RKOwnersAreReal ==
  /\ \A p \in RKProcs : rkProc[p].gen > 0 => rkProc[p].gen = rkLease[rkProc[p].run].gen /\ rkLease[rkProc[p].run].state # "RETIRED"
  /\ Cardinality(RKActive) <= RKOwners
  /\ \A r \in RKRuns : rkLease[r].gen > 0 => rkFile[r]["attempt"].at = "whole" /\ rkFile[r]["run.json"].at = "whole"
  /\ Cardinality(RKActive) <= Cardinality({rkProc[p].run : p \in {q \in RKProcs : rkProc[q].gen > 0}}) + rkDead

RKSound ==
  /\ RKTypeOK /\ RKAlwaysRecoverable /\ RKHistoryNamesTheRuns /\ RKOneAuthority
  /\ RKRegisteredOnce /\ RKOnlyADeathHidesTheList /\ RKOwnersAreReal
=============================================================================
