------------------------------ MODULE LedgerFile ------------------------------
(***************************************************************************)
(* internal/ledger/jsonl.go and run_transition_namespace_linux.go: the     *)
(* file of events several processes append to, and the per-run locks that  *)
(* serialise the transitions of a run.  A transition takes the run's lease *)
(* first; the directory of the locks is bound to the ledger by an          *)
(* attribute of its parent, and each lock by a record of a registry.       *)
(* Every write is a step a crash can follow or tear.  The barrier that may *)
(* refuse a transition is TransitionBarrier's.                             *)
(***************************************************************************)
EXTENDS Naturals, Sequences, FiniteSets

CONSTANTS LFProcs,       \* open handles of the ledger, one per process
          LFEvents,      \* the events somebody appends
          LFRuns,
          LFRunOf(_),    \* the run of an event
          LFMoves,       \* the events with a state_from
          LFPlain,       \* the events Append writes; AppendOrVerify the others
          LFTears,       \* bound: writes that stop part way, or power losses
          LFLines        \* bound: lines of the file

NoLFProc == "nobody"
NoLFEvent == "no-event"

ASSUME LFAssumption ==
  /\ NoLFProc \notin LFProcs /\ NoLFEvent \notin LFEvents
  /\ LFMoves \subseteq LFEvents /\ LFPlain \subseteq LFEvents
  /\ \A e \in LFEvents : LFRunOf(e) \in LFRuns
  /\ LFRuns \cap {"parent", "registry", "ledger"} = {}   \* the other flocks
  /\ LFTears \in Nat /\ LFLines \in Nat

VARIABLES lfFile,      \* the ledger: one record per line
          lfSynced,    \* how many of its lines an fsync covered
          lfAcked,     \* the events whose append returned nil
          lfBind,      \* the parent's attribute: none, initializing, established
          lfDir,       \* the .run-locks directory exists
          lfRegistry,  \* the registry's head, and whether its last record is torn
          lfNamed,     \* the runs a whole record of the registry names
          lfLock,      \* the lock file of a run
          lfHeld,      \* who owns each flock
          lfProc,
          lfTears

lfDisk == <<lfFile, lfSynced, lfBind, lfDir, lfRegistry, lfNamed, lfLock>>
lfVars == <<lfDisk, lfAcked, lfHeld, lfProc, lfTears>>

\* part: the file ends in it, without a newline; glued: what Append made of it.
LFForm == {"whole", "part", "glued"}
LFFlocks == {"parent", "registry", "ledger"} \cup LFRuns
LFPC == {"idle", "namespace", "bind", "directory", "registry", "establish", "select", "lockfile", "name",
         "flock", "lease", "ledger", "scan", "sync", "confirm", "close"}

LFTypeOK ==
  /\ lfFile \in Seq([ev : LFEvents, form : LFForm]) /\ lfSynced \in 0..Len(lfFile)
  /\ lfAcked \subseteq LFEvents
  /\ lfBind \in {"none", "initializing", "established"} /\ lfDir \in BOOLEAN
  /\ lfRegistry \in {"none", "empty", "part", "whole", "torn"} /\ lfNamed \subseteq LFRuns
  /\ lfLock \in [LFRuns -> {"none", "part", "whole"}]
  /\ lfHeld \in [LFFlocks -> LFProcs \cup {NoLFProc}]
  /\ lfProc \in [LFProcs -> [pc : LFPC, ev : LFEvents \cup {NoLFEvent}, bound : BOOLEAN, ok : BOOLEAN]]
  /\ lfTears \in 0..LFTears

LFInit ==
  /\ lfFile = <<>> /\ lfSynced = 0 /\ lfAcked = {}
  /\ lfBind = "none" /\ lfDir = FALSE /\ lfRegistry = "none" /\ lfNamed = {}
  /\ lfLock = [r \in LFRuns |-> "none"]
  /\ lfHeld = [f \in LFFlocks |-> NoLFProc]
  /\ lfProc = [p \in LFProcs |-> [pc |-> "idle", ev |-> NoLFEvent, bound |-> FALSE, ok |-> FALSE]]
  /\ lfTears = 0

LFGo(p, pc) == lfProc' = [lfProc EXCEPT ![p].pc = pc]
LFRun(p) == LFRunOf(lfProc[p].ev)

\* lockLedgerFile and unlockLedgerFile.
LFTake(p, f) == lfHeld[f] = NoLFProc /\ lfHeld' = [lfHeld EXCEPT ![f] = p]
LFFree(f) == lfHeld' = [lfHeld EXCEPT ![f] = NoLFProc]
LFDrop(p) == [f \in LFFlocks |-> IF lfHeld[f] = p THEN NoLFProc ELSE lfHeld[f]]

\* An error return: the deferred calls release every lock of the call.
LFRefuse(p) ==
  /\ lfHeld' = LFDrop(p)
  /\ lfProc' = [lfProc EXCEPT ![p].pc = "idle", ![p].ev = NoLFEvent, ![p].ok = FALSE]
  /\ UNCHANGED <<lfDisk, lfAcked, lfTears>>

\* A flock still busy when ledgerFileLockWait is over.
LFBusy(p, f) == lfHeld[f] \notin {p, NoLFProc} /\ LFRefuse(p)

\* appendOrVerify: the caller's event, checked; a transition takes the lease.
\* A plain Append is made once; the others are repeated until they succeed.
appendOrVerify(p, e) ==
  /\ lfProc[p].pc = "idle" /\ e \notin lfAcked
  /\ e \in LFPlain => \A i \in 1..Len(lfFile) : lfFile[i].ev # e
  /\ \A q \in LFProcs : e \in LFPlain => lfProc[q].ev # e
  /\ lfProc' = [lfProc EXCEPT ![p].pc = IF e \in LFMoves THEN "namespace" ELSE "ledger", ![p].ev = e]
  /\ UNCHANGED <<lfDisk, lfAcked, lfHeld, lfTears>>

-----------------------------------------------------------------------------
\* ensureRunTransitionNamespaceLocked, under the parent's flock.  A handle that
\* bound the namespace before only verifies it.
ensureNamespace(p) ==
  /\ lfProc[p].pc = "namespace"
  /\ \/ lfProc[p].bound /\ LFGo(p, "select") /\ UNCHANGED lfHeld
     \/ ~lfProc[p].bound /\ LFTake(p, "parent") /\ LFGo(p, "bind")
     \/ ~lfProc[p].bound /\ LFBusy(p, "parent")
  /\ UNCHANGED <<lfDisk, lfAcked, lfTears>>

\* The parent's attribute: a directory nobody bound is refused.
bindParent(p) ==
  /\ lfProc[p].pc = "bind"
  /\ \/ lfBind = "none" /\ lfDir /\ LFRefuse(p)
     \/ /\ lfBind = "none" => ~lfDir
        /\ lfBind' = IF lfBind = "none" THEN "initializing" ELSE lfBind
        /\ LFGo(p, "directory")
        /\ UNCHANGED <<lfFile, lfSynced, lfDir, lfRegistry, lfNamed, lfLock, lfAcked, lfHeld, lfTears>>

\* openRunTransitionDirectory: made only while the namespace is initializing.
openRunTransitionDirectory(p) ==
  /\ lfProc[p].pc = "directory"
  /\ \/ ~lfDir /\ lfBind # "initializing" /\ LFRefuse(p)
     \/ /\ lfDir \/ lfBind = "initializing"
        /\ lfDir' = TRUE
        /\ LFGo(p, "registry")
        /\ UNCHANGED <<lfFile, lfSynced, lfBind, lfRegistry, lfNamed, lfLock, lfAcked, lfHeld, lfTears>>

\* openRunTransitionRegistry and the first readRunTransitionRegistry: the head
\* is written into a new file or an empty one; a part of a head is refused.
openRunTransitionRegistry(p) ==
  /\ lfProc[p].pc = "registry"
  /\ \/ (lfRegistry \in {"part", "torn"} \/ (lfRegistry \in {"none", "empty"} /\ lfBind # "initializing")) /\ LFRefuse(p)
     \/ /\ lfRegistry = "whole" \/ (lfRegistry \in {"none", "empty"} /\ lfBind = "initializing")
        /\ lfRegistry' = "whole"
        /\ LFGo(p, "establish")
        /\ UNCHANGED <<lfFile, lfSynced, lfBind, lfDir, lfNamed, lfLock, lfAcked, lfHeld, lfTears>>

\* The second publication, and the unlock of the parent.
establishNamespace(p) ==
  /\ lfProc[p].pc = "establish"
  /\ lfBind' = "established"
  /\ LFFree("parent")
  /\ lfProc' = [lfProc EXCEPT ![p].pc = "select", ![p].bound = TRUE]
  /\ UNCHANGED <<lfFile, lfSynced, lfDir, lfRegistry, lfNamed, lfLock, lfAcked, lfTears>>

\* acquireRunTransitionLeaseLocked: the registry is locked and read.
acquireRunTransitionLease(p) ==
  /\ lfProc[p].pc = "select"
  /\ \/ lfRegistry = "torn" /\ lfHeld["registry"] = NoLFProc /\ LFRefuse(p)
     \/ LFBusy(p, "registry")
     \/ /\ lfRegistry # "torn" /\ LFTake(p, "registry") /\ LFGo(p, "lockfile")
        /\ UNCHANGED <<lfDisk, lfAcked, lfTears>>

\* Mutant of openRunTransitionLock: a lock that is there is not read back.
openRunTransitionLockUnread(p) ==
  /\ lfProc[p].pc = "lockfile"
  /\ LET r == LFRun(p) IN
     \/ lfLock[r] = "none" /\ r \in lfNamed /\ LFRefuse(p)
     \/ /\ lfLock[r] # "none" \/ r \notin lfNamed
        /\ lfLock' = [lfLock EXCEPT ![r] = IF @ = "none" THEN "whole" ELSE @]
        /\ LFGo(p, "name")
        /\ UNCHANGED <<lfFile, lfSynced, lfBind, lfDir, lfRegistry, lfNamed, lfAcked, lfHeld, lfTears>>

\* openRunTransitionLock: a lock the registry does not name may be made, and
\* one a crash left whole is taken over; verifyRunTransitionLock reads it back.
openRunTransitionLock(p) ==
  /\ lfProc[p].pc = "lockfile"
  /\ LET r == LFRun(p) IN
     \/ (lfLock[r] = "part" \/ (lfLock[r] = "none" /\ r \in lfNamed)) /\ LFRefuse(p)
     \/ /\ lfLock[r] = "whole" \/ (lfLock[r] = "none" /\ r \notin lfNamed)
        /\ lfLock' = [lfLock EXCEPT ![r] = "whole"]
        /\ LFGo(p, "name")
        /\ UNCHANGED <<lfFile, lfSynced, lfBind, lfDir, lfRegistry, lfNamed, lfAcked, lfHeld, lfTears>>

\* appendRunTransitionIdentity, when the registry does not name the lock yet,
\* and the unlock of the registry.
appendRunTransitionIdentity(p) ==
  /\ lfProc[p].pc = "name"
  /\ lfNamed' = lfNamed \cup {LFRun(p)}
  /\ LFFree("registry")
  /\ LFGo(p, "flock")
  /\ UNCHANGED <<lfFile, lfSynced, lfBind, lfDir, lfRegistry, lfLock, lfAcked, lfTears>>

\* Mutant of AcquireRunTransition: the flock's error is ignored.
AcquireRunTransitionBusy(p) ==
  /\ lfProc[p].pc = "flock"
  /\ lfHeld' = [lfHeld EXCEPT ![LFRun(p)] = p] /\ LFGo(p, "lease") /\ UNCHANGED <<lfDisk, lfAcked, lfTears>>

\* AcquireRunTransition, after the handle's mutex is released: the bounded wait
\* for the run's flock.
AcquireRunTransition(p) ==
  /\ lfProc[p].pc = "flock"
  /\ \/ LFBusy(p, LFRun(p))
     \/ LFTake(p, LFRun(p)) /\ LFGo(p, "lease") /\ UNCHANGED <<lfDisk, lfAcked, lfTears>>

\* verifyRunTransitionLeaseLocked, under the registry's flock.
LFLeaseHolds(p) ==
  /\ lfBind = "established" /\ lfRegistry = "whole"
  /\ LFRun(p) \in lfNamed /\ lfLock[LFRun(p)] = "whole"

verifyRunTransitionLease(p) ==
  /\ lfProc[p].pc = "lease"
  /\ \/ LFBusy(p, "registry")
     \/ lfHeld["registry"] = NoLFProc /\ ~LFLeaseHolds(p) /\ LFRefuse(p)
     \/ /\ lfHeld["registry"] = NoLFProc /\ LFLeaseHolds(p)
        /\ LFGo(p, "ledger") /\ UNCHANGED <<lfDisk, lfAcked, lfHeld, lfTears>>

-----------------------------------------------------------------------------
\* withFileLock: the ledger's flock, and the lease of a transition again.
withFileLock(p) ==
  /\ lfProc[p].pc = "ledger"
  /\ \/ LFBusy(p, "ledger")
     \/ /\ lfProc[p].ev \in LFMoves /\ ~LFLeaseHolds(p) /\ LFRefuse(p)
     \/ /\ lfProc[p].ev \in LFMoves => LFLeaseHolds(p)
        /\ LFTake(p, "ledger") /\ LFGo(p, "scan") /\ UNCHANGED <<lfDisk, lfAcked, lfTears>>

\* scanExactEvent: every line is a valid event, the last one ends in a newline,
\* and the event is there at most once.
LFClean == \A i \in 1..Len(lfFile) : lfFile[i].form = "whole"
LFAt(e) == {i \in 1..Len(lfFile) : lfFile[i].ev = e}
LFScans(e) == LFClean /\ Cardinality(LFAt(e)) <= 1

\* The bytes go to the end of the file: after a part without a newline they
\* end up on its line.
LFWritten(e, form) ==
  IF Len(lfFile) > 0 /\ lfFile[Len(lfFile)].form = "part"
  THEN Append(SubSeq(lfFile, 1, Len(lfFile) - 1), [ev |-> e, form |-> IF form = "whole" THEN "glued" ELSE "part"])
  ELSE Append(lfFile, [ev |-> e, form |-> form])

\* A line that grew is no longer covered by the fsync of its first bytes.
LFStillSynced == IF Len(lfFile) > 0 /\ lfFile[Len(lfFile)].form = "part" /\ lfSynced = Len(lfFile) THEN lfSynced - 1 ELSE lfSynced

\* Mutant of writeEvent: an event that is there is written again.
writeEventBlind(p) ==
  /\ lfProc[p].pc = "scan"
  /\ LET e == lfProc[p].ev IN
     /\ e \notin LFPlain => LFClean
     /\ Len(lfFile) < LFLines /\ lfFile' = LFWritten(e, "whole") /\ LFGo(p, "sync")
     /\ UNCHANGED <<lfSynced, lfBind, lfDir, lfRegistry, lfNamed, lfLock, lfAcked, lfHeld, lfTears>>

\* appendOrVerify under the lock: AppendOrVerify scans, Append does not.
writeEvent(p) ==
  /\ lfProc[p].pc = "scan"
  /\ LET e == lfProc[p].ev IN
     \/ e \notin LFPlain /\ ~LFScans(e) /\ LFRefuse(p)
     \/ /\ e \notin LFPlain /\ LFScans(e) /\ LFAt(e) # {}
        /\ LFGo(p, "sync") /\ UNCHANGED <<lfDisk, lfAcked, lfHeld, lfTears>>
     \/ /\ e \in LFPlain \/ (LFScans(e) /\ LFAt(e) = {})
        /\ Len(lfFile) < LFLines /\ lfFile' = LFWritten(e, "whole") /\ lfSynced' = LFStillSynced /\ LFGo(p, "sync")
        /\ UNCHANGED <<lfBind, lfDir, lfRegistry, lfNamed, lfLock, lfAcked, lfHeld, lfTears>>

\* Mutant of syncEvent: the append returns without the fsync.
syncEventLate(p) ==
  /\ lfProc[p].pc = "sync"
  /\ lfProc' = [lfProc EXCEPT ![p].pc = "confirm"]
  /\ UNCHANGED <<lfDisk, lfAcked, lfHeld, lfTears>>

\* The fsync, which may fail and then says nothing of the line.
syncEvent(p) ==
  /\ lfProc[p].pc = "sync"
  /\ \/ LFRefuse(p)
     \/ /\ lfSynced' = Len(lfFile) /\ LFGo(p, "confirm")
        /\ UNCHANGED <<lfFile, lfBind, lfDir, lfRegistry, lfNamed, lfLock, lfAcked, lfHeld, lfTears>>

\* AppendOrVerify reads the event back; the ledger is unlocked.
confirmEvent(p) ==
  /\ lfProc[p].pc = "confirm"
  /\ LET e == lfProc[p].ev
         ok == e \in LFPlain \/ (LFScans(e) /\ LFAt(e) # {})
     IN  lfProc' = [lfProc EXCEPT ![p].pc = "close", ![p].ok = ok]
  /\ LFFree("ledger")
  /\ UNCHANGED <<lfDisk, lfAcked, lfTears>>

\* RunTransitionLease.Close, and the answer: a lease that no longer verifies is
\* an error even though the event is durable.
LFClose(p) ==
  /\ lfProc[p].pc = "close"
  /\ LET e == lfProc[p].ev
         ok == lfProc[p].ok /\ (e \in LFMoves => LFLeaseHolds(p))
     IN  lfAcked' = IF ok THEN lfAcked \cup {e} ELSE lfAcked
  /\ lfHeld' = LFDrop(p)
  /\ lfProc' = [lfProc EXCEPT ![p].pc = "idle", ![p].ev = NoLFEvent, ![p].ok = FALSE]
  /\ UNCHANGED <<lfDisk, lfTears>>

-----------------------------------------------------------------------------
\* A process dies: its locks are gone, what it wrote stays.  The registry may
\* have been made and not yet written, which the next process makes good.
LFCrash(p) ==
  /\ lfProc[p].pc # "idle"
  /\ \/ UNCHANGED lfRegistry
     \/ lfProc[p].pc = "registry" /\ lfRegistry = "none" /\ lfBind = "initializing" /\ lfRegistry' = "empty"
  /\ lfHeld' = LFDrop(p)
  /\ lfProc' = [lfProc EXCEPT ![p] = [pc |-> "idle", ev |-> NoLFEvent, bound |-> FALSE, ok |-> FALSE]]
  /\ UNCHANGED <<lfFile, lfSynced, lfBind, lfDir, lfNamed, lfLock, lfAcked, lfTears>>

\* A write stops part way, or before its first byte for a lock that was just
\* made (the process is killed, or the disk is full): a file nobody repairs.
LFTear(p) ==
  /\ lfTears < LFTears /\ lfTears' = lfTears + 1
  /\ \/ /\ lfProc[p].pc = "scan" /\ Len(lfFile) < LFLines
        /\ LET e == lfProc[p].ev IN
           /\ e \in LFPlain \/ (LFScans(e) /\ LFAt(e) = {})
           /\ lfFile' = LFWritten(e, "part") /\ lfSynced' = LFStillSynced
        /\ UNCHANGED <<lfRegistry, lfLock>>
     \/ /\ lfProc[p].pc = "registry" /\ lfRegistry \in {"none", "empty"} /\ lfBind = "initializing"
        /\ lfRegistry' = "part" /\ UNCHANGED <<lfFile, lfSynced, lfLock>>
     \/ /\ lfProc[p].pc = "lockfile" /\ lfLock[LFRun(p)] = "none" /\ LFRun(p) \notin lfNamed
        /\ lfLock' = [lfLock EXCEPT ![LFRun(p)] = "part"] /\ UNCHANGED <<lfFile, lfSynced, lfRegistry>>
     \/ /\ lfProc[p].pc = "name" /\ LFRun(p) \notin lfNamed
        /\ lfRegistry' = "torn" /\ UNCHANGED <<lfFile, lfSynced, lfLock>>
  /\ lfHeld' = LFDrop(p)
  /\ lfProc' = [lfProc EXCEPT ![p] = [pc |-> "idle", ev |-> NoLFEvent, bound |-> FALSE, ok |-> FALSE]]
  /\ UNCHANGED <<lfBind, lfDir, lfNamed, lfAcked>>

\* Power is lost: lines no fsync covered may be gone.
LFPowerLoss ==
  /\ lfTears < LFTears /\ lfTears' = lfTears + 1
  /\ \E n \in lfSynced..Len(lfFile) : lfFile' = SubSeq(lfFile, 1, n) /\ lfSynced' = n
  /\ lfHeld' = [f \in LFFlocks |-> NoLFProc]
  /\ lfProc' = [p \in LFProcs |-> [pc |-> "idle", ev |-> NoLFEvent, bound |-> FALSE, ok |-> FALSE]]
  /\ UNCHANGED <<lfBind, lfDir, lfRegistry, lfNamed, lfLock, lfAcked>>

LFNext ==
  \/ \E p \in LFProcs :
       \/ \E e \in LFEvents : appendOrVerify(p, e)
       \/ ensureNamespace(p) \/ bindParent(p) \/ openRunTransitionDirectory(p)
       \/ openRunTransitionRegistry(p) \/ establishNamespace(p)
       \/ acquireRunTransitionLease(p) \/ openRunTransitionLock(p) \/ appendRunTransitionIdentity(p)
       \/ AcquireRunTransition(p) \/ verifyRunTransitionLease(p)
       \/ withFileLock(p) \/ writeEvent(p) \/ syncEvent(p) \/ confirmEvent(p) \/ LFClose(p)
       \/ LFCrash(p) \/ LFTear(p)
  \/ LFPowerLoss

LFSpec == LFInit /\ [][LFNext]_lfVars

-----------------------------------------------------------------------------
\* An event AppendOrVerify acknowledged is one whole line that an fsync covered,
\* whatever crashed, retried or appended since; one Append acknowledged may
\* share its line with a torn one, and then every later AppendOrVerify refuses.
LFAcknowledgedStays ==
  \A e \in lfAcked :
    \E i \in LFAt(e) : /\ i <= lfSynced /\ LFAt(e) = {i}
                       /\ lfFile[i].form = "whole" \/ (e \in LFPlain /\ lfFile[i].form = "glued" /\ lfTears > 0)

\* What a crash can leave of the namespace is what the next process completes:
\* nothing is named before it is whole, whichever processes raced to make it.
LFNamesWhatIsThere ==
  /\ lfDir => lfBind # "none"
  /\ lfRegistry # "none" => lfDir
  /\ lfBind = "established" => lfRegistry \in {"whole", "torn"}
  /\ \A r \in LFRuns : /\ lfLock[r] # "none" => lfBind = "established"
                       /\ r \in lfNamed => lfLock[r] = "whole"

\* Without a torn write no file of the ledger is one a process refuses.
LFOnlyATearRefuses ==
  lfTears = 0 => LFClean /\ lfRegistry \in {"none", "empty", "whole"} /\ \A r \in LFRuns : lfLock[r] # "part"

\* Two transitions of one run are never between their lease and its close at
\* the same time, and the writer of the ledger is alone.
LFOneTransitionAtATime ==
  \A p, q \in LFProcs :
    p # q /\ lfProc[p].ev \in LFMoves /\ lfProc[q].ev \in LFMoves =>
      ~(/\ lfProc[p].pc \in {"ledger", "scan", "sync", "confirm", "close"}
        /\ lfProc[q].pc \in {"ledger", "scan", "sync", "confirm", "close"}
        /\ LFRun(p) = LFRun(q))

LFSound == LFTypeOK /\ LFAcknowledgedStays /\ LFNamesWhatIsThere /\ LFOnlyATearRefuses /\ LFOneTransitionAtATime
=============================================================================
