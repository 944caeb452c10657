--------------------------- MODULE JournalNamespaces ---------------------------
(***************************************************************************)
(* internal/actioncontrol: how the action journal's namespaces come to be. *)
(* OpenWithClock pins each object of the journal (the actions directory,   *)
(* the lock, the request index, the run history) by an identity file, and  *)
(* an extended attribute on the service root says how far it got; a shard  *)
(* of the request index goes through the same protocol and then keeps its  *)
(* authority itself.  Several processes open the same root, and any of     *)
(* them may die at any step: the next opener resumes what it finds.        *)
(*                                                                         *)
(* Objects are numbered in the order they are opened; the last one is the  *)
(* shard.  Digests, devices and inodes are left out: a file is missing,    *)
(* empty, part written or whole.                                           *)
(***************************************************************************)
EXTENDS Naturals, FiniteSets

CONSTANTS JNProcs, JNObjects, JNMaxKills

ASSUME JNAssumption == JNObjects \in Nat \ {0} /\ JNMaxKills \in Nat

VARIABLES jnRoot,   \* root authorities: of the journal and of the shard being created
          jnRuns,   \* the run-generation authority
          jnMade,   \* objects that exist
          jnFinal,  \* identities published
          jnStage,  \* the staged identity
          jnShard,  \* [authority, registered, history]: what the shard itself keeps
          jnLock, jnProc, jnKills

jnVars == <<jnRoot, jnRuns, jnMade, jnFinal, jnStage, jnShard, jnLock, jnProc, jnKills>>

JNShardObject == JNObjects + 1
JNKeys == {"journal", "shard"}
JNAbsent == [state |-> "none", done |-> {}, prep |-> "none"]
JNClosed == [pc |-> "closed", key |-> "journal", k |-> 1, creating |-> FALSE]
JNInit ==
  /\ jnRoot = [key \in JNKeys |-> JNAbsent] /\ jnRuns = "none" /\ jnMade = {} /\ jnFinal = {} /\ jnStage = "none"
  /\ jnShard = [authority |-> FALSE, registered |-> FALSE, history |-> FALSE]
  /\ jnLock = "free" /\ jnProc = [p \in JNProcs |-> JNClosed] /\ jnKills = 0

JNAt(p, pc) == jnProc[p].pc = pc
JNTo(p, pc) == jnProc' = [jnProc EXCEPT ![p].pc = pc]
JNKey(p) == jnProc[p].key
JNAuth(p) == jnRoot[JNKey(p)]
JNSet(p, auth) == jnRoot' = [jnRoot EXCEPT ![JNKey(p)] = auth]
JNKeepDisk == UNCHANGED <<jnRoot, jnRuns, jnMade, jnFinal, jnStage, jnShard>>

\* lockRootGeneration: an exclusive flock on the root; it ends with its holder.
JNLocks(p) == jnLock = p

-----------------------------------------------------------------------------
\* OpenWithClock, its head: the authority is read; one that is missing or still
\* initializing is read again under the root lock.
JNOpen(p) ==
  /\ JNAt(p, "closed") /\ JNKeepDisk /\ UNCHANGED <<jnLock, jnKills>>
  /\ IF jnRoot["journal"].state = "established" THEN JNTo(p, "runs") ELSE JNTo(p, "lock")

JNTakeLock(p) ==
  /\ JNAt(p, "lock") /\ jnLock = "free" /\ jnLock' = p
  /\ JNTo(p, "authority") /\ JNKeepDisk /\ UNCHANGED jnKills

\* createInitializingRootGeneration, once nothing of the generation exists
\* (requireGenerationEntriesAbsent).
JNObjectsOf(key) == IF key = "journal" THEN 1..JNObjects ELSE {JNShardObject}
JNCreateAuthority(p) ==
  /\ JNAt(p, "authority") /\ UNCHANGED <<jnRuns, jnMade, jnFinal, jnStage, jnShard, jnLock, jnKills>>
  /\ LET next == IF JNKey(p) = "journal" THEN "runs" ELSE "object"
         absent == (jnMade \cup jnFinal) \cap JNObjectsOf(JNKey(p)) = {}
     IN  IF JNAuth(p).state # "none"
         THEN jnProc' = [jnProc EXCEPT ![p].pc = next, ![p].creating = (JNAuth(p).state = "initializing")] /\ UNCHANGED jnRoot
         ELSE IF absent
              THEN JNSet(p, [JNAbsent EXCEPT !.state = "initializing"]) /\ jnProc' = [jnProc EXCEPT ![p].pc = next, ![p].creating = TRUE]
              ELSE JNTo(p, "integrity") /\ UNCHANGED jnRoot

\* The run-generation authority begins with the journal's, never after it.
JNCreateRuns(p) ==
  /\ JNAt(p, "runs") /\ UNCHANGED <<jnRoot, jnMade, jnFinal, jnStage, jnShard, jnLock, jnKills>>
  /\ IF jnRuns # "none" THEN JNTo(p, "object") /\ UNCHANGED jnRuns
     ELSE IF jnProc[p].creating THEN JNTo(p, "object") /\ jnRuns' = "initializing"
     ELSE JNTo(p, "integrity") /\ UNCHANGED jnRuns

\* openDirectoryAt, ensureLockFile, ensureRunGenerationHistory: the object is
\* opened, and made only while the generation initializes.
JNOpenObject(p) ==
  /\ JNAt(p, "object") /\ UNCHANGED <<jnRoot, jnRuns, jnFinal, jnStage, jnShard, jnLock, jnKills>>
  /\ LET k == jnProc[p].k
     IN  IF k \in jnMade THEN JNTo(p, "pin") /\ UNCHANGED jnMade
         ELSE IF jnProc[p].creating THEN jnMade' = jnMade \cup {k} /\ JNTo(p, "pin")
         ELSE JNTo(p, "integrity") /\ UNCHANGED jnMade

JNNextObject(p) ==
  jnProc' = [jnProc EXCEPT ![p].k = @ + 1,
                           ![p].pc = IF jnProc[p].k < JNObjects THEN "object" ELSE IF JNKey(p) = "journal" THEN "establish" ELSE "history"]

\* pinNamespace: an established object must have its identity; a new one is
\* published through the prepared protocol; a committed one is proved again.
JNPin(p) ==
  /\ JNAt(p, "pin") /\ JNKeepDisk /\ UNCHANGED <<jnLock, jnKills>>
  /\ IF ~jnProc[p].creating \/ jnProc[p].k \in JNAuth(p).done
     THEN IF jnProc[p].k \in jnFinal THEN JNNextObject(p) ELSE JNTo(p, "integrity")
     ELSE JNTo(p, "publish")

\* publishPreparedNamespaceIdentity, first half: the intent.
JNIntent(p) ==
  /\ JNAt(p, "publish") /\ JNAuth(p).prep = "none"
  /\ UNCHANGED <<jnRuns, jnMade, jnFinal, jnStage, jnShard, jnLock, jnKills>>
  /\ IF jnProc[p].k \in jnFinal THEN JNTo(p, "integrity") /\ UNCHANGED jnRoot
     ELSE JNSet(p, [JNAuth(p) EXCEPT !.prep = "intent"]) /\ UNCHANGED jnProc

\* discardUnboundIdentityStage: a stage no authority binds is dropped when it is
\* empty, refused otherwise; then a new one is created.
JNCreateStage(p) ==
  /\ JNAt(p, "publish") /\ JNAuth(p).prep = "intent"
  /\ UNCHANGED <<jnRoot, jnRuns, jnMade, jnFinal, jnShard, jnLock, jnKills>>
  /\ IF jnProc[p].k \in jnFinal \/ jnStage \in {"part", "whole"} THEN JNTo(p, "integrity") /\ UNCHANGED jnStage
     ELSE jnStage' = "empty" /\ JNTo(p, "bind")

\* Mutant of JNBind: the identity's bytes go into the stage before it is bound.
JNBindWritten(p) ==
  /\ JNAt(p, "bind") /\ UNCHANGED <<jnRuns, jnMade, jnFinal, jnShard, jnLock, jnKills>>
  /\ IF jnStage = "empty" THEN jnStage' = "part" /\ UNCHANGED <<jnRoot, jnProc>>
     ELSE JNSet(p, [JNAuth(p) EXCEPT !.prep = "bound"]) /\ JNTo(p, "publish") /\ UNCHANGED jnStage

\* replaceInitializingRootGeneration: the stage is bound while it is empty.
JNBind(p) ==
  /\ JNAt(p, "bind") /\ JNSet(p, [JNAuth(p) EXCEPT !.prep = "bound"]) /\ JNTo(p, "publish")
  /\ UNCHANGED <<jnRuns, jnMade, jnFinal, jnStage, jnShard, jnLock, jnKills>>

\* openBoundIdentityStage, resumeIdentityPublication: the bytes in two writes,
\* then the rename; a published identity must be whole.
JNResume(p) ==
  /\ JNAt(p, "publish") /\ JNAuth(p).prep = "bound"
  /\ UNCHANGED <<jnRoot, jnRuns, jnMade, jnShard, jnLock, jnKills>>
  /\ LET published == jnProc[p].k \in jnFinal
     IN  \/ published = (jnStage # "none") /\ JNTo(p, "integrity") /\ UNCHANGED <<jnFinal, jnStage>>
         \/ ~published /\ jnStage = "empty" /\ jnStage' = "part" /\ UNCHANGED <<jnFinal, jnProc>>
         \/ ~published /\ jnStage = "part" /\ jnStage' = "whole" /\ UNCHANGED <<jnFinal, jnProc>>
         \/ ~published /\ jnStage = "whole" /\ jnStage' = "none" /\ jnFinal' = jnFinal \cup {jnProc[p].k} /\ UNCHANGED jnProc
         \/ published /\ jnStage = "none" /\ JNTo(p, "commit") /\ UNCHANGED <<jnFinal, jnStage>>

\* publishPreparedNamespaceIdentity, its end: the objects are the authority's.
JNCommit(p) ==
  /\ JNAt(p, "commit") /\ JNNextObject(p)
  /\ JNSet(p, [JNAuth(p) EXCEPT !.prep = "none", !.done = @ \cup {jnProc[p].k}])
  /\ UNCHANGED <<jnRuns, jnMade, jnFinal, jnStage, jnShard, jnLock, jnKills>>

\* publishRootGeneration: the generation is established, or is what it says.
JNEstablish(p) ==
  /\ JNAt(p, "establish") /\ UNCHANGED <<jnRuns, jnMade, jnFinal, jnStage, jnShard, jnLock, jnKills>>
  /\ IF jnProc[p].creating THEN JNSet(p, [state |-> "established", done |-> 1..JNObjects, prep |-> "none"]) /\ JNTo(p, "establish-runs")
     ELSE UNCHANGED jnRoot /\ JNTo(p, IF JNAuth(p).state = "established" THEN "establish-runs" ELSE "integrity")

\* The run-generation authority follows, with or without the lock.
JNEstablishRuns(p) ==
  /\ JNAt(p, "establish-runs") /\ jnRuns' = "established" /\ JNTo(p, "shards")
  /\ UNCHANGED <<jnRoot, jnMade, jnFinal, jnStage, jnShard, jnLock, jnKills>>

-----------------------------------------------------------------------------
(* A shard of the request index. *)

\* loadEstablishedShards, openShardGeneration without create: a root record
\* means a shard to finish, the registry decides otherwise.
JNLoadShard(p) ==
  /\ JNAt(p, "shards") /\ JNKeepDisk /\ UNCHANGED jnKills
  /\ LET pending == jnRoot["shard"].state # "none"
         stray == JNShardObject \in jnMade \cup jnFinal
     IN  \/ /\ pending \/ (~jnShard.registered /\ stray)
            /\ JNLocks(p) \/ jnLock = "free"
            /\ jnLock' = p /\ jnProc' = [jnProc EXCEPT ![p].pc = "authority", ![p].key = "shard", ![p].k = JNShardObject]
         \/ /\ ~pending /\ jnShard.registered /\ UNCHANGED jnLock
            /\ JNTo(p, IF JNShardObject \in jnMade \cap jnFinal /\ jnShard.authority /\ jnShard.history THEN "opened" ELSE "integrity")
         \/ ~pending /\ ~jnShard.registered /\ ~stray /\ JNTo(p, "opened") /\ UNCHANGED jnLock

\* openIndexShard with create, from a transaction: the first request of a shard.
JNFirstRequest(p) ==
  /\ JNAt(p, "opened") /\ JNLocks(p) /\ ~jnShard.registered /\ jnRoot["shard"].state = "none"
  /\ jnProc' = [jnProc EXCEPT ![p] = [pc |-> "authority", key |-> "shard", k |-> JNShardObject, creating |-> FALSE]]
  /\ JNKeepDisk /\ UNCHANGED <<jnLock, jnKills>>

\* openShardIssuanceHistory.
JNShardHistory(p) ==
  /\ JNAt(p, "history") /\ UNCHANGED <<jnRoot, jnRuns, jnMade, jnFinal, jnStage, jnLock, jnKills>>
  /\ IF jnShard.history \/ jnProc[p].creating THEN jnShard' = [jnShard EXCEPT !.history = TRUE] /\ JNTo(p, "move")
     ELSE JNTo(p, "integrity") /\ UNCHANGED jnShard

\* Mutant of JNMove: the root record is dropped before the shard is registered.
JNMoveUnregistered(p) ==
  /\ JNAt(p, "move") /\ UNCHANGED <<jnRuns, jnMade, jnFinal, jnStage, jnLock, jnKills>>
  /\ \/ ~jnShard.authority /\ jnShard' = [jnShard EXCEPT !.authority = TRUE] /\ UNCHANGED <<jnRoot, jnProc>>
     \/ jnShard.authority /\ jnRoot["shard"].state # "none" /\ JNSet(p, JNAbsent) /\ UNCHANGED <<jnShard, jnProc>>
     \/ jnRoot["shard"].state = "none" /\ jnShard' = [jnShard EXCEPT !.registered = TRUE] /\ JNTo(p, "opened") /\ UNCHANGED jnRoot

\* moveShardAuthority: the authority on the shard, the registry, and only then
\* the root record dropped.
JNMove(p) ==
  /\ JNAt(p, "move") /\ UNCHANGED <<jnRuns, jnMade, jnFinal, jnStage, jnLock, jnKills>>
  /\ \/ ~jnShard.authority /\ jnShard' = [jnShard EXCEPT !.authority = TRUE] /\ UNCHANGED <<jnRoot, jnProc>>
     \/ jnShard.authority /\ ~jnShard.registered /\ jnShard' = [jnShard EXCEPT !.registered = TRUE] /\ UNCHANGED <<jnRoot, jnProc>>
     \/ jnShard.registered /\ JNSet(p, JNAbsent) /\ JNTo(p, "opened") /\ UNCHANGED jnShard

\* An open journal: the lock is released at the end of the open, and taken
\* again by each transaction (acquireActions), which verifies every namespace.
JNRelease(p) ==
  /\ JNAt(p, "opened") /\ JNLocks(p) /\ jnLock' = "free" /\ JNKeepDisk /\ UNCHANGED <<jnProc, jnKills>>
JNVerified ==
  /\ jnRoot["journal"].state = "established" /\ jnRuns = "established"
  /\ 1..JNObjects \subseteq jnMade \cap jnFinal
  /\ jnShard.registered => jnShard.authority /\ JNShardObject \in jnMade \cap jnFinal
JNTransaction(p) ==
  /\ JNAt(p, "opened") /\ jnLock = "free" /\ JNKeepDisk /\ UNCHANGED jnKills
  /\ IF JNVerified THEN jnLock' = p /\ UNCHANGED jnProc ELSE JNTo(p, "integrity") /\ UNCHANGED jnLock

\* Journal.Close, an error, or the end of the process: the flock goes with it.
JNEnd(p) ==
  /\ jnProc[p].pc \notin {"closed", "integrity"}
  /\ \/ JNAt(p, "opened") /\ ~JNLocks(p) /\ UNCHANGED jnKills
     \/ jnKills < JNMaxKills /\ jnKills' = jnKills + 1
  /\ jnProc' = [jnProc EXCEPT ![p] = JNClosed] /\ jnLock' = (IF JNLocks(p) THEN "free" ELSE jnLock) /\ JNKeepDisk

JNStep(p) ==
  \/ JNOpen(p) \/ JNTakeLock(p) \/ JNCreateAuthority(p) \/ JNCreateRuns(p) \/ JNOpenObject(p) \/ JNPin(p) \/ JNIntent(p)
  \/ JNCreateStage(p) \/ JNBind(p) \/ JNResume(p) \/ JNCommit(p) \/ JNEstablish(p) \/ JNEstablishRuns(p)
  \/ JNLoadShard(p) \/ JNFirstRequest(p) \/ JNShardHistory(p) \/ JNMove(p) \/ JNRelease(p) \/ JNTransaction(p)
JNNext == \E p \in JNProcs : JNStep(p) \/ JNEnd(p)
JNSpec == JNInit /\ [][JNNext]_jnVars

-----------------------------------------------------------------------------
JNTypeOK ==
  /\ \A key \in JNKeys : jnRoot[key].state \in {"none", "initializing", "established"} /\ jnRoot[key].prep \in {"none", "intent", "bound"}
  /\ jnRuns \in {"none", "initializing", "established"} /\ jnMade \cup jnFinal \subseteq 1..JNShardObject
  /\ jnStage \in {"none", "empty", "part", "whole"} /\ jnLock \in JNProcs \cup {"free"} /\ jnKills \in 0..JNMaxKills

\* Whatever process dies at whatever step of the bootstrap (the boundaries of
\* journalBootstrapBoundaryHook), no later opener or transaction takes the root
\* for a damaged one.
JNAlwaysReopens == \A p \in JNProcs : jnProc[p].pc # "integrity"

\* The directories of the journal survive every kill.
JNSound == JNTypeOK /\ JNAlwaysReopens
=============================================================================
