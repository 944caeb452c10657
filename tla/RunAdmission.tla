----------------------------- MODULE RunAdmission -----------------------------
(***************************************************************************)
(* internal/runadmission: the admission of one run request, from its       *)
(* receipt to the process that runs it.  The same request is posted again  *)
(* by clients that saw no answer, so several handlers work on it at once;  *)
(* the service may die and come back with other profiles between any two   *)
(* writes.                                                                 *)
(*                                                                         *)
(* A body and a profile stand for their digests.  Files are written by     *)
(* rename (writeNewAtomicAt): there or not.                                *)
(***************************************************************************)
EXTENDS Naturals

CONSTANTS RAHandlers, RABodies, RAProfiles, RAMaxPosts, RAMaxFaults

\* "free" and "process" say who holds the lock, "none" that nothing was written.
ASSUME RAAssumption ==
  RAMaxPosts \in Nat /\ RAMaxFaults \in Nat /\ RAHandlers \cap {"free", "process"} = {} /\ "none" \notin RAProfiles

VARIABLES raReceipt,  \* the receipt: the body and the profile it was received under
          raMaterial, \* plan, capsule and manifest written for the run, and the profile they came from
          raBinding,  \* the admission binding
          raIntent,   \* the launch intent is on disk
          raReg,      \* the run is in the runtime catalogue
          raLock,     \* who holds the run's launch lock
          raRun,      \* the processes launched: starting or running
          raHandler, raProfile, raPosts, raExcused, raFaults

raVars == <<raReceipt, raMaterial, raBinding, raIntent, raReg, raLock, raRun, raHandler, raProfile, raPosts, raExcused, raFaults>>

RANothing == [body |-> "none", profile |-> "none"]
RANoMaterial == [files |-> 0, profile |-> "none"]
RAIdle == [pc |-> "idle", body |-> "none", bound |-> FALSE]
RAInit ==
  /\ raReceipt = RANothing /\ raMaterial = RANoMaterial /\ raBinding = RANothing
  /\ raIntent = FALSE /\ raReg = FALSE /\ raLock = "free" /\ raRun = [starting |-> 0, running |-> 0]
  /\ raHandler = [h \in RAHandlers |-> RAIdle] /\ raProfile \in RAProfiles /\ raPosts = 0 /\ raExcused = FALSE /\ raFaults = 0

RAAt(h, pc) == raHandler[h].pc = pc
RATo(h, pc) == raHandler' = [raHandler EXCEPT ![h].pc = pc]
\* The handler answers; an unstarted launch lock is closed by its defer.
RAAnswer(h) ==
  raHandler' = [raHandler EXCEPT ![h] = RAIdle] /\ raLock' = (IF raLock = h THEN "free" ELSE raLock)
RAKeepDisk == UNCHANGED <<raReceipt, raMaterial, raBinding, raIntent>>
RAKeepWorld == UNCHANGED <<raReg, raRun, raProfile, raPosts, raExcused, raFaults>>

-----------------------------------------------------------------------------
(* admitAuthority *)

RAPost(h, body) ==
  /\ RAAt(h, "idle") /\ raPosts < RAMaxPosts /\ raPosts' = raPosts + 1
  /\ raHandler' = [raHandler EXCEPT ![h] = [pc |-> "receipt", body |-> body, bound |-> FALSE]]
  /\ RAKeepDisk /\ UNCHANGED <<raReg, raLock, raRun, raProfile, raExcused, raFaults>>

\* readAdmissionReceipt, createOrVerifyReceipt: the first body of a request ID is
\* its body; the receipt names the profile of its day.
RAReceive(h) ==
  /\ RAAt(h, "receipt") /\ RAKeepWorld /\ UNCHANGED <<raMaterial, raBinding, raIntent, raLock>>
  /\ IF raReceipt = RANothing
     THEN raReceipt' = [body |-> raHandler[h].body, profile |-> raProfile] /\ RATo(h, "registered")
     ELSE /\ UNCHANGED raReceipt
          /\ RATo(h, IF raReceipt.body = raHandler[h].body THEN "registered" ELSE "refused")

\* registeredReplay, readAdmissionBinding, requireWall and the paths the wall
\* would show: a registered run is answered as it is.
RAReplay(h) ==
  /\ RAAt(h, "registered") /\ RAKeepDisk /\ RAKeepWorld /\ UNCHANGED raLock
  /\ \/ ~raReg /\ raHandler' = [raHandler EXCEPT ![h].pc = "lock", ![h].bound = (raBinding # RANothing)]
     \/ RATo(h, "refused")

\* acquireLaunchLock does not wait: who holds it registers the run, or the
\* request is to be reconciled.  Under it the run may have been registered.
RALockLaunch(h) ==
  /\ RAAt(h, "lock") /\ RAKeepDisk /\ RAKeepWorld
  /\ IF raLock # "free" \/ raReg THEN RATo(h, "refused") /\ UNCHANGED raLock
     ELSE raLock' = h /\ RATo(h, IF raHandler[h].bound \/ raBinding # RANothing THEN "check" ELSE "material")

\* Mutant of RAMayMaterialize: today's profile is taken for the receipt's.
RAMayMaterializeAnyProfile == TRUE

\* A run not yet bound is made from the profile its receipt names, which may
\* have changed since; every other refusal (the repository's head, the template,
\* the executor, the exact edit, the read paths) writes nothing.
RAMayMaterialize == raReceipt.profile = raProfile

\* materialize: the plan, the capsule and the manifest in turn, each created or
\* found the same.
RAMaterialize(h) ==
  /\ RAAt(h, "material") /\ RAKeepWorld /\ UNCHANGED <<raReceipt, raBinding, raIntent, raLock>>
  /\ \/ /\ RAMayMaterialize
        /\ IF raMaterial.files < 3
           THEN raMaterial' = [files |-> raMaterial.files + 1, profile |-> raProfile] /\ UNCHANGED raHandler
           ELSE UNCHANGED raMaterial /\ RATo(h, IF raMaterial.profile = raProfile THEN "bind" ELSE "refused")
     \/ RATo(h, "refused") /\ UNCHANGED raMaterial

\* createOrVerifyAdmissionBinding.
RABind(h) ==
  /\ RAAt(h, "bind") /\ RAKeepWorld /\ UNCHANGED <<raReceipt, raMaterial, raIntent, raLock>>
  /\ raBinding' = [body |-> raReceipt.body, profile |-> raMaterial.profile] /\ RATo(h, "check")

\* validateAdmissionBindingMaterial, runRegistered, readAdmissionLaunchIntent and
\* the probe of the workflow database.
RACheck(h) ==
  /\ RAAt(h, "check") /\ RAKeepDisk /\ RAKeepWorld /\ UNCHANGED raLock
  /\ \/ ~raReg /\ ~raIntent /\ RATo(h, "intent")
     \/ RATo(h, "refused")

\* createAdmissionLaunchIntent: a failed fsync of the folder leaves the intent
\* and starts nothing.
RAIntend(h) ==
  /\ RAAt(h, "intent") /\ raIntent' = TRUE /\ UNCHANGED <<raReceipt, raMaterial, raBinding, raLock, raReg, raRun, raProfile, raPosts>>
  /\ \/ RATo(h, "start") /\ UNCHANGED <<raExcused, raFaults>>
     \/ raFaults < RAMaxFaults /\ raFaults' = raFaults + 1 /\ raExcused' = TRUE /\ RATo(h, "refused")

\* Mutant of RAStart: the process is started without the launch lock.
RAStartUnlocked(h) ==
  /\ RAAt(h, "start") /\ UNCHANGED <<raReceipt, raMaterial, raBinding, raIntent, raReg, raProfile, raPosts, raExcused, raFaults>>
  /\ raRun' = [raRun EXCEPT !.starting = @ + 1] /\ raLock' = "free" /\ RATo(h, "await")

\* startProcess: the process inherits the launch lock as its file 3 and the
\* handler lets go of its own.
RAStart(h) ==
  /\ RAAt(h, "start") /\ UNCHANGED <<raReceipt, raMaterial, raBinding, raIntent, raReg, raProfile, raPosts, raExcused, raFaults>>
  /\ raRun' = [raRun EXCEPT !.starting = @ + 1] /\ raLock' = "process" /\ RATo(h, "await")

\* Mutant of RAStartFails: the intent of a process that was never started stays.
RAStartFailsIntended(h) ==
  /\ RAAt(h, "start") /\ RAAnswer(h) /\ RAKeepDisk /\ RAKeepWorld

\* A process that cannot be started clears the intent; a failed clear leaves it.
RAStartFails(h) ==
  /\ RAAt(h, "start") /\ RAAnswer(h)
  /\ UNCHANGED <<raReceipt, raMaterial, raBinding, raReg, raRun, raProfile, raPosts>>
  /\ \/ raIntent' = FALSE /\ UNCHANGED <<raExcused, raFaults>>
     \/ raFaults < RAMaxFaults /\ raFaults' = raFaults + 1 /\ raExcused' = TRUE /\ UNCHANGED raIntent

\* awaitLaunch: the run registers, or its process ends and leaves the lock: the
\* lock is taken, and the intent cleared when the run is still not registered.
RAAwait(h) ==
  /\ RAAt(h, "await") /\ UNCHANGED <<raReceipt, raMaterial, raBinding, raReg, raRun, raProfile, raPosts>>
  /\ \/ raReg /\ RAAnswer(h) /\ UNCHANGED <<raIntent, raExcused, raFaults>>
     \/ ~raReg /\ raLock = "free" /\ raLock' = h /\ RATo(h, "clear") /\ UNCHANGED <<raIntent, raExcused, raFaults>>
     \/ \* the wait ends, or the client goes away: admitted as it stands
        raFaults < RAMaxFaults /\ raFaults' = raFaults + 1 /\ raExcused' = TRUE /\ RAAnswer(h) /\ UNCHANGED raIntent

RAClear(h) ==
  /\ RAAt(h, "clear") /\ RAAnswer(h) /\ raIntent' = (raReg /\ raIntent)
  /\ UNCHANGED <<raReceipt, raMaterial, raBinding>> /\ RAKeepWorld

RARefused(h) == RAAt(h, "refused") /\ RAAnswer(h) /\ RAKeepDisk /\ RAKeepWorld

-----------------------------------------------------------------------------
(* The process, and the service. *)

\* abcp run registers with the catalogue, or ends before it could (its workflow
\* database is away); it holds the launch lock for its whole life.
RARegister ==
  /\ raRun.starting > 0 /\ raReg' = TRUE /\ raRun' = [starting |-> raRun.starting - 1, running |-> raRun.running + 1]
  /\ RAKeepDisk /\ UNCHANGED <<raLock, raHandler, raProfile, raPosts, raExcused, raFaults>>
RAExit ==
  /\ \/ raRun.starting > 0 /\ raRun' = [raRun EXCEPT !.starting = @ - 1]
     \/ raRun.running > 0 /\ raRun' = [raRun EXCEPT !.running = @ - 1]
  /\ raLock' = IF raLock = "process" THEN "free" ELSE raLock
  /\ RAKeepDisk /\ UNCHANGED <<raReg, raHandler, raProfile, raPosts, raExcused, raFaults>>

\* The service dies, and comes back with the profiles of NewController,
\* loadProfiles and loadProfile; a launched process goes on.
RARestart ==
  /\ raFaults < RAMaxFaults /\ raFaults' = raFaults + 1 /\ raExcused' = TRUE
  /\ raHandler' = [h \in RAHandlers |-> RAIdle] /\ raLock' = (IF raLock \in RAHandlers THEN "free" ELSE raLock)
  /\ raProfile' \in RAProfiles /\ RAKeepDisk /\ UNCHANGED <<raReg, raRun, raPosts>>

RAHandle(h) ==
  RAReceive(h) \/ RAReplay(h) \/ RALockLaunch(h) \/ RAMaterialize(h) \/ RABind(h) \/ RACheck(h) \/ RAIntend(h) \/ RAStart(h) \/ RAStartFails(h)
  \/ RAAwait(h) \/ RAClear(h) \/ RARefused(h)
RANext ==
  \/ \E h \in RAHandlers : RAHandle(h) \/ \E body \in RABodies : RAPost(h, body)
  \/ RARegister \/ RAExit \/ RARestart
RASpec == RAInit /\ [][RANext]_raVars

-----------------------------------------------------------------------------
RATypeOK ==
  /\ raReceipt \in [body : RABodies \cup {"none"}, profile : RAProfiles \cup {"none"}] /\ raMaterial.files \in 0..3
  /\ raBinding \in [body : RABodies \cup {"none"}, profile : RAProfiles \cup {"none"}]
  /\ {raIntent, raReg, raExcused} \subseteq BOOLEAN /\ raLock \in RAHandlers \cup {"free", "process"}
  /\ raRun \in [starting : Nat, running : Nat] /\ raPosts \in 0..RAMaxPosts /\ raFaults \in 0..RAMaxFaults

\* However often a request is posted and replayed, at most one process of the
\* run lives, none is started once the run was registered, and what it was given
\* to run is the body its receipt holds, made from the profile that receipt
\* names (admitAuthority's rechecks under the launch lock).
RALaunchIsSound ==
  /\ raRun.starting + raRun.running <= 1 /\ (raRun.starting > 0 => ~raReg)
  /\ raBinding # RANothing => raBinding = raReceipt

\* A launch intent with no process, no handler about to start or to clear it and
\* no registered run makes every replay answer ErrReconciliationRequired for
\* ever.  Only a death of the service, a failed write or a wait that ended leaves
\* one: a start that fails, or a process that ends early, is cleared.
RAStuckHasACause ==
  raIntent /\ ~raReg /\ raRun.starting = 0 /\ (\A h \in RAHandlers : raHandler[h].pc \notin {"start", "await", "clear"}) => raExcused

\* One process per admitted run, of the body and profile it was admitted with, and
\* no request is stuck without a cause.
RASound == RATypeOK /\ RALaunchIsSound /\ RAStuckHasACause
=============================================================================
