--------------------------- MODULE RecordsProofs ----------------------------
(***************************************************************************)
(* Proofs about the durable records, each for every value of its           *)
(* constants: RunAdmission, MergeEvidence, MergeRecords, CIAttempts and    *)
(* CICollection; the two properties of MCRecords made of them follow.      *)
(*                                                                         *)
(* Admission: a handler between materialize and awaitLaunch holds the      *)
(* launch lock, a living process holds it, and it has one holder, so a     *)
(* handler about to start a process knows that none lives and that none can*)
(* register the run behind its back.                                       *)
(*                                                                         *)
(* Evidence and records of a merge: an observation is dated by the clock of*)
(* the controller, and a record is made of others of its own READY and     *)
(* write, which the names in them say.                                     *)
(*                                                                         *)
(* CI evidence: an attempt's bundle and event are written once under the   *)
(* lock of its reservation. A collection's two sweeps are compared item by *)
(* item: what both show did not change between them, and the head was read *)
(* there.                                                                  *)
(***************************************************************************)
EXTENDS MCRecords, FiniteSetTheorems, SequenceTheorems, TLAPS

-----------------------------------------------------------------------------
(* RunAdmission: one process per admitted run. *)

RAUnderLock == {"material", "bind", "check", "intent", "start", "clear"}
RAPcs == RAUnderLock \cup {"idle", "receipt", "registered", "lock", "await", "refused"}

RAHandlersTyped ==
  /\ raHandler \in [RAHandlers -> [pc : RAPcs, body : RABodies \cup {"none"}, bound : BOOLEAN]]
  /\ raProfile \in RAProfiles
  /\ raMaterial \in [files : 0..3, profile : RAProfiles \cup {"none"}]

\* The holder of the launch lock: a handler at work, or the process it started.
RALockHeld ==
  /\ \A h \in RAHandlers : raHandler[h].pc \in RAUnderLock => raLock = h
  /\ raRun.starting + raRun.running > 0 => raLock = "process"

\* From the recheck under the lock to the start nobody registers the run.
RAUnregistered == \A h \in RAHandlers : raHandler[h].pc \in {"intent", "start"} => ~raReg

\* The files of a run come from the profile of its receipt.
RAMaterialIsReceived ==
  /\ raMaterial.files > 0 => raMaterial.profile = raReceipt.profile /\ raMaterial.profile \in RAProfiles
  /\ \A h \in RAHandlers : raHandler[h].pc = "bind" => raMaterial.files > 0

\* A launch intent belongs to the handler that wrote it until the run registers.
RAIntentIsOwned ==
  raIntent /\ ~raReg /\ ~raExcused => \E h \in RAHandlers : raHandler[h].pc \in {"start", "await", "clear"}

\* The inductive invariant: RASound with what the lock and the intent mean.
RAInv ==
  /\ RATypeOK /\ RAHandlersTyped /\ RALockHeld /\ RAUnregistered /\ RAMaterialIsReceived /\ RAIntentIsOwned /\ RALaunchIsSound

-----------------------------------------------------------------------------
(* How a step moves a handler. *)

\* The handlers' state, and one of them.
RAHandlerStates == [pc : RAPcs, body : RABodies \cup {"none"}, bound : BOOLEAN]
\* A step moves handler h to pc and no other.
RAMoved(h, pc) ==
  /\ raHandler' \in [RAHandlers -> RAHandlerStates]
  /\ raHandler'[h].pc = pc /\ \A k \in RAHandlers \ {h} : raHandler'[k] = raHandler[k]

\* RATo is such a move.
LEMMA RAToMoves ==
  ASSUME RAHandlersTyped, NEW h \in RAHandlers, NEW pc \in RAPcs, RATo(h, pc)
  PROVE  RAMoved(h, pc)
<1>1. raHandler \in [RAHandlers -> RAHandlerStates]
  BY DEF RAHandlersTyped, RAHandlerStates
<1>2. [raHandler[h] EXCEPT !.pc = pc] \in RAHandlerStates /\ [raHandler[h] EXCEPT !.pc = pc].pc = pc
  BY <1>1 DEF RAHandlerStates
<1>3. raHandler' = [raHandler EXCEPT ![h] = [raHandler[h] EXCEPT !.pc = pc]]
  BY <1>1 DEF RATo
<1> QED BY <1>1, <1>2, <1>3 DEF RAMoved

\* An answer makes the handler idle, and lets go of a lock that it holds.
LEMMA RAAnswerMoves ==
  ASSUME RAHandlersTyped, NEW h \in RAHandlers, RAAnswer(h)
  PROVE  RAMoved(h, "idle") /\ raLock' = (IF raLock = h THEN "free" ELSE raLock)
<1>1. raHandler \in [RAHandlers -> RAHandlerStates]
  BY DEF RAHandlersTyped, RAHandlerStates
<1>2. RAIdle \in RAHandlerStates /\ RAIdle.pc = "idle"
  BY DEF RAHandlerStates, RAIdle, RAPcs, RAUnderLock
<1>3. raHandler' = [raHandler EXCEPT ![h] = RAIdle]
  BY DEF RAAnswer
<1> QED BY <1>1, <1>2, <1>3 DEF RAMoved, RAAnswer

-----------------------------------------------------------------------------
(* The invariant is kept. *)

\* A handler that works from its receipt to the launch lock keeps the invariant:
\* it writes the receipt, or nothing.
LEMMA RAReceiptKeeps ==
  ASSUME RAInv, NEW h \in RAHandlers, RAReceive(h) \/ RAReplay(h) \/ RACheck(h) \/ RARefused(h)
  PROVE  RAInv'
<1> USE RAAssumption
<1>1. /\ UNCHANGED <<raMaterial, raBinding, raIntent, raReg, raRun, raProfile, raPosts, raExcused, raFaults>>
      /\ \/ raReceipt' = raReceipt
         \/ raReceipt = RANothing /\ raReceipt' = [body |-> raHandler[h].body, profile |-> raProfile]
  BY DEF RAReceive, RAReplay, RACheck, RARefused, RAKeepWorld, RAKeepDisk
<1>2. /\ raHandler[h].pc \notin {"start", "await", "clear"}
      /\ \/ \E pc \in {"registered", "lock", "refused", "idle"} : RAMoved(h, pc)
         \/ RAMoved(h, "intent") /\ ~raReg /\ raHandler[h].pc = "check"
      /\ raLock' = raLock \/ (raLock = h /\ raLock' = "free" /\ RAMoved(h, "idle"))
  <2>1. CASE RAReceive(h)
    BY <2>1, RAToMoves DEF RAReceive, RAAt, RAInv, RAPcs, RAUnderLock
  <2>2. CASE RAReplay(h)
    <3>1. CASE RATo(h, "refused")
      BY <2>2, <3>1, RAToMoves DEF RAReplay, RAAt, RAInv, RAPcs, RAUnderLock
    <3>2. CASE raHandler' = [raHandler EXCEPT ![h].pc = "lock", ![h].bound = (raBinding # RANothing)]
      <4>1. raHandler \in [RAHandlers -> RAHandlerStates]
        BY DEF RAInv, RAHandlersTyped, RAHandlerStates
      <4>2. DEFINE s == [raHandler[h] EXCEPT !.pc = "lock", !.bound = (raBinding # RANothing)]
      <4>3. s \in RAHandlerStates /\ s.pc = "lock"
        BY <4>1 DEF RAHandlerStates, RAPcs, RAUnderLock
      <4>4. raHandler' = [raHandler EXCEPT ![h] = s]
        BY <3>2, <4>1
      <4>5. RAMoved(h, "lock")
        BY <4>1, <4>3, <4>4 DEF RAMoved
      <4> QED BY <2>2, <4>5 DEF RAReplay, RAAt
    <3> QED BY <2>2, <3>1, <3>2 DEF RAReplay
  <2>3. CASE RACheck(h)
    BY <2>3, RAToMoves DEF RACheck, RAAt, RAInv, RAPcs, RAUnderLock
  <2>4. CASE RARefused(h)
    BY <2>4, RAAnswerMoves DEF RARefused, RAAt, RAInv
  <2> QED BY <2>1, <2>2, <2>3, <2>4
<1>3. raHandler[h].body \in RABodies \cup {"none"}
  BY DEF RAInv, RAHandlersTyped
<1>4. RATypeOK'
  BY <1>1, <1>2, <1>3 DEF RAInv, RATypeOK, RAHandlersTyped
<1>5. RAHandlersTyped'
  BY <1>1, <1>2 DEF RAInv, RAHandlersTyped, RAMoved, RAHandlerStates
<1>6. RALockHeld'
  BY <1>1, <1>2 DEF RAInv, RALockHeld, RAMoved, RAUnderLock
<1>7. RAUnregistered'
  BY <1>1, <1>2 DEF RAInv, RAUnregistered, RAMoved
<1>8. RAMaterialIsReceived'
  BY <1>1, <1>2 DEF RAInv, RAMaterialIsReceived, RAMoved, RANothing
<1>9. RAIntentIsOwned'
  BY <1>1, <1>2 DEF RAInv, RAIntentIsOwned, RAMoved
<1>10. RALaunchIsSound'
  BY <1>1 DEF RAInv, RALaunchIsSound, RANothing
<1> QED BY <1>4, <1>5, <1>6, <1>7, <1>8, <1>9, <1>10 DEF RAInv

\* A handler that takes the lock, and writes the files and the binding under it,
\* keeps the invariant.
LEMMA RABindKeeps ==
  ASSUME RAInv, NEW h \in RAHandlers, RALockLaunch(h) \/ RAMaterialize(h) \/ RABind(h)
  PROVE  RAInv'
<1> USE RAAssumption
<1>1. UNCHANGED <<raReceipt, raIntent, raReg, raRun, raProfile, raPosts, raExcused, raFaults>>
  BY DEF RALockLaunch, RAMaterialize, RABind, RAKeepWorld, RAKeepDisk
<1>2. raHandler[h].pc \in {"lock", "material", "bind"}
  BY DEF RALockLaunch, RAMaterialize, RABind, RAAt
<1>3. \/ RAMoved(h, "refused") /\ raLock' = raLock
      \/ raLock = "free" /\ raLock' = h /\ \E pc \in {"check", "material"} : RAMoved(h, pc)
      \/ raLock' = raLock /\ raHandler' = raHandler
      \/ raLock' = raLock /\ raHandler[h].pc = "material" /\ RAMoved(h, "bind") /\ ~raMaterial.files < 3 /\ raMaterial' = raMaterial
      \/ raLock' = raLock /\ raHandler[h].pc = "bind" /\ RAMoved(h, "check")
  BY RAToMoves DEF RALockLaunch, RAMaterialize, RABind, RAAt, RAInv, RAPcs, RAUnderLock
<1>4. \/ raMaterial' = raMaterial
      \/ /\ raReceipt.profile = raProfile /\ raMaterial.files < 3
         /\ raMaterial' = [files |-> raMaterial.files + 1, profile |-> raProfile]
  BY DEF RALockLaunch, RAMaterialize, RABind, RAKeepDisk, RAMayMaterialize
<1>5. \/ raBinding' = raBinding
      \/ raHandler[h].pc = "bind" /\ raBinding' = [body |-> raReceipt.body, profile |-> raMaterial.profile]
  BY DEF RALockLaunch, RAMaterialize, RABind, RAKeepDisk, RAAt
<1>6. raBinding' = raBinding \/ raBinding' = raReceipt
  BY <1>5 DEF RAInv, RAMaterialIsReceived, RATypeOK
<1>7. raMaterial' \in [files : 0..3, profile : RAProfiles \cup {"none"}] /\ raMaterial'.files >= raMaterial.files
  BY <1>4 DEF RAInv, RAHandlersTyped
<1>8. RATypeOK'
  BY <1>1, <1>3, <1>6, <1>7 DEF RAInv, RATypeOK
<1>9. RAHandlersTyped'
  BY <1>1, <1>3, <1>7 DEF RAInv, RAHandlersTyped, RAMoved, RAHandlerStates
<1>10. RALockHeld'
  BY <1>1, <1>2, <1>3 DEF RAInv, RALockHeld, RAMoved, RAUnderLock
<1>11. RAUnregistered'
  BY <1>1, <1>2, <1>3 DEF RAInv, RAUnregistered, RAMoved
<1>12. RAMaterialIsReceived'
  BY <1>1, <1>2, <1>3, <1>4, <1>7 DEF RAInv, RAMaterialIsReceived, RAMoved, RAHandlersTyped
<1>13. RAIntentIsOwned'
  BY <1>1, <1>2, <1>3 DEF RAInv, RAIntentIsOwned, RAMoved
<1>14. RALaunchIsSound'
  BY <1>1, <1>6 DEF RAInv, RALaunchIsSound
<1> QED BY <1>8, <1>9, <1>10, <1>11, <1>12, <1>13, <1>14 DEF RAInv

\* A handler that writes the launch intent, starts the process, waits for it and
\* clears the intent of one that ended keeps the invariant.
LEMMA RALaunchKeeps ==
  ASSUME RAInv, NEW h \in RAHandlers, RAIntend(h) \/ RAStart(h) \/ RAStartFails(h) \/ RAAwait(h) \/ RAClear(h)
  PROVE  RAInv'
<1> USE RAAssumption
<1>1. UNCHANGED <<raReceipt, raMaterial, raBinding, raReg, raProfile, raPosts>>
  BY DEF RAIntend, RAStart, RAStartFails, RAAwait, RAClear, RAKeepWorld
<1>2. /\ raHandler[h].pc \in {"intent", "start", "await", "clear"}
      /\ \/ raExcused' = raExcused /\ raFaults' = raFaults
         \/ raExcused' = TRUE /\ raFaults < RAMaxFaults /\ raFaults' = raFaults + 1
      /\ raRun' = raRun \/ (raHandler[h].pc = "start" /\ raRun' = [raRun EXCEPT !.starting = @ + 1])
  BY DEF RAIntend, RAStart, RAStartFails, RAAwait, RAClear, RAAt, RAKeepWorld
<1>3. raHandler \in [RAHandlers -> RAHandlerStates] /\ raIntent \in BOOLEAN /\ raReg \in BOOLEAN
  BY DEF RAInv, RAHandlersTyped, RAHandlerStates, RATypeOK
<1>4. \/ RAMoved(h, "start") /\ raHandler[h].pc = "intent" /\ raLock' = raLock /\ raIntent' = TRUE /\ raRun' = raRun
      \/ RAMoved(h, "refused") /\ raLock' = raLock /\ raIntent' = TRUE /\ raExcused' /\ raRun' = raRun
      \/ RAMoved(h, "await") /\ raHandler[h].pc = "start" /\ raLock' = "process" /\ raIntent' = raIntent
      \/ RAMoved(h, "clear") /\ raLock = "free" /\ raLock' = h /\ raIntent' = raIntent /\ raRun' = raRun
      \/ /\ RAMoved(h, "idle") /\ raLock' = (IF raLock = h THEN "free" ELSE raLock) /\ raRun' = raRun
         /\ (raReg /\ raIntent' = raIntent) \/ raIntent' = FALSE \/ (raExcused' /\ raIntent' = raIntent)
  <2>1. CASE RAIntend(h)
    BY <2>1, RAToMoves DEF RAIntend, RAAt, RAInv, RAPcs, RAUnderLock
  <2>2. CASE RAStart(h)
    BY <2>2, RAToMoves DEF RAStart, RAAt, RAInv, RAPcs, RAUnderLock
  <2>3. CASE RAStartFails(h)
    BY <2>3, RAAnswerMoves DEF RAStartFails, RAInv
  <2>4. CASE RAAwait(h)
    BY <2>4, RAToMoves, RAAnswerMoves DEF RAAwait, RAInv, RAPcs, RAUnderLock
  <2>5. CASE RAClear(h)
    BY <2>5, <1>3, RAAnswerMoves DEF RAClear, RAInv, RAKeepWorld
  <2> QED BY <2>1, <2>2, <2>3, <2>4, <2>5
<1>5. raRun \in [starting : Nat, running : Nat]
  BY DEF RAInv, RATypeOK
<1>6. raHandler[h].pc = "start" => raRun.starting = 0 /\ raRun.running = 0 /\ ~raReg
  BY <1>5 DEF RAInv, RALockHeld, RAUnregistered, RAUnderLock
<1>7. \/ raRun' = raRun
      \/ raHandler[h].pc = "start" /\ raRun' = [starting |-> 1, running |-> 0]
  BY <1>2, <1>5, <1>6
<1>8. RATypeOK'
  <2>1. raIntent' \in BOOLEAN
    BY <1>3, <1>4
  <2>2. raExcused' \in BOOLEAN /\ raFaults' \in 0..RAMaxFaults
    <3>1. raExcused \in BOOLEAN /\ raFaults \in 0..RAMaxFaults
      BY DEF RAInv, RATypeOK
    <3>2. raExcused' \in BOOLEAN
      BY <1>2, <3>1, Zenon
    <3>3. raFaults' \in 0..RAMaxFaults
      BY <1>2, <3>1
    <3> QED BY <3>2, <3>3
  <2>3. raLock' \in RAHandlers \cup {"free", "process"}
    BY <1>4 DEF RAInv, RATypeOK
  <2>4. raRun' \in [starting : Nat, running : Nat]
    BY <1>5, <1>7
  <2> QED BY <1>1, <2>1, <2>2, <2>3, <2>4 DEF RAInv, RATypeOK
<1>9. RAHandlersTyped'
  BY <1>1, <1>4 DEF RAInv, RAHandlersTyped, RAMoved, RAHandlerStates
<1>10. RALockHeld'
  <2>1. ASSUME NEW k \in RAHandlers, raHandler'[k].pc \in RAUnderLock  PROVE raLock' = k
    BY <1>4, <2>1 DEF RAInv, RALockHeld, RAMoved, RAUnderLock
  <2>2. raRun'.starting + raRun'.running > 0 => raLock' = "process"
    BY <1>4, <1>5, <1>7, <1>6 DEF RAInv, RALockHeld, RAUnderLock
  <2> QED BY <2>1, <2>2 DEF RALockHeld
<1>11. RAUnregistered'
  BY <1>1, <1>4 DEF RAInv, RAUnregistered, RAMoved
<1>12. RAMaterialIsReceived'
  BY <1>1, <1>4 DEF RAInv, RAMaterialIsReceived, RAMoved
<1>13. RAIntentIsOwned'
  BY <1>1, <1>2, <1>4 DEF RAInv, RAIntentIsOwned, RAMoved
<1>14. RALaunchIsSound'
  BY <1>1, <1>6, <1>7 DEF RAInv, RALaunchIsSound
<1> QED BY <1>8, <1>9, <1>10, <1>11, <1>12, <1>13, <1>14 DEF RAInv

\* A post, the process and the service keep the invariant.
LEMMA RAWorldKeeps ==
  ASSUME RAInv, (\E h \in RAHandlers, body \in RABodies : RAPost(h, body)) \/ RARegister \/ RAExit \/ RARestart
  PROVE  RAInv'
<1> USE RAAssumption
<1>1. raHandler \in [RAHandlers -> RAHandlerStates] /\ raRun \in [starting : Nat, running : Nat]
  BY DEF RAInv, RAHandlersTyped, RAHandlerStates, RATypeOK
<1>2. ASSUME NEW h \in RAHandlers, NEW body \in RABodies, RAPost(h, body)  PROVE RAInv'
  <2>1. UNCHANGED <<raReceipt, raMaterial, raBinding, raIntent, raReg, raLock, raRun, raProfile, raExcused, raFaults>>
    BY <1>2 DEF RAPost, RAKeepDisk
  <2>2. raHandler[h].pc = "idle" /\ raPosts < RAMaxPosts /\ raPosts' = raPosts + 1
    BY <1>2 DEF RAPost, RAAt
  <2>3. RAMoved(h, "receipt")
    <3>1. DEFINE s == [pc |-> "receipt", body |-> body, bound |-> FALSE]
    <3>2. s \in RAHandlerStates /\ s.pc = "receipt"
      BY DEF RAHandlerStates, RAPcs, RAUnderLock
    <3>3. raHandler' = [raHandler EXCEPT ![h] = s]
      BY <1>2 DEF RAPost
    <3> QED BY <1>1, <3>2, <3>3 DEF RAMoved
  <2>4. RATypeOK' /\ RAHandlersTyped'
    BY <2>1, <2>2, <2>3 DEF RAInv, RATypeOK, RAHandlersTyped, RAMoved, RAHandlerStates
  <2>5. RALockHeld' /\ RAUnregistered' /\ RAMaterialIsReceived'
    BY <2>1, <2>3 DEF RAInv, RALockHeld, RAUnregistered, RAMaterialIsReceived, RAMoved, RAUnderLock
  <2>6. RAIntentIsOwned' /\ RALaunchIsSound'
    BY <2>1, <2>2, <2>3 DEF RAInv, RAIntentIsOwned, RALaunchIsSound, RAMoved
  <2> QED BY <2>4, <2>5, <2>6 DEF RAInv
<1>3. CASE RARegister
  <2>1. UNCHANGED <<raReceipt, raMaterial, raBinding, raIntent, raLock, raHandler, raProfile, raPosts, raExcused, raFaults>> /\ raReg' = TRUE
    BY <1>3 DEF RARegister, RAKeepDisk
  <2>2. raRun = [starting |-> 1, running |-> 0] /\ raRun' = [starting |-> 0, running |-> 1] /\ raLock = "process"
    BY <1>1, <1>3 DEF RARegister, RAInv, RALaunchIsSound, RALockHeld
  <2>3. RATypeOK' /\ RAHandlersTyped' /\ RALockHeld' /\ RAMaterialIsReceived' /\ RAIntentIsOwned' /\ RALaunchIsSound'
    BY <2>1, <2>2 DEF RAInv, RATypeOK, RAHandlersTyped, RALockHeld, RAMaterialIsReceived, RAIntentIsOwned, RALaunchIsSound
  <2>4. RAUnregistered'
    BY <2>1, <2>2 DEF RAInv, RAUnregistered, RALockHeld, RAUnderLock
  <2> QED BY <2>3, <2>4 DEF RAInv
<1>4. CASE RAExit
  <2>1. UNCHANGED <<raReceipt, raMaterial, raBinding, raIntent, raReg, raHandler, raProfile, raPosts, raExcused, raFaults>>
    BY <1>4 DEF RAExit, RAKeepDisk
  <2>2. raRun.starting + raRun.running = 1
    BY <1>1, <1>4 DEF RAExit, RAInv, RALaunchIsSound
  <2>3. raLock = "process" /\ raLock' = "free"
    BY <1>1, <1>4, <2>2 DEF RAExit, RAInv, RALockHeld
  <2>4. raRun' = [starting |-> 0, running |-> 0]
    BY <1>1, <1>4, <2>2 DEF RAExit
  <2>5. RATypeOK' /\ RAHandlersTyped' /\ RAUnregistered' /\ RAMaterialIsReceived' /\ RAIntentIsOwned' /\ RALaunchIsSound'
    BY <2>1, <2>3, <2>4 DEF RAInv, RATypeOK, RAHandlersTyped, RAUnregistered, RAMaterialIsReceived, RAIntentIsOwned, RALaunchIsSound
  <2>6. RALockHeld'
    BY <2>1, <2>3, <2>4 DEF RAInv, RALockHeld
  <2> QED BY <2>5, <2>6 DEF RAInv
<1>5. CASE RARestart
  <2>1. /\ UNCHANGED <<raReceipt, raMaterial, raBinding, raIntent, raReg, raRun, raPosts>>
        /\ raFaults < RAMaxFaults /\ raFaults' = raFaults + 1 /\ raExcused' = TRUE /\ raProfile' \in RAProfiles
        /\ raLock' = (IF raLock \in RAHandlers THEN "free" ELSE raLock)
    BY <1>5 DEF RARestart, RAKeepDisk
  <2>2. raHandler' \in [RAHandlers -> RAHandlerStates] /\ \A h \in RAHandlers : raHandler'[h].pc = "idle"
    BY <1>5 DEF RARestart, RAIdle, RAHandlerStates, RAPcs, RAUnderLock
  <2>3. RATypeOK' /\ RAHandlersTyped'
    BY <2>1, <2>2 DEF RAInv, RATypeOK, RAHandlersTyped, RAHandlerStates
  <2>4. RALockHeld' /\ RAUnregistered' /\ RAMaterialIsReceived'
    BY <2>1, <2>2 DEF RAInv, RALockHeld, RAUnregistered, RAMaterialIsReceived, RAUnderLock
  <2>5. RAIntentIsOwned' /\ RALaunchIsSound'
    BY <2>1 DEF RAInv, RAIntentIsOwned, RALaunchIsSound
  <2> QED BY <2>3, <2>4, <2>5 DEF RAInv
<1> QED BY <1>2, <1>3, <1>4, <1>5

-----------------------------------------------------------------------------
(* The theorem. *)

\* The inductive invariant holds of every behaviour of the admission.
THEOREM AdmissionInvariant == RASpec => []RAInv
<1>1. RAInit => RAInv
  <2> SUFFICES ASSUME RAInit PROVE RAInv
    OBVIOUS
  <2>1. RATypeOK /\ RALaunchIsSound
    <3>1. raRun.starting = 0 /\ raRun.running = 0 /\ raRun \in [starting : Nat, running : Nat]
      BY DEF RAInit
    <3>2. RALaunchIsSound
      BY <3>1 DEF RAInit, RALaunchIsSound
    <3>3. raMaterial.files \in 0..3 /\ raPosts \in 0..RAMaxPosts /\ raFaults \in 0..RAMaxFaults
      BY RAAssumption DEF RAInit, RANoMaterial
    <3>4. RANothing \in [body : RABodies \cup {"none"}, profile : RAProfiles \cup {"none"}]
      BY DEF RANothing
    <3>5. RATypeOK
      BY <3>1, <3>3, <3>4 DEF RAInit, RATypeOK
    <3> QED BY <3>2, <3>5
  <2>2. RAHandlersTyped
    BY DEF RAInit, RAHandlersTyped, RANoMaterial, RAIdle, RAPcs, RAUnderLock
  <2>3. RALockHeld /\ RAUnregistered /\ RAMaterialIsReceived /\ RAIntentIsOwned
    BY DEF RAInit, RALockHeld, RAUnregistered, RAMaterialIsReceived, RAIntentIsOwned, RANoMaterial, RAIdle, RAUnderLock
  <2> QED BY <2>1, <2>2, <2>3 DEF RAInv
<1>2. RAInv /\ [RANext]_raVars => RAInv'
  <2> SUFFICES ASSUME RAInv, [RANext]_raVars PROVE RAInv'
    OBVIOUS
  <2>1. CASE UNCHANGED raVars
    BY <2>1 DEF raVars, RAInv, RATypeOK, RAHandlersTyped, RALockHeld, RAUnregistered, RAMaterialIsReceived, RAIntentIsOwned, RALaunchIsSound
  <2>2. ASSUME NEW h \in RAHandlers, RAHandle(h)  PROVE RAInv'
    BY <2>2, RAReceiptKeeps, RABindKeeps, RALaunchKeeps DEF RAHandle
  <2> QED BY <2>1, <2>2, RAWorldKeeps DEF RANext
<1> QED BY <1>1, <1>2, PTL DEF RASpec

\* However often a request is posted, replayed and interrupted by a restart of
\* the service, one process of the run lives at most, it runs the body and the
\* profile of the receipt, and only a fault leaves a launch intent that no
\* handler will clear (admitAuthority, awaitLaunch).
THEOREM AdmissionIsSound == RASpec => []RASound
<1>1. RAInv => RASound
  BY DEF RAInv, RASound, RAStuckHasACause, RAIntentIsOwned
<1> QED BY <1>1, AdmissionInvariant, PTL

-----------------------------------------------------------------------------
(* MergeEvidence: the evidence of a merge is fresh, and its claims are true. *)

MEEvery == MEKinds \cup {"ready"}
MEObservation == [ok : BOOLEAN, closed : BOOLEAN, time : Nat]
MENotApplied == {"pre_admission", "pre_submission", "not_applied"}

\* What the evidence shows: an observation is no later than the clock, one of the
\* final stage that is good was read good after the admission or is an old one, and
\* a proof of READY is one of after the admission or is older than some of it.
MEEvidence ==
  /\ meTime \in 0..MEMaxCalls /\ meProof \in 0..MEMaxCalls /\ meProof <= meTime
  /\ meSeen \in [MEStages -> [MEKinds -> MEObservation]] /\ meFresh \subseteq MEEvery
  /\ \A k \in MEKinds : meSeen["final"][k].time # 0 /\ meSeen["final"][k].closed /\ meSeen["final"][k].ok =>
       k \in meFresh \/ meSeen["final"][k] = meSeen["admission"][k]
  /\ meStage = "admission" => \A k \in MEKinds : meSeen["final"][k].time = 0
  /\ meProof # 0 /\ "ready" \notin meFresh => \E k \in MEKinds : meSeen["admission"][k].time = 0 \/ meSeen["admission"][k].time > meProof

\* What the records claim, against what became of the request.
MEClaims ==
  /\ meBase \in {"B", "R", "RX", "X"} /\ meHead \in {"H", "X"} /\ meGood \in [MEKinds -> BOOLEAN] /\ meReady \in BOOLEAN
  /\ meStage \in {"admission", "final", "sealed", "submitted", "asked", "lost", "over"}
  /\ meRequest \in {"none", "flying", "landed", "rejected"} /\ meStale = 0
  /\ meLanded = (meRequest = "landed") /\ (meBase \in {"R", "RX"} => meLanded)
  /\ meStage \in {"admission", "final", "sealed", "submitted"} => meRequest = "none"
  /\ meStage \in {"sealed", "submitted", "asked", "lost"} \/ meRequest # "none" => meFresh = MEEvery
  /\ meClaim \in {"none", "refused", "not_applied", "unknown", "applied", "verified"}
  /\ meStage = "over" => meClaim \in {"refused", "not_applied", "applied", "verified"} \/ meCancel \in MENotApplied
  /\ meClaim \in {"applied", "verified"} => meLanded
  /\ meClaim = "not_applied" \/ meCancel \in MENotApplied => meStage = "over" /\ meRequest \in {"none", "rejected"}

\* The inductive invariant.
MEInv == MEEvidence /\ MEClaims

\* A number of at most three is the greatest, and one the least.
LEMMA MEMaxMin ==
  ASSUME NEW a \in Nat, NEW b \in Nat, NEW c \in Nat
  PROVE  /\ \A x \in {a, b, c} : Max({a, b, c}) \in {a, b, c} /\ Max({a, b, c}) >= x
         /\ \A x \in {a, b, c} : Min({a, b, c}) \in {a, b, c} /\ Min({a, b, c}) <= x
<1>1. \E m \in {a, b, c} : \A x \in {a, b, c} : m >= x
  OBVIOUS
<1>2. \E m \in {a, b, c} : \A x \in {a, b, c} : m <= x
  OBVIOUS
<1> QED BY <1>1, <1>2 DEF Max, Min

\* The latest and the first of a stage are times of its observations and bound them.
LEMMA MELatestFirst ==
  ASSUME MEEvidence, NEW s \in MEStages
  PROVE  /\ MELatest(s) \in Nat /\ MEFirst(s) \in Nat
         /\ \A k \in MEKinds : MELatest(s) >= meSeen[s][k].time /\ MEFirst(s) <= meSeen[s][k].time
<1> DEFINE a == meSeen[s]["pr"].time  b == meSeen[s]["runs"].time  c == meSeen[s]["statuses"].time
<1>1. {meSeen[s][k].time : k \in MEKinds} = {a, b, c}
  BY DEF MEKinds
<1>2. a \in Nat /\ b \in Nat /\ c \in Nat
  BY DEF MEEvidence, MEObservation, MEKinds
<1>3. MELatest(s) = Max({a, b, c}) /\ MEFirst(s) = Min({a, b, c})
  BY <1>1, Zenon DEF MELatest, MEFirst
<1>5. \A k \in MEKinds : meSeen[s][k].time \in {a, b, c}
  BY DEF MEKinds
<1> HIDE DEF a, b, c
<1>4. /\ \A x \in {a, b, c} : Max({a, b, c}) \in {a, b, c} /\ Max({a, b, c}) >= x
      /\ \A x \in {a, b, c} : Min({a, b, c}) \in {a, b, c} /\ Min({a, b, c}) <= x
  BY <1>2, MEMaxMin
<1> QED BY <1>2, <1>3, <1>4, <1>5

\* The invariant holds at the start.
LEMMA MEStart == MEInit => MEInv
<1> SUFFICES ASSUME MEInit  PROVE MEInv
  OBVIOUS
<1>1. MEMaxCalls \in Nat
  BY MEAssumption
<1>2. meGood \in [MEKinds -> BOOLEAN] /\ meSeen \in [MEStages -> [MEKinds -> MEObservation]]
  BY DEF MEInit, MENotRead, MEObservation
<1>3. MEEvidence
  BY <1>1, <1>2 DEF MEInit, MEEvidence, MENotRead, MEStages
<1>4. MEClaims
  BY <1>1, <1>2 DEF MEInit, MEBound, MEClaims, MENotApplied
<1> QED BY <1>3, <1>4 DEF MEInv

\* An observation that is taken keeps what the evidence shows.
LEMMA METakesKeeps ==
  ASSUME MEInv, NEW s \in MEStages, NEW k \in MEKinds, NEW o \in MEObservation, METakes(s, k, o),
         \/ o = MEHonest(k)
         \/ o = MEPartial
         \/ o = meSeen["admission"][k]
  PROVE  MEEvidence'
<1>1. /\ meStage = s /\ meTime < MEMaxCalls /\ meTime' = meTime + 1 /\ meSeen' = [meSeen EXCEPT ![s][k] = o]
      /\ meFresh' = IF s = "final" /\ METrue(k) THEN meFresh \cup {k} ELSE meFresh
      /\ meProof' = meProof
  BY DEF METakes
<1>2. MEMaxCalls \in Nat /\ "final" \in MEStages /\ "admission" \in MEStages
  BY MEAssumption DEF MEStages
<1>3. meTime' \in 0..MEMaxCalls /\ meProof' \in 0..MEMaxCalls /\ meProof' <= meTime' /\ meProof <= meTime
  BY <1>1, <1>2 DEF MEInv, MEEvidence
<1>4. meSeen' \in [MEStages -> [MEKinds -> MEObservation]]
  BY <1>1 DEF MEInv, MEEvidence
<1>5. meSeen'[s][k] = o /\ \A t \in MEStages, j \in MEKinds : t # s \/ j # k => meSeen'[t][j] = meSeen[t][j]
  BY <1>1 DEF MEInv, MEEvidence
<1>6. meFresh' \subseteq MEEvery /\ meFresh \subseteq meFresh'
  BY <1>1 DEF MEInv, MEEvidence, MEEvery
<1>7. ASSUME NEW j \in MEKinds, meSeen'["final"][j].time # 0, meSeen'["final"][j].closed, meSeen'["final"][j].ok
      PROVE  j \in meFresh' \/ meSeen'["final"][j] = meSeen'["admission"][j]
  <2>1. CASE s = "final" /\ j = k
    <3>1. meSeen'["final"][j] = o /\ meSeen'["admission"][j] = meSeen["admission"][j]
      BY <1>2, <1>5, <2>1
    <3>2. CASE o = MEHonest(k)
      <4>1. METrue(k)
        BY <1>7, <3>1, <3>2 DEF MEHonest
      <4> QED BY <1>1, <2>1, <4>1
    <3>3. o # MEPartial
      BY <1>7, <3>1 DEF MEPartial
    <3> QED BY <2>1, <3>1, <3>2, <3>3
  <2>2. CASE s = "final" /\ j # k
    <3>1. meSeen'["final"][j] = meSeen["final"][j] /\ meSeen'["admission"][j] = meSeen["admission"][j]
      BY <1>2, <1>5, <2>2
    <3> QED BY <1>6, <1>7, <3>1 DEF MEInv, MEEvidence
  <2>3. CASE s = "admission"
    <3>1. meSeen'["final"][j] = meSeen["final"][j]
      BY <1>2, <1>5, <2>3
    <3> QED BY <1>1, <1>7, <2>3, <3>1 DEF MEInv, MEEvidence
  <2> QED BY <2>1, <2>2, <2>3 DEF MEStages
<1>8. ASSUME meProof' # 0, "ready" \notin meFresh'
      PROVE  \E j \in MEKinds : meSeen'["admission"][j].time = 0 \/ meSeen'["admission"][j].time > meProof'
  <2>1. PICK j \in MEKinds : meSeen["admission"][j].time = 0 \/ meSeen["admission"][j].time > meProof
    BY <1>1, <1>6, <1>8 DEF MEInv, MEEvidence
  <2>2. CASE s # "admission" \/ j # k
    BY <1>1, <1>2, <1>5, <2>1, <2>2
  <2>3. CASE s = "admission" /\ j = k
    <3>1. meSeen'["admission"][j] = o
      BY <1>5, <2>3
    <3>2. CASE o = meSeen["admission"][k]
      BY <1>1, <2>1, <2>3, <3>1, <3>2
    <3>3. CASE o = MEHonest(k) \/ o = MEPartial
      <4>1. o.time = meTime + 1
        BY <3>3 DEF MEHonest, MEPartial
      <4>2. o.time > meProof
        BY <1>2, <4>1 DEF MEInv, MEEvidence
      <4> QED BY <1>1, <3>1, <4>2
    <3> QED BY <3>2, <3>3
  <2> QED BY <2>2, <2>3
<1>9. ASSUME meStage' = "admission", NEW j \in MEKinds
      PROVE  meSeen'["final"][j].time = 0
  <2>1. meStage' = meStage
    BY DEF METakes
  <2>2. s = "admission" /\ meSeen'["final"][j] = meSeen["final"][j]
    BY <1>1, <1>2, <1>5, <1>9, <2>1
  <2> QED BY <1>9, <2>1, <2>2 DEF MEInv, MEEvidence
<1> QED BY <1>3, <1>4, <1>6, <1>7, <1>8, <1>9 DEF MEEvidence

\* Reading a source keeps the invariant.
LEMMA MEReadKeeps ==
  ASSUME MEInv, NEW s \in MEStages, NEW k \in MEKinds, MERead(s, k) \/ MEBadRead(s, k)
  PROVE  MEInv'
<1>1. /\ MEHonest(k) \in MEObservation /\ MEPartial \in MEObservation /\ meSeen["admission"][k] \in MEObservation
      /\ meTime \in Nat
  <2>1. meTime \in Nat /\ METrue(k) \in BOOLEAN /\ meSeen["admission"][k] \in MEObservation
    <3>1. meGood[k] \in BOOLEAN
      BY DEF MEInv, MEClaims
    <3> QED BY <3>1, MEAssumption DEF MEInv, MEEvidence, METrue, MEStages
  <2> QED BY <2>1 DEF MEHonest, MEPartial, MEObservation
<1>2. PICK o \in MEObservation : METakes(s, k, o) /\ (o = MEHonest(k) \/ o = MEPartial \/ o = meSeen["admission"][k])
  BY <1>1, Zenon DEF MERead, MEBadRead
<1>3. MEEvidence'
  BY <1>2, METakesKeeps
<1>4. /\ meStage \in MEStages /\ meFresh \subseteq meFresh' /\ meFresh' \subseteq MEEvery
      /\ UNCHANGED <<meBase, meHead, meGood, meReady, meLanded, meStage, meClaim, meCancel, meRequest, meStale>>
  BY <1>2, <1>3 DEF METakes, MEKeepRequest, MEEvidence
<1>5. MEClaims'
  BY <1>4 DEF MEInv, MEClaims
<1> QED BY <1>3, <1>5 DEF MEInv

\* The proof that the run is READY keeps the invariant.
LEMMA MEProveReadyKeeps ==
  ASSUME MEInv, MEProveReady
  PROVE  MEInv'
<1>1. /\ meProof = 0 /\ meTime < MEMaxCalls /\ meTime' = meTime + 1 /\ meProof' = meTime + 1 /\ meSeen' = meSeen /\ meStage' = meStage
      /\ meFresh' = IF MEAll("admission") THEN meFresh \cup {"ready"} ELSE meFresh
  BY DEF MEProveReady
<1>2. MEMaxCalls \in Nat /\ "ready" \in MEEvery
  BY MEAssumption DEF MEEvery
<1>3. MEEvidence'
  <2>1. meTime' \in 0..MEMaxCalls /\ meProof' \in 0..MEMaxCalls /\ meProof' <= meTime'
    BY <1>1, <1>2 DEF MEInv, MEEvidence
  <2>2. meFresh' \subseteq MEEvery /\ meFresh \subseteq meFresh'
    BY <1>1, <1>2 DEF MEInv, MEEvidence
  <2>3. "ready" \notin meFresh' => \E k \in MEKinds : meSeen["admission"][k].time = 0
    BY <1>1 DEF MEAll
  <2> QED BY <1>1, <2>1, <2>2, <2>3 DEF MEInv, MEEvidence
<1>4. /\ meFresh \subseteq meFresh' /\ meFresh' \subseteq MEEvery
      /\ UNCHANGED <<meBase, meHead, meGood, meReady, meLanded, meStage, meClaim, meCancel, meRequest, meStale>>
  BY <1>1, <1>3 DEF MEProveReady, MEKeepHub, MEKeepRequest, MEEvidence
<1>5. MEClaims'
  BY <1>4 DEF MEInv, MEClaims
<1> QED BY <1>3, <1>5 DEF MEInv

\* A final stage that is whole, in order and good was read good after the
\* admission, and so was READY.
LEMMA MESealIsFresh ==
  ASSUME MEInv, MEOrdered, MECounted, MEPolicy("final")
  PROVE  meFresh = MEEvery
<1> DEFINE seen(s, k) == meSeen[s][k]
<1>1. /\ "final" \in MEStages /\ "admission" \in MEStages /\ meProof \in Nat
      /\ \A s \in MEStages, k \in MEKinds : seen(s, k).time \in Nat /\ seen(s, k).time # 0
  BY MEAssumption DEF MEInv, MEEvidence, MEStages, MECounted, MEAll, MEObservation
<1>2. \A k \in MEKinds : seen("admission", k).time < meProof /\ meProof < seen("final", k).time
  BY <1>1, MELatestFirst DEF MEInv, MEOrdered
<1>3. meProof # 0
  BY <1>1, <1>2 DEF MEKinds
<1>4. "ready" \in meFresh
  BY <1>1, <1>2, <1>3 DEF MEInv, MEEvidence
<1>5. \A k \in MEKinds : k \in meFresh
  <2> SUFFICES ASSUME NEW k \in MEKinds  PROVE k \in meFresh
    OBVIOUS
  <2>1. seen("final", k).closed /\ seen("final", k).ok
    BY DEF MEPolicy, MEClosed
  <2>2. seen("final", k) # seen("admission", k)
    BY <1>1, <1>2
  <2> QED BY <1>1, <2>1, <2>2 DEF MEInv, MEEvidence
<1> QED BY <1>4, <1>5 DEF MEInv, MEEvidence, MEEvery

\* What leaves the evidence alone keeps what it shows, when it does not go back to
\* the admission.
LEMMA MEEvidenceKept ==
  ASSUME MEInv, MEKeepEvidence, meStage' # "admission" \/ meStage' = meStage
  PROVE  MEEvidence'
  BY DEF MEInv, MEEvidence, MEKeepEvidence

\* A step of the authorization keeps the invariant.
LEMMA MEAuthorizingKeeps ==
  ASSUME MEInv, MEAdmit \/ MESeal \/ MESubmit
  PROVE  MEInv'
<1>1. CASE MEAdmit
  <2>1. MEKeepEvidence /\ (meStage' # "admission" \/ meStage' = meStage)
    BY <1>1 DEF MEAdmit
  <2>2. MEEvidence' /\ meFresh' = meFresh
    BY <2>1, MEEvidenceKept DEF MEKeepEvidence
  <2>3. MEClaims'
    BY <1>1, <2>2 DEF MEInv, MEClaims, MENotApplied, MEKeepHub, MEKeepRequest, MEAdmit
  <2> QED BY <2>2, <2>3 DEF MEInv
<1>2. CASE MESeal
  <2>1. MEKeepEvidence /\ (meStage' # "admission" \/ meStage' = meStage)
    BY <1>2 DEF MESeal
  <2>2. MEEvidence' /\ meFresh' = meFresh
    BY <2>1, MEEvidenceKept DEF MEKeepEvidence
  <2>4. MEOrdered /\ MECounted /\ MEPolicy("final") => meFresh = MEEvery
    BY MESealIsFresh
  <2>3. MEClaims'
    BY <1>2, <2>2, <2>4 DEF MEInv, MEClaims, MENotApplied, MEKeepHub, MEKeepRequest, MESeal
  <2> QED BY <2>2, <2>3 DEF MEInv
<1>3. CASE MESubmit
  <2>1. MEKeepEvidence /\ (meStage' # "admission" \/ meStage' = meStage)
    BY <1>3 DEF MESubmit
  <2>2. MEEvidence' /\ meFresh' = meFresh
    BY <2>1, MEEvidenceKept DEF MEKeepEvidence
  <2>3. MEClaims'
    BY <1>3, <2>2 DEF MEInv, MEClaims, MENotApplied, MEKeepHub, MEKeepRequest, MESubmit
  <2> QED BY <2>2, <2>3 DEF MEInv
<1> QED BY <1>1, <1>2, <1>3

\* A step of the request keeps the invariant.
LEMMA MERequestingKeeps ==
  ASSUME MEInv, MESend \/ MENotSent \/ MEArrives \/ MESucceeds \/ MERejected \/ MELost
  PROVE  MEInv'
<1>1. CASE MESend
  <2>1. MEKeepEvidence /\ (meStage' # "admission" \/ meStage' = meStage)
    BY <1>1 DEF MESend
  <2>2. MEEvidence' /\ meFresh' = meFresh
    BY <2>1, MEEvidenceKept DEF MEKeepEvidence
  <2>3. MEClaims'
    BY <1>1, <2>2 DEF MEInv, MEClaims, MENotApplied, MEKeepHub, MEKeepRequest, MESend
  <2> QED BY <2>2, <2>3 DEF MEInv
<1>2. CASE MENotSent
  <2>1. MEKeepEvidence /\ (meStage' # "admission" \/ meStage' = meStage)
    BY <1>2 DEF MENotSent
  <2>2. MEEvidence' /\ meFresh' = meFresh
    BY <2>1, MEEvidenceKept DEF MEKeepEvidence
  <2>3. MEClaims'
    BY <1>2, <2>2 DEF MEInv, MEClaims, MENotApplied, MEKeepHub, MEKeepRequest, MENotSent
  <2> QED BY <2>2, <2>3 DEF MEInv
<1>3. CASE MEArrives
  <2>1. MEKeepEvidence /\ (meStage' # "admission" \/ meStage' = meStage)
    BY <1>3 DEF MEArrives
  <2>2. MEEvidence' /\ meFresh' = meFresh
    BY <2>1, MEEvidenceKept DEF MEKeepEvidence
  <2>3. MEClaims'
    BY <1>3, <2>2 DEF MEInv, MEClaims, MENotApplied, MEKeepHub, MEKeepRequest, MEArrives, MEUpdates
  <2> QED BY <2>2, <2>3 DEF MEInv
<1>4. CASE MESucceeds
  <2>1. MEKeepEvidence /\ (meStage' # "admission" \/ meStage' = meStage)
    BY <1>4 DEF MESucceeds
  <2>2. MEEvidence' /\ meFresh' = meFresh
    BY <2>1, MEEvidenceKept DEF MEKeepEvidence
  <2>3. MEClaims'
    BY <1>4, <2>2 DEF MEInv, MEClaims, MENotApplied, MEKeepHub, MEKeepRequest, MESucceeds
  <2> QED BY <2>2, <2>3 DEF MEInv
<1>5. CASE MERejected
  <2>1. MEKeepEvidence /\ (meStage' # "admission" \/ meStage' = meStage)
    BY <1>5 DEF MERejected
  <2>2. MEEvidence' /\ meFresh' = meFresh
    BY <2>1, MEEvidenceKept DEF MEKeepEvidence
  <2>3. MEClaims'
    BY <1>5, <2>2 DEF MEInv, MEClaims, MENotApplied, MEKeepHub, MEKeepRequest, MERejected
  <2> QED BY <2>2, <2>3 DEF MEInv
<1>6. CASE MELost
  <2>1. MEKeepEvidence /\ (meStage' # "admission" \/ meStage' = meStage)
    BY <1>6 DEF MELost
  <2>2. MEEvidence' /\ meFresh' = meFresh
    BY <2>1, MEEvidenceKept DEF MEKeepEvidence
  <2>3. MEClaims'
    BY <1>6, <2>2 DEF MEInv, MEClaims, MENotApplied, MEKeepHub, MEKeepRequest, MELost, MECanRetry
  <2> QED BY <2>2, <2>3 DEF MEInv
<1> QED BY <1>1, <1>2, <1>3, <1>4, <1>5, <1>6

\* A step of the reconciliation and the cancellation keeps the invariant.
LEMMA MEReconcilingKeeps ==
  ASSUME MEInv, MEReconcile \/ MEVerify \/ MECancel
  PROVE  MEInv'
<1>1. CASE MEReconcile
  <2>1. MEKeepEvidence /\ (meStage' # "admission" \/ meStage' = meStage)
    BY <1>1 DEF MEReconcile
  <2>2. MEEvidence' /\ meFresh' = meFresh
    BY <2>1, MEEvidenceKept DEF MEKeepEvidence
  <2>3. MEClaims'
    BY <1>1, <2>2 DEF MEInv, MEClaims, MENotApplied, MEKeepHub, MEKeepRequest, MEReconcile, MEDisposition, MEContains
  <2> QED BY <2>2, <2>3 DEF MEInv
<1>2. CASE MEVerify
  <2>1. MEKeepEvidence /\ (meStage' # "admission" \/ meStage' = meStage)
    BY <1>2 DEF MEVerify
  <2>2. MEEvidence' /\ meFresh' = meFresh
    BY <2>1, MEEvidenceKept DEF MEKeepEvidence
  <2>3. MEClaims'
    BY <1>2, <2>2 DEF MEInv, MEClaims, MENotApplied, MEKeepHub, MEKeepRequest, MEVerify, MEContains
  <2> QED BY <2>2, <2>3 DEF MEInv
<1>3. CASE MECancel
  <2>1. MEKeepEvidence /\ (meStage' # "admission" \/ meStage' = meStage)
    BY <1>3 DEF MECancel
  <2>2. MEEvidence' /\ meFresh' = meFresh
    BY <2>1, MEEvidenceKept DEF MEKeepEvidence
  <2>3. MEClaims'
    BY <1>3, <2>2 DEF MEInv, MEClaims, MENotApplied, MEKeepHub, MEKeepRequest, MECancel, MEBoundary
  <2> QED BY <2>2, <2>3 DEF MEInv
<1> QED BY <1>1, <1>2, <1>3

\* A step of the hub and the ledger keeps the invariant.
LEMMA MEHubKeeps ==
  ASSUME MEInv, MEPushBase \/ MEPushHead \/ METransition \/ (\E k \in MEKinds : MEFlip(k))
  PROVE  MEInv'
<1>1. CASE MEPushBase
  <2>1. MEKeepEvidence /\ (meStage' # "admission" \/ meStage' = meStage)
    BY <1>1 DEF MEPushBase, MEChange, MEKeepEvidence
  <2>2. MEEvidence' /\ meFresh' = meFresh
    BY <2>1, MEEvidenceKept DEF MEKeepEvidence
  <2>3. MEClaims'
    BY <1>1, <2>2 DEF MEInv, MEClaims, MENotApplied, MEKeepHub, MEKeepRequest, MEPushBase, MEChange
  <2> QED BY <2>2, <2>3 DEF MEInv
<1>2. CASE MEPushHead
  <2>1. MEKeepEvidence /\ (meStage' # "admission" \/ meStage' = meStage)
    BY <1>2 DEF MEPushHead, MEChange, MEKeepEvidence
  <2>2. MEEvidence' /\ meFresh' = meFresh
    BY <2>1, MEEvidenceKept DEF MEKeepEvidence
  <2>3. MEClaims'
    BY <1>2, <2>2 DEF MEInv, MEClaims, MENotApplied, MEKeepHub, MEKeepRequest, MEPushHead, MEChange
  <2> QED BY <2>2, <2>3 DEF MEInv
<1>3. CASE METransition
  <2>1. MEKeepEvidence /\ (meStage' # "admission" \/ meStage' = meStage)
    BY <1>3 DEF METransition, MEChange, MEKeepEvidence
  <2>2. MEEvidence' /\ meFresh' = meFresh
    BY <2>1, MEEvidenceKept DEF MEKeepEvidence
  <2>3. MEClaims'
    BY <1>3, <2>2 DEF MEInv, MEClaims, MENotApplied, MEKeepHub, MEKeepRequest, METransition, MEChange
  <2> QED BY <2>2, <2>3 DEF MEInv
<1>4. CASE \E k \in MEKinds : MEFlip(k)
  <2>1. MEKeepEvidence /\ (meStage' # "admission" \/ meStage' = meStage)
    BY <1>4 DEF MEFlip, MEChange, MEKeepEvidence
  <2>2. MEEvidence' /\ meFresh' = meFresh
    BY <2>1, MEEvidenceKept DEF MEKeepEvidence
  <2>3. MEClaims'
    BY <1>4, <2>2 DEF MEInv, MEClaims, MENotApplied, MEKeepHub, MEKeepRequest, MEFlip, MEChange
  <2> QED BY <2>2, <2>3 DEF MEInv
<1> QED BY <1>1, <1>2, <1>3, <1>4

\* Every step keeps the invariant.
LEMMA MEStep == MEInv /\ [MENext]_meVars => MEInv'
<1> SUFFICES ASSUME MEInv, [MENext]_meVars  PROVE MEInv'
  OBVIOUS
<1>1. CASE UNCHANGED meVars
  BY <1>1 DEF MEInv, MEEvidence, MEClaims, meVars
<1>2. CASE \E s \in MEStages, k \in MEKinds : MERead(s, k) \/ MEBadRead(s, k)
  BY <1>2, MEReadKeeps
<1>3. CASE MEProveReady
  BY <1>3, MEProveReadyKeeps
<1>4. CASE MEAdmit \/ MESeal \/ MESubmit
  BY <1>4, MEAuthorizingKeeps
<1>5. CASE MESend \/ MENotSent \/ MEArrives \/ MESucceeds \/ MERejected \/ MELost
  BY <1>5, MERequestingKeeps
<1>6. CASE MEReconcile \/ MEVerify \/ MECancel
  BY <1>6, MEReconcilingKeeps
<1>7. CASE MEPushBase \/ MEPushHead \/ METransition \/ (\E k \in MEKinds : MEFlip(k))
  BY <1>7, MEHubKeeps
<1> QED BY <1>1, <1>2, <1>3, <1>4, <1>5, <1>6, <1>7, Zenon DEF MENext

\* What lands was found good after its admission, and what is claimed of a merge,
\* by its proofs or by its cancellation, is what became of it, whatever the hub,
\* the ledger and a lost response do (NewFinalRevalidationV1, NotAppliedProofV1,
\* CancellationAuthorityV1).
THEOREM MergeEvidenceIsFresh == MESpec => []MESound
<1>1. MEInit => MEInv
  BY MEStart
<1>2. MEInv /\ [MENext]_meVars => MEInv'
  BY MEStep
<1>3. MEInv => MESound
  BY DEF MEInv, MEEvidence, MEClaims, MENotApplied, MEEvery, MESound, METypeOK
<1> QED BY <1>1, <1>2, <1>3, PTL DEF MESpec

-----------------------------------------------------------------------------
(* MergeRecords: every record is of one READY and of one write. *)

\* A record names a READY and a write there are; all that went into it is of that
\* READY and of that write or none; and a write is a write of one READY.
MXTyped(r) == r.ready \in MXReadies \cup {""} /\ r.write \in MXWrites \cup {0}
MXOneWrite(r) == \A x \in r.made : x[1] = r.ready /\ x[2] \in {0, r.write}
MXNamed(r) == r.write # 0 => r.ready = MXReadyOf(r.write)
MXGood(r) == MXTyped(r) /\ MXOneWrite(r) /\ MXNamed(r)

\* The kinds of records that name their write; an outcome does until the run is
\* cancelled, which ends the attempt.
MXWritten == {"recipe", "input", "final", "seal", "commitment", "sealed", "submission", "envelope", "post"}
MXNamesIt(r) == r = MXNone \/ r.write # 0

\* The steps at which the attempt has an input, an authorization and a submission.
MXFromInput == {"input", "final", "seal", "commitment"} \cup {"sealed", "submission", "envelope", "applied", "not_applied", "post"}
MXFromSealed == {"sealed", "submission", "envelope", "applied", "not_applied", "post"}
MXFromSubmission == {"submission", "envelope", "applied", "post"}

\* The inductive invariant.
MXInv ==
  /\ mxHeld = [k \in MXKinds |-> mxHeld[k]]
  /\ \A k \in MXKinds : MXGood(mxHeld[k])
  /\ mxHeld["authority"].write = 0
  /\ \A k \in MXWritten : MXNamesIt(mxHeld[k])
  /\ mxStep # "cancelled" => MXNamesIt(mxHeld["outcome"])
  /\ mxStep \in MXFromInput => mxHeld["input"].write # 0
  /\ mxStep \in MXFromSealed => mxHeld["sealed"].write # 0
  /\ mxStep \in MXFromSubmission => mxHeld["submission"].write # 0

\* A part of a record: empty, or of the READY and of the write or none.
MXPart(r, ready, w) == MXOneWrite(r) /\ (r.made = {} \/ (r.ready = ready /\ r.write \in {0, w}))

\* A record made of good ones is good, when each of them is empty or of the READY
\* of the first and of the write or none.
LEMMA MXMadeIsGood ==
  ASSUME NEW w \in MXWrites \cup {0}, NEW parts, 1 \in DOMAIN parts,
         MXTyped(parts[1]), w # 0 => parts[1].ready = MXReadyOf(w),
         \A i \in DOMAIN parts : MXPart(parts[i], parts[1].ready, w)
  PROVE  MXGood(MXMade(w, parts)) /\ MXMade(w, parts).write = w /\ MXMade(w, parts).ready = parts[1].ready
<1> DEFINE first == CHOOSE r \in {MXNone} \cup {parts[i] : i \in DOMAIN parts} : r = parts[1]
           m == {<<first.ready, w>>} \cup UNION {parts[i].made : i \in DOMAIN parts}
           r == [ready |-> first.ready, write |-> w, made |-> m]
<1>2. \E r0 \in {MXNone} \cup {parts[i] : i \in DOMAIN parts} : r0 = parts[1]
  OBVIOUS
<1>3. first = parts[1]
  BY <1>2
<1>4. MXMade(w, parts) = r
  BY Zenon DEF MXMade
<1> HIDE DEF first
<1>5. r.ready = parts[1].ready /\ r.write = w /\ r.made = m
  BY <1>3
<1>6. \A x \in m : x[1] = parts[1].ready /\ x[2] \in {0, w}
  <2> SUFFICES ASSUME NEW x \in m  PROVE x[1] = parts[1].ready /\ x[2] \in {0, w}
    OBVIOUS
  <2>2. CASE x = <<first.ready, w>>
    BY <1>3, <2>2
  <2>3. CASE \E i \in DOMAIN parts : x \in parts[i].made
    BY <2>3 DEF MXPart, MXOneWrite
  <2> QED BY <2>2, <2>3
<1>7. MXTyped(r) /\ MXNamed(r)
  BY <1>5 DEF MXTyped, MXNamed
<1>8. MXOneWrite(r)
  BY <1>5, <1>6 DEF MXOneWrite
<1> QED BY <1>4, <1>5, <1>7, <1>8 DEF MXGood

\* The same of two to five records.
LEMMA MXMadeOfTwo ==
  ASSUME NEW w \in MXWrites \cup {0}, NEW a, NEW b, MXTyped(a), w # 0 => a.ready = MXReadyOf(w),
         MXPart(a, a.ready, w), MXPart(b, a.ready, w)
  PROVE  MXGood(MXMade(w, <<a, b>>)) /\ MXMade(w, <<a, b>>).write = w
<1> DEFINE parts == <<a, b>>
<1>1. DOMAIN parts = 1..2 /\ parts[1] = a /\ parts[2] = b
  OBVIOUS
<1> HIDE DEF parts
<1>2. \A i \in DOMAIN parts : MXPart(parts[i], parts[1].ready, w)
  BY <1>1
<1>3. MXTyped(parts[1]) /\ (w # 0 => parts[1].ready = MXReadyOf(w))
  BY <1>1
<1>4. MXGood(MXMade(w, parts)) /\ MXMade(w, parts).write = w
  BY <1>1, <1>2, <1>3, MXMadeIsGood
<1> QED BY <1>4 DEF parts

\* Of one.
LEMMA MXMadeOfOne ==
  ASSUME NEW w \in MXWrites \cup {0}, NEW a, MXTyped(a), w # 0 => a.ready = MXReadyOf(w),
         MXPart(a, a.ready, w)
  PROVE  MXGood(MXMade(w, <<a>>)) /\ MXMade(w, <<a>>).write = w
<1> DEFINE parts == <<a>>
<1>1. DOMAIN parts = 1..1 /\ parts[1] = a
  OBVIOUS
<1> HIDE DEF parts
<1>2. \A i \in DOMAIN parts : MXPart(parts[i], parts[1].ready, w)
  BY <1>1
<1>3. MXTyped(parts[1]) /\ (w # 0 => parts[1].ready = MXReadyOf(w))
  BY <1>1
<1>4. MXGood(MXMade(w, parts)) /\ MXMade(w, parts).write = w
  BY <1>1, <1>2, <1>3, MXMadeIsGood
<1> QED BY <1>4 DEF parts

\* Of three.
LEMMA MXMadeOfThree ==
  ASSUME NEW w \in MXWrites \cup {0}, NEW a, NEW b, NEW c, MXTyped(a), w # 0 => a.ready = MXReadyOf(w),
         MXPart(a, a.ready, w), MXPart(b, a.ready, w), MXPart(c, a.ready, w)
  PROVE  MXGood(MXMade(w, <<a, b, c>>)) /\ MXMade(w, <<a, b, c>>).write = w
<1> DEFINE parts == <<a, b, c>>
<1>1. DOMAIN parts = 1..3 /\ parts[1] = a /\ parts[2] = b /\ parts[3] = c
  OBVIOUS
<1> HIDE DEF parts
<1>2. \A i \in DOMAIN parts : MXPart(parts[i], parts[1].ready, w)
  BY <1>1
<1>3. MXTyped(parts[1]) /\ (w # 0 => parts[1].ready = MXReadyOf(w))
  BY <1>1
<1>4. MXGood(MXMade(w, parts)) /\ MXMade(w, parts).write = w
  BY <1>1, <1>2, <1>3, MXMadeIsGood
<1> QED BY <1>4 DEF parts

\* Of four.
LEMMA MXMadeOfFour ==
  ASSUME NEW w \in MXWrites \cup {0}, NEW a, NEW b, NEW c, NEW d, MXTyped(a), w # 0 => a.ready = MXReadyOf(w),
         MXPart(a, a.ready, w), MXPart(b, a.ready, w), MXPart(c, a.ready, w), MXPart(d, a.ready, w)
  PROVE  MXGood(MXMade(w, <<a, b, c, d>>)) /\ MXMade(w, <<a, b, c, d>>).write = w
<1> DEFINE parts == <<a, b, c, d>>
<1>1. DOMAIN parts = 1..4 /\ parts[1] = a /\ parts[2] = b /\ parts[3] = c /\ parts[4] = d
  OBVIOUS
<1> HIDE DEF parts
<1>2. \A i \in DOMAIN parts : MXPart(parts[i], parts[1].ready, w)
  BY <1>1
<1>3. MXTyped(parts[1]) /\ (w # 0 => parts[1].ready = MXReadyOf(w))
  BY <1>1
<1>4. MXGood(MXMade(w, parts)) /\ MXMade(w, parts).write = w
  BY <1>1, <1>2, <1>3, MXMadeIsGood
<1> QED BY <1>4 DEF parts

\* Of five.
LEMMA MXMadeOfFive ==
  ASSUME NEW w \in MXWrites \cup {0}, NEW a, NEW b, NEW c, NEW d, NEW e, MXTyped(a), w # 0 => a.ready = MXReadyOf(w),
         MXPart(a, a.ready, w), MXPart(b, a.ready, w), MXPart(c, a.ready, w), MXPart(d, a.ready, w), MXPart(e, a.ready, w)
  PROVE  MXGood(MXMade(w, <<a, b, c, d, e>>)) /\ MXMade(w, <<a, b, c, d, e>>).write = w
<1> DEFINE parts == <<a, b, c, d, e>>
<1>1. DOMAIN parts = 1..5 /\ parts[1] = a /\ parts[2] = b /\ parts[3] = c /\ parts[4] = d /\ parts[5] = e
  OBVIOUS
<1> HIDE DEF parts
<1>2. \A i \in DOMAIN parts : MXPart(parts[i], parts[1].ready, w)
  BY <1>1
<1>3. MXTyped(parts[1]) /\ (w # 0 => parts[1].ready = MXReadyOf(w))
  BY <1>1
<1>4. MXGood(MXMade(w, parts)) /\ MXMade(w, parts).write = w
  BY <1>1, <1>2, <1>3, MXMadeIsGood
<1> QED BY <1>4 DEF parts

\* A record that lies about is good.
LEMMA MXPureIsGood ==
  ASSUME NEW ready \in MXReadies, NEW w \in MXWrites \cup {0}, w # 0 => ready = MXReadyOf(w)
  PROVE  MXGood(MXPure(ready, w)) /\ MXPure(ready, w).write = w
<1> DEFINE r == [ready |-> ready, write |-> w, made |-> {<<ready, w>>}]
<1>1. r = MXPure(ready, w) /\ r.ready = ready /\ r.write = w /\ r.made = {<<ready, w>>}
  BY DEF MXPure
<1> HIDE DEF r
<1>2. \A x \in r.made : x[1] = r.ready /\ x[2] = r.write
  BY <1>1
<1> QED BY <1>1, <1>2 DEF MXGood, MXTyped, MXOneWrite, MXNamed

\* What a caller may hand over for a kind is good, and what lies about names its
\* authority, with its write or none.
LEMMA MXHandedOver ==
  /\ \A r \in MXOfAuthority : MXGood(r) /\ r.write = 0
  /\ \A r \in MXOfWrite : MXGood(r) /\ r.write \in MXWrites /\ r.write # 0
  /\ MXInv => \A k \in MXKinds : \A r \in MXAny(k) :
       /\ MXGood(r)
       /\ k \in MXWritten \/ (k = "outcome" /\ mxStep # "cancelled") => MXNamesIt(r)
<1>1. \A r \in MXOfAuthority : MXGood(r) /\ r.write = 0
  BY MXPureIsGood DEF MXOfAuthority
<1>2. \A r \in MXOfWrite : MXGood(r) /\ r.write \in MXWrites /\ r.write # 0
  BY MXPureIsGood, MXAssumption DEF MXOfWrite, MXReadies
<1>3. ASSUME MXInv, NEW k \in MXKinds, NEW r \in MXAny(k)
      PROVE  MXGood(r) /\ (k \in MXWritten \/ (k = "outcome" /\ mxStep # "cancelled") => MXNamesIt(r))
  BY <1>2, <1>3 DEF MXInv, MXAny, MXNamesIt
<1> QED BY <1>1, <1>2, <1>3

\* A constructor whose record is good keeps the invariant.
LEMMA MXHoldKeeps ==
  ASSUME MXInv, mxStep # "cancelled", NEW step, NEW k \in MXKinds, NEW r, MXHold(step, k, r), MXGood(r),
         k = "authority" => r.write = 0,
         k \in MXWritten \/ (k = "outcome" /\ step # "cancelled") => r.write # 0,
         step \in MXFromInput => k = "input" \/ mxStep \in MXFromInput,
         step \in MXFromSealed => k = "sealed" \/ mxStep \in MXFromSealed,
         step \in MXFromSubmission => k = "submission" \/ mxStep \in MXFromSubmission
  PROVE  MXInv'
<1>1. mxStep' = step /\ mxHeld' = [mxHeld EXCEPT ![k] = r]
  BY DEF MXHold
<1>2. mxHeld' = [j \in MXKinds |-> IF j = k THEN r ELSE mxHeld[j]]
  BY <1>1 DEF MXInv
<1>3. mxHeld'[k] = r /\ \A j \in MXKinds \ {k} : mxHeld'[j] = mxHeld[j]
  BY <1>2
<1>4. mxHeld' = [j \in MXKinds |-> mxHeld'[j]]
  BY <1>2
<1>5. "authority" \in MXKinds /\ "outcome" \in MXKinds /\ MXWritten \subseteq MXKinds
  BY DEF MXKinds, MXWritten
<1>6. \A j \in MXKinds : MXGood(mxHeld'[j])
  BY <1>3 DEF MXInv
<1>7. mxHeld'["authority"].write = 0
  BY <1>3, <1>5 DEF MXInv
<1>8. \A j \in MXWritten : MXNamesIt(mxHeld'[j])
  BY <1>3, <1>5 DEF MXInv, MXNamesIt
<1>9. mxStep' # "cancelled" => MXNamesIt(mxHeld'["outcome"])
  BY <1>1, <1>3, <1>5 DEF MXInv, MXNamesIt
<1>13. /\ mxStep' \in MXFromInput => mxHeld'["input"].write # 0
       /\ mxStep' \in MXFromSealed => mxHeld'["sealed"].write # 0
       /\ mxStep' \in MXFromSubmission => mxHeld'["submission"].write # 0
  <2>1. {"input", "sealed", "submission"} \subseteq MXWritten
    BY DEF MXWritten
  <2>2. \A j \in {"input", "sealed", "submission"} : j \in MXKinds
    BY <1>5, <2>1
  <2> QED BY <1>1, <1>3, <2>1, <2>2 DEF MXInv
<1>10. (\A j \in MXKinds : MXGood(mxHeld[j]))'
  BY <1>6 DEF MXGood, MXTyped, MXOneWrite, MXNamed
<1>11. (\A j \in MXWritten : MXNamesIt(mxHeld[j]))'
  BY <1>8 DEF MXNamesIt
<1>12. (mxStep # "cancelled" => MXNamesIt(mxHeld["outcome"]))'
  BY <1>9 DEF MXNamesIt
<1> QED BY <1>4, <1>7, <1>10, <1>11, <1>12, <1>13 DEF MXInv

\* Two good records of one READY, and of one write or none, go together.
LEMMA MXPartsFit ==
  ASSUME NEW r, MXGood(r), NEW ready, NEW w, r = MXNone \/ (r.ready = ready /\ r.write \in {0, w})
  PROVE  MXPart(r, ready, w)
<1>1. MXNone.made = {}
  BY DEF MXNone
<1> QED BY <1>1 DEF MXPart, MXGood

-----------------------------------------------------------------------------
(* Every constructor keeps the invariant. *)

MXNoStep(step) == step \notin MXFromInput \cup MXFromSealed \cup MXFromSubmission

\* The authority, its recipe and the input.
LEMMA MXAdmissionKeeps ==
  ASSUME MXInv, MXAuthority \/ MXRecipe \/ MXInput
  PROVE  MXInv'
<1>1. CASE MXAuthority
  <2>1. PICK ready \in MXOfAuthority, repository \in MXOfAuthority, policy \in MXOfAuthority, content \in MXOfAuthority :
          /\ MXRepositoryFits(repository, ready) /\ MXAuthorityAgrees(ready, policy, content)
          /\ MXHold("authority", "authority", MXMade(0, <<ready, repository, policy, content>>))
    BY <1>1, Zenon DEF MXAuthority
  <2>2. repository.ready = ready.ready /\ policy.ready = ready.ready /\ content.ready = ready.ready
    BY <2>1 DEF MXRepositoryFits, MXAuthorityAgrees, MXPolicyFor, MXContentOf
  <2>3. \A r \in {ready, repository, policy, content} : MXGood(r) /\ MXPart(r, ready.ready, 0)
    BY <2>2, MXHandedOver, MXPartsFit
  <2>4. MXGood(MXMade(0, <<ready, repository, policy, content>>)) /\ MXMade(0, <<ready, repository, policy, content>>).write = 0
    BY <2>3, MXMadeOfFour DEF MXGood
  <2>5. mxStep # "cancelled" /\ "authority" \in MXKinds /\ "authority" \notin MXWritten /\ MXNoStep("authority")
    BY <1>1 DEF MXAuthority, MXKinds, MXWritten, MXNoStep, MXFromInput, MXFromSealed, MXFromSubmission
  <2> QED BY <2>1, <2>4, <2>5, MXHoldKeeps DEF MXNoStep
<1>2. CASE MXRecipe
  <2> DEFINE a == mxHeld["authority"]
  <2>1. PICK w \in MXWrites : MXReadyOf(w) = a.ready /\ MXHold("recipe", "recipe", MXMade(w, <<a>>))
    BY <1>2 DEF MXRecipe
  <2>2. MXGood(a) /\ a.write = 0
    BY DEF MXInv, MXKinds
  <2> HIDE DEF a
  <2>3. MXPart(a, a.ready, w)
    BY <2>2, MXPartsFit
  <2>4. MXGood(MXMade(w, <<a>>)) /\ MXMade(w, <<a>>).write = w /\ w # 0
    BY <2>1, <2>2, <2>3, MXMadeOfOne, MXAssumption DEF MXGood
  <2>5. mxStep # "cancelled" /\ "recipe" \in MXKinds /\ MXNoStep("recipe")
    BY <1>2 DEF MXRecipe, MXKinds, MXNoStep, MXFromInput, MXFromSealed, MXFromSubmission
  <2> QED BY <2>1, <2>4, <2>5, MXHoldKeeps DEF MXNoStep
<1>3. CASE MXInput
  <2>1. PICK recipe \in MXAny("recipe"), pr \in MXOfAuthority, capability \in MXOfAuthority,
             authority \in {mxHeld["authority"]} \cup MXOfAuthority, w \in MXWrites :
          /\ MXRecipeFits(recipe, authority, w) /\ MXObserved(pr, authority) /\ MXCapabilityFits(capability, authority)
          /\ MXHold("input", "input", MXMade(w, <<authority, recipe, pr, capability>>))
    BY <1>3, Zenon DEF MXInput
  <2>2. recipe.ready = authority.ready /\ recipe.write = w /\ pr.ready = authority.ready /\ capability.ready = authority.ready
    BY <2>1 DEF MXRecipeFits, MXObserved, MXCapabilityFits
  <2>3. "recipe" \in MXKinds /\ "authority" \in MXKinds /\ "input" \in MXKinds /\ mxStep # "cancelled"
    BY <1>3 DEF MXKinds, MXInput
  <2>9. "input" \notin MXFromSealed \cup MXFromSubmission
    BY DEF MXFromSealed, MXFromSubmission
  <2>4. MXGood(recipe) /\ MXGood(pr) /\ MXGood(capability) /\ pr.write = 0 /\ capability.write = 0
    BY <2>3, MXHandedOver
  <2>5. MXGood(authority) /\ authority.write = 0
    BY <2>3, MXHandedOver DEF MXInv
  <2>6. \A r \in {authority, recipe, pr, capability} : MXPart(r, authority.ready, w)
    BY <2>2, <2>4, <2>5, MXPartsFit
  <2>7. w # 0 /\ authority.ready = MXReadyOf(w)
    BY <2>2, <2>4, MXAssumption DEF MXGood, MXNamed
  <2>8. /\ MXGood(MXMade(w, <<authority, recipe, pr, capability>>))
        /\ MXMade(w, <<authority, recipe, pr, capability>>).write = w
    BY <2>5, <2>6, <2>7, MXMadeOfFour DEF MXGood
  <2> QED BY <2>1, <2>3, <2>7, <2>8, <2>9, MXHoldKeeps
<1> QED BY <1>1, <1>2, <1>3

\* Final keeps the invariant.
LEMMA MXFinalKeeps ==
  ASSUME MXInv, MXFinal
  PROVE  MXInv'
<1>1. PICK input \in MXAny("input"), proof \in MXOfAuthority, pr \in MXOfAuthority :
        MXProofFits(proof, input) /\ MXObserved(pr, input) /\ MXHold("final", "final", MXMade(input.write, <<input, proof, pr>>))
  BY Zenon DEF MXFinal
<1>2. {"final", "input"} \subseteq MXKinds /\ mxStep = "input"
  BY DEF MXFinal, MXKinds
<1>3. MXGood(input) /\ MXGood(proof) /\ MXGood(pr) /\ proof.write = 0 /\ pr.write = 0
  BY <1>2, MXHandedOver
<1>4. proof.ready = input.ready /\ pr.ready = input.ready
  BY <1>1 DEF MXProofFits, MXObserved
<1>5. input.write # 0
  BY <1>2, MXHandedOver DEF MXInv, MXAny, MXFromInput
<1>6. MXPart(input, input.ready, input.write) /\ MXPart(proof, input.ready, input.write) /\ MXPart(pr, input.ready, input.write)
  BY <1>3, <1>4, MXPartsFit
<1>7. MXTyped(input) /\ (input.write # 0 => input.ready = MXReadyOf(input.write)) /\ input.write \in MXWrites \cup {0}
  BY <1>3 DEF MXGood, MXTyped, MXNamed
<1>10. MXGood(MXMade(input.write, <<input, proof, pr>>)) /\ MXMade(input.write, <<input, proof, pr>>).write = input.write
  BY <1>6, <1>7, MXMadeOfThree
<1>8. /\ "final" \in MXFromInput => mxStep \in MXFromInput
      /\ "final" \in MXFromSealed => "final" = "sealed" \/ mxStep \in MXFromSealed
      /\ "final" \in MXFromSubmission => "final" = "submission" \/ mxStep \in MXFromSubmission
      /\ "final" # "authority" /\ mxStep # "cancelled"
  BY <1>2 DEF MXFromInput, MXFromSealed, MXFromSubmission
<1> QED BY <1>1, <1>2, <1>5, <1>10, <1>8, MXHoldKeeps

\* Seal keeps the invariant.
LEMMA MXSealKeeps ==
  ASSUME MXInv, MXSeal
  PROVE  MXInv'
<1>1. PICK input \in MXAny("input"), final \in MXAny("final") :
        MXSealFits(input, final) /\ MXHold("seal", "seal", MXMade(input.write, <<input, final>>))
  BY Zenon DEF MXSeal
<1>2. {"final", "input", "seal"} \subseteq MXKinds /\ mxStep = "final"
  BY DEF MXSeal, MXKinds
<1>3. MXGood(input) /\ MXGood(final)
  BY <1>2, MXHandedOver
<1>4. final.ready = input.ready /\ final.write = input.write
  BY <1>1 DEF MXSealFits, MXSame
<1>5. input.write # 0
  BY <1>2, MXHandedOver DEF MXInv, MXAny, MXFromInput
<1>6. MXPart(input, input.ready, input.write) /\ MXPart(final, input.ready, input.write)
  BY <1>3, <1>4, MXPartsFit
<1>7. MXTyped(input) /\ (input.write # 0 => input.ready = MXReadyOf(input.write)) /\ input.write \in MXWrites \cup {0}
  BY <1>3 DEF MXGood, MXTyped, MXNamed
<1>10. MXGood(MXMade(input.write, <<input, final>>)) /\ MXMade(input.write, <<input, final>>).write = input.write
  BY <1>6, <1>7, MXMadeOfTwo
<1>8. /\ "seal" \in MXFromInput => mxStep \in MXFromInput
      /\ "seal" \in MXFromSealed => "seal" = "sealed" \/ mxStep \in MXFromSealed
      /\ "seal" \in MXFromSubmission => "seal" = "submission" \/ mxStep \in MXFromSubmission
      /\ "seal" # "authority" /\ mxStep # "cancelled"
  BY <1>2 DEF MXFromInput, MXFromSealed, MXFromSubmission
<1> QED BY <1>1, <1>2, <1>5, <1>10, <1>8, MXHoldKeeps

\* Commitment keeps the invariant.
LEMMA MXCommitmentKeeps ==
  ASSUME MXInv, MXCommitment
  PROVE  MXInv'
<1>1. PICK input \in MXAny("input"), seal \in MXAny("seal") :
        MXCommitmentFits(input, seal) /\ MXHold("commitment", "commitment", MXMade(input.write, <<input, seal>>))
  BY Zenon DEF MXCommitment
<1>2. {"commitment", "input", "seal"} \subseteq MXKinds /\ mxStep = "seal"
  BY DEF MXCommitment, MXKinds
<1>3. MXGood(input) /\ MXGood(seal)
  BY <1>2, MXHandedOver
<1>4. seal.ready = input.ready /\ seal.write = input.write
  BY <1>1 DEF MXCommitmentFits, MXSame
<1>5. input.write # 0
  BY <1>2, MXHandedOver DEF MXInv, MXAny, MXFromInput
<1>6. MXPart(input, input.ready, input.write) /\ MXPart(seal, input.ready, input.write)
  BY <1>3, <1>4, MXPartsFit
<1>7. MXTyped(input) /\ (input.write # 0 => input.ready = MXReadyOf(input.write)) /\ input.write \in MXWrites \cup {0}
  BY <1>3 DEF MXGood, MXTyped, MXNamed
<1>10. MXGood(MXMade(input.write, <<input, seal>>)) /\ MXMade(input.write, <<input, seal>>).write = input.write
  BY <1>6, <1>7, MXMadeOfTwo
<1>8. /\ "commitment" \in MXFromInput => mxStep \in MXFromInput
      /\ "commitment" \in MXFromSealed => "commitment" = "sealed" \/ mxStep \in MXFromSealed
      /\ "commitment" \in MXFromSubmission => "commitment" = "submission" \/ mxStep \in MXFromSubmission
      /\ "commitment" # "authority" /\ mxStep # "cancelled"
  BY <1>2 DEF MXFromInput, MXFromSealed, MXFromSubmission
<1> QED BY <1>1, <1>2, <1>5, <1>10, <1>8, MXHoldKeeps

\* Sealed keeps the invariant.
LEMMA MXSealedKeeps ==
  ASSUME MXInv, MXSealed
  PROVE  MXInv'
<1>1. PICK input \in MXAny("input"), seal \in MXAny("seal"), commitment \in MXAny("commitment") :
        MXSealedFits(input, seal, commitment) /\ MXHold("sealed", "sealed", MXMade(input.write, <<input, seal, commitment>>))
  BY Zenon DEF MXSealed, MXRetained
<1>2. {"commitment", "input", "seal", "sealed"} \subseteq MXKinds /\ mxStep = "commitment"
  BY DEF MXSealed, MXKinds
<1>3. MXGood(input) /\ MXGood(seal) /\ MXGood(commitment)
  BY <1>2, MXHandedOver
<1>4. seal.ready = input.ready /\ seal.write = input.write /\ commitment.ready = input.ready /\ commitment.write = input.write
  BY <1>1 DEF MXSealedFits, MXSame
<1>5. input.write # 0
  BY <1>2, MXHandedOver DEF MXInv, MXAny, MXFromInput
<1>6. MXPart(input, input.ready, input.write) /\ MXPart(seal, input.ready, input.write) /\ MXPart(commitment, input.ready, input.write)
  BY <1>3, <1>4, MXPartsFit
<1>7. MXTyped(input) /\ (input.write # 0 => input.ready = MXReadyOf(input.write)) /\ input.write \in MXWrites \cup {0}
  BY <1>3 DEF MXGood, MXTyped, MXNamed
<1>10. MXGood(MXMade(input.write, <<input, seal, commitment>>)) /\ MXMade(input.write, <<input, seal, commitment>>).write = input.write
  BY <1>6, <1>7, MXMadeOfThree
<1>8. /\ "sealed" \in MXFromInput => mxStep \in MXFromInput
      /\ "sealed" \in MXFromSealed => "sealed" = "sealed" \/ mxStep \in MXFromSealed
      /\ "sealed" \in MXFromSubmission => "sealed" = "submission" \/ mxStep \in MXFromSubmission
      /\ "sealed" # "authority" /\ mxStep # "cancelled"
  BY <1>2 DEF MXFromInput, MXFromSealed, MXFromSubmission
<1> QED BY <1>1, <1>2, <1>5, <1>10, <1>8, MXHoldKeeps

\* Submission keeps the invariant.
LEMMA MXSubmissionKeeps ==
  ASSUME MXInv, MXSubmission
  PROVE  MXInv'
<1>1. PICK sealed \in MXAny("sealed") :
        MXHold("submission", "submission", MXMade(sealed.write, <<sealed>>))
  BY Zenon DEF MXSubmission
<1>2. {"sealed", "submission"} \subseteq MXKinds /\ mxStep = "sealed"
  BY DEF MXSubmission, MXKinds
<1>3. MXGood(sealed)
  BY <1>2, MXHandedOver
<1>5. sealed.write # 0
  BY <1>2, MXHandedOver DEF MXInv, MXAny, MXFromSealed
<1>6. MXPart(sealed, sealed.ready, sealed.write)
  BY <1>3, MXPartsFit
<1>7. MXTyped(sealed) /\ (sealed.write # 0 => sealed.ready = MXReadyOf(sealed.write)) /\ sealed.write \in MXWrites \cup {0}
  BY <1>3 DEF MXGood, MXTyped, MXNamed
<1>10. MXGood(MXMade(sealed.write, <<sealed>>)) /\ MXMade(sealed.write, <<sealed>>).write = sealed.write
  BY <1>6, <1>7, MXMadeOfOne
<1>8. /\ "submission" \in MXFromInput => mxStep \in MXFromInput
      /\ "submission" \in MXFromSealed => "submission" = "sealed" \/ mxStep \in MXFromSealed
      /\ "submission" \in MXFromSubmission => "submission" = "submission" \/ mxStep \in MXFromSubmission
      /\ "submission" # "authority" /\ mxStep # "cancelled"
  BY <1>2 DEF MXFromInput, MXFromSealed, MXFromSubmission
<1> QED BY <1>1, <1>2, <1>5, <1>10, <1>8, MXHoldKeeps

\* Envelope keeps the invariant.
LEMMA MXEnvelopeKeeps ==
  ASSUME MXInv, MXEnvelope
  PROVE  MXInv'
<1>1. PICK submission \in MXAny("submission") :
        MXHold("envelope", "envelope", MXMade(submission.write, <<submission>>))
  BY Zenon DEF MXEnvelope
<1>2. {"envelope", "submission"} \subseteq MXKinds /\ mxStep = "submission"
  BY DEF MXEnvelope, MXKinds
<1>3. MXGood(submission)
  BY <1>2, MXHandedOver
<1>5. submission.write # 0
  BY <1>2, MXHandedOver DEF MXInv, MXAny, MXFromSubmission
<1>6. MXPart(submission, submission.ready, submission.write)
  BY <1>3, MXPartsFit
<1>7. MXTyped(submission) /\ (submission.write # 0 => submission.ready = MXReadyOf(submission.write)) /\ submission.write \in MXWrites \cup {0}
  BY <1>3 DEF MXGood, MXTyped, MXNamed
<1>10. MXGood(MXMade(submission.write, <<submission>>)) /\ MXMade(submission.write, <<submission>>).write = submission.write
  BY <1>6, <1>7, MXMadeOfOne
<1>8. /\ "envelope" \in MXFromInput => mxStep \in MXFromInput
      /\ "envelope" \in MXFromSealed => "envelope" = "sealed" \/ mxStep \in MXFromSealed
      /\ "envelope" \in MXFromSubmission => "envelope" = "submission" \/ mxStep \in MXFromSubmission
      /\ "envelope" # "authority" /\ mxStep # "cancelled"
  BY <1>2 DEF MXFromInput, MXFromSealed, MXFromSubmission
<1> QED BY <1>1, <1>2, <1>5, <1>10, <1>8, MXHoldKeeps

\* Applied keeps the invariant.
LEMMA MXAppliedKeeps ==
  ASSUME MXInv, MXApplied
  PROVE  MXInv'
<1>1. PICK sealed \in MXAny("sealed"), submission \in MXAny("submission"), envelope \in MXAny("envelope"), result \in MXOfWrite, response \in MXOfWrite :
        MXSubmissionFits(sealed, submission) /\ MXEnvelopeFits(submission, envelope) /\ MXEchoes(response, submission) /\ MXResultFits(sealed, result) /\ MXStrategyFits(sealed, result) /\ MXHold("applied", "outcome", MXMade(sealed.write, <<sealed, submission, envelope, result, response>>))
  BY Zenon DEF MXApplied
<1>2. {"envelope", "outcome", "sealed", "submission"} \subseteq MXKinds /\ mxStep = "envelope"
  BY DEF MXApplied, MXKinds
<1>3. MXGood(sealed) /\ MXGood(submission) /\ MXGood(envelope) /\ MXGood(result) /\ MXGood(response) /\ result.write # 0 /\ response.write # 0
  BY <1>2, MXHandedOver
<1>4. submission.ready = sealed.ready /\ submission.write = sealed.write /\ envelope.ready = sealed.ready /\ envelope.write = sealed.write /\ result.ready = sealed.ready /\ result.write = sealed.write /\ response.write = sealed.write
  BY <1>1 DEF MXSubmissionFits, MXEnvelopeFits, MXEchoes, MXResultFits, MXSame
<1>5. sealed.write # 0
  BY <1>2, MXHandedOver DEF MXInv, MXAny, MXFromSealed
<1>9. response.ready = sealed.ready
  BY <1>3, <1>4, <1>5 DEF MXGood, MXNamed
<1>6. MXPart(sealed, sealed.ready, sealed.write) /\ MXPart(submission, sealed.ready, sealed.write) /\ MXPart(envelope, sealed.ready, sealed.write) /\ MXPart(result, sealed.ready, sealed.write) /\ MXPart(response, sealed.ready, sealed.write)
  BY <1>3, <1>4, <1>9, MXPartsFit
<1>7. MXTyped(sealed) /\ (sealed.write # 0 => sealed.ready = MXReadyOf(sealed.write)) /\ sealed.write \in MXWrites \cup {0}
  BY <1>3 DEF MXGood, MXTyped, MXNamed
<1>10. MXGood(MXMade(sealed.write, <<sealed, submission, envelope, result, response>>)) /\ MXMade(sealed.write, <<sealed, submission, envelope, result, response>>).write = sealed.write
  BY <1>6, <1>7, MXMadeOfFive
<1>8. /\ "applied" \in MXFromInput => mxStep \in MXFromInput
      /\ "applied" \in MXFromSealed => "outcome" = "sealed" \/ mxStep \in MXFromSealed
      /\ "applied" \in MXFromSubmission => "outcome" = "submission" \/ mxStep \in MXFromSubmission
      /\ "outcome" # "authority" /\ mxStep # "cancelled"
  BY <1>2 DEF MXFromInput, MXFromSealed, MXFromSubmission
<1> QED BY <1>1, <1>2, <1>5, <1>10, <1>8, MXHoldKeeps

\* NotApplied keeps the invariant.
LEMMA MXNotAppliedKeeps ==
  ASSUME MXInv, MXNotApplied
  PROVE  MXInv'
<1>1. PICK sealed \in MXAny("sealed"), submission \in MXAny("submission"), envelope \in MXAny("envelope") :
        MXNotAppliedFits(sealed, submission, envelope) /\ MXHold("not_applied", "outcome", MXMade(sealed.write, <<sealed, submission, envelope>>))
  BY Zenon DEF MXNotApplied
<1>2. {"envelope", "outcome", "sealed", "submission"} \subseteq MXKinds /\ mxStep \in {"submission", "envelope"}
  BY DEF MXNotApplied, MXKinds
<1>3. MXGood(sealed) /\ MXGood(submission) /\ MXGood(envelope)
  BY <1>2, MXHandedOver
<1>4. submission.ready = sealed.ready /\ submission.write = sealed.write /\ (envelope = MXNone \/ (envelope.ready = sealed.ready /\ envelope.write = sealed.write))
  BY <1>1 DEF MXNotAppliedFits, MXSubmissionFits, MXEnvelopeFits, MXSame
<1>5. sealed.write # 0
  BY <1>2, MXHandedOver DEF MXInv, MXAny, MXFromSealed
<1>6. MXPart(sealed, sealed.ready, sealed.write) /\ MXPart(submission, sealed.ready, sealed.write) /\ MXPart(envelope, sealed.ready, sealed.write)
  BY <1>3, <1>4, MXPartsFit
<1>7. MXTyped(sealed) /\ (sealed.write # 0 => sealed.ready = MXReadyOf(sealed.write)) /\ sealed.write \in MXWrites \cup {0}
  BY <1>3 DEF MXGood, MXTyped, MXNamed
<1>10. MXGood(MXMade(sealed.write, <<sealed, submission, envelope>>)) /\ MXMade(sealed.write, <<sealed, submission, envelope>>).write = sealed.write
  BY <1>6, <1>7, MXMadeOfThree
<1>8. /\ "not_applied" \in MXFromInput => mxStep \in MXFromInput
      /\ "not_applied" \in MXFromSealed => "outcome" = "sealed" \/ mxStep \in MXFromSealed
      /\ "not_applied" \in MXFromSubmission => "outcome" = "submission" \/ mxStep \in MXFromSubmission
      /\ "outcome" # "authority" /\ mxStep # "cancelled"
  BY <1>2 DEF MXFromInput, MXFromSealed, MXFromSubmission
<1> QED BY <1>1, <1>2, <1>5, <1>10, <1>8, MXHoldKeeps

\* Post keeps the invariant.
LEMMA MXPostKeeps ==
  ASSUME MXInv, MXPost
  PROVE  MXInv'
<1>1. PICK sealed \in MXAny("sealed"), result \in MXAny("outcome"), object \in MXOfWrite, containment \in MXOfWrite :
        MXResultFits(sealed, result) /\ MXObjectFits(sealed, object) /\ MXContainmentFits(sealed, containment) /\ MXHold("post", "post", MXMade(sealed.write, <<sealed, result, object, containment>>))
  BY Zenon DEF MXPost
<1>2. {"outcome", "post", "sealed"} \subseteq MXKinds /\ mxStep = "applied"
  BY DEF MXPost, MXKinds
<1>3. MXGood(sealed) /\ MXGood(result) /\ MXGood(object) /\ MXGood(containment) /\ object.write # 0 /\ containment.write # 0
  BY <1>2, MXHandedOver
<1>4. result.ready = sealed.ready /\ result.write = sealed.write /\ object.ready = sealed.ready /\ object.write = sealed.write /\ containment.ready = sealed.ready /\ containment.write = sealed.write
  BY <1>1 DEF MXResultFits, MXObjectFits, MXContainmentFits, MXSame
<1>5. sealed.write # 0
  BY <1>2, MXHandedOver DEF MXInv, MXAny, MXFromSealed
<1>6. MXPart(sealed, sealed.ready, sealed.write) /\ MXPart(result, sealed.ready, sealed.write) /\ MXPart(object, sealed.ready, sealed.write) /\ MXPart(containment, sealed.ready, sealed.write)
  BY <1>3, <1>4, MXPartsFit
<1>7. MXTyped(sealed) /\ (sealed.write # 0 => sealed.ready = MXReadyOf(sealed.write)) /\ sealed.write \in MXWrites \cup {0}
  BY <1>3 DEF MXGood, MXTyped, MXNamed
<1>10. MXGood(MXMade(sealed.write, <<sealed, result, object, containment>>)) /\ MXMade(sealed.write, <<sealed, result, object, containment>>).write = sealed.write
  BY <1>6, <1>7, MXMadeOfFour
<1>8. /\ "post" \in MXFromInput => mxStep \in MXFromInput
      /\ "post" \in MXFromSealed => "post" = "sealed" \/ mxStep \in MXFromSealed
      /\ "post" \in MXFromSubmission => "post" = "submission" \/ mxStep \in MXFromSubmission
      /\ "post" # "authority" /\ mxStep # "cancelled"
  BY <1>2 DEF MXFromInput, MXFromSealed, MXFromSubmission
<1> QED BY <1>1, <1>2, <1>5, <1>10, <1>8, MXHoldKeeps

\* Durable keeps the invariant.
LEMMA MXDurableKeeps ==
  ASSUME MXInv, MXDurable
  PROVE  MXInv'
<1>1. PICK authority \in MXAny("stop"), replay \in MXAny("stop") :
        MXReplayFits(authority, replay) /\ MXHold("durable", "durable", MXMade(authority.write, <<authority, replay>>))
  BY Zenon DEF MXDurable
<1>2. {"durable", "stop"} \subseteq MXKinds /\ mxStep = "stop"
  BY DEF MXDurable, MXKinds
<1>3. MXGood(authority) /\ MXGood(replay)
  BY <1>2, MXHandedOver
<1>4. replay.ready = authority.ready /\ replay.write = authority.write
  BY <1>1 DEF MXReplayFits, MXSame
<1>6. MXPart(authority, authority.ready, authority.write) /\ MXPart(replay, authority.ready, authority.write)
  BY <1>3, <1>4, MXPartsFit
<1>7. MXTyped(authority) /\ (authority.write # 0 => authority.ready = MXReadyOf(authority.write)) /\ authority.write \in MXWrites \cup {0}
  BY <1>3 DEF MXGood, MXTyped, MXNamed
<1>10. MXGood(MXMade(authority.write, <<authority, replay>>)) /\ MXMade(authority.write, <<authority, replay>>).write = authority.write
  BY <1>6, <1>7, MXMadeOfTwo
<1>8. /\ "durable" \in MXFromInput => mxStep \in MXFromInput
      /\ "durable" \in MXFromSealed => "durable" = "sealed" \/ mxStep \in MXFromSealed
      /\ "durable" \in MXFromSubmission => "durable" = "submission" \/ mxStep \in MXFromSubmission
      /\ "durable" # "authority" /\ mxStep # "cancelled" /\ "durable" \notin MXWritten
  BY <1>2 DEF MXFromInput, MXFromSealed, MXFromSubmission, MXWritten
<1> QED BY <1>1, <1>2, <1>10, <1>8, MXHoldKeeps

\* AuthorizeCancelled keeps the invariant.
LEMMA MXAuthorizeCancelledKeeps ==
  ASSUME MXInv, MXAuthorizeCancelled
  PROVE  MXInv'
<1>1. PICK durable \in MXAny("durable"), sealed \in MXAny("sealed"), ready \in MXOfAuthority :
        MXExpected(durable, ready, sealed) /\ MXHold("cancelled", "outcome", MXMade(durable.write, <<durable, ready, sealed>>))
  BY Zenon DEF MXAuthorizeCancelled
<1>2. {"durable", "outcome", "sealed"} \subseteq MXKinds /\ mxStep = "durable"
  BY DEF MXAuthorizeCancelled, MXKinds
<1>3. MXGood(durable) /\ MXGood(sealed) /\ MXGood(ready) /\ ready.write = 0
  BY <1>2, MXHandedOver
<1>4. ready.ready = durable.ready /\ (sealed = MXNone \/ (sealed.ready = durable.ready /\ sealed.write = durable.write))
  BY <1>1 DEF MXExpected, MXSame
<1>6. MXPart(durable, durable.ready, durable.write) /\ MXPart(ready, durable.ready, durable.write) /\ MXPart(sealed, durable.ready, durable.write)
  BY <1>3, <1>4, MXPartsFit
<1>7. MXTyped(durable) /\ (durable.write # 0 => durable.ready = MXReadyOf(durable.write)) /\ durable.write \in MXWrites \cup {0}
  BY <1>3 DEF MXGood, MXTyped, MXNamed
<1>10. MXGood(MXMade(durable.write, <<durable, ready, sealed>>)) /\ MXMade(durable.write, <<durable, ready, sealed>>).write = durable.write
  BY <1>6, <1>7, MXMadeOfThree
<1>8. /\ "cancelled" \in MXFromInput => mxStep \in MXFromInput
      /\ "cancelled" \in MXFromSealed => "outcome" = "sealed" \/ mxStep \in MXFromSealed
      /\ "cancelled" \in MXFromSubmission => "outcome" = "submission" \/ mxStep \in MXFromSubmission
      /\ "outcome" # "authority" /\ mxStep # "cancelled" /\ "outcome" \notin MXWritten
  BY <1>2 DEF MXFromInput, MXFromSealed, MXFromSubmission, MXWritten
<1> QED BY <1>1, <1>2, <1>10, <1>8, MXHoldKeeps

\* A cancellation is of one write of the bound READY, or of none.
LEMMA MXStopKeeps ==
  ASSUME MXInv, MXStop
  PROVE  MXInv'
<1>1. PICK proof \in MXOfAuthority, attempt \in MXAny("input"), seal \in MXAny("seal"), submission \in MXAny("submission"),
           outcome \in MXAny("outcome") :
        /\ MXSubmissionProofFits(attempt, seal, submission, outcome) /\ MXBoundaryFits(proof, attempt, seal)
        /\ MXHold("stop", "stop", MXMade(attempt.write, <<proof, attempt, seal, submission, outcome>>))
  BY Zenon DEF MXStop
<1>2. /\ {"input", "seal", "submission", "outcome", "stop"} \subseteq MXKinds /\ {"input", "seal", "submission"} \subseteq MXWritten
      /\ mxStep # "cancelled"
  BY DEF MXStop, MXKinds, MXWritten
<1>3. MXGood(proof) /\ proof.write = 0 /\ \A r \in {attempt, seal, submission, outcome} : MXGood(r) /\ MXNamesIt(r)
  BY <1>2, MXHandedOver
<1>4. attempt = MXNone \/ (attempt.ready = proof.ready /\ attempt.write # 0)
  BY <1>1, <1>3 DEF MXBoundaryFits, MXNamesIt
<1>5. seal = MXNone \/ (attempt # MXNone /\ seal.write = attempt.write)
  BY <1>1 DEF MXBoundaryFits
<1>6. seal = MXNone \/ seal.ready = proof.ready
  BY <1>3, <1>4, <1>5 DEF MXGood, MXNamed
<1>7. /\ submission = MXNone \/ (seal # MXNone /\ submission.ready = seal.ready /\ submission.write = attempt.write)
      /\ outcome = MXNone \/ (submission # MXNone /\ outcome.ready = submission.ready /\ outcome.write = submission.write)
  BY <1>1 DEF MXSubmissionProofFits, MXSame
<1>8. \A r \in {proof, attempt, seal, submission, outcome} : MXPart(r, proof.ready, attempt.write)
  BY <1>3, <1>4, <1>5, <1>6, <1>7, MXPartsFit
<1>9. attempt.write \in MXWrites \cup {0} /\ (attempt.write # 0 => proof.ready = MXReadyOf(attempt.write))
  <2>1. MXNone.write = 0
    BY DEF MXNone
  <2> QED BY <1>3, <1>4, <2>1 DEF MXGood, MXTyped, MXNamed
<1>10. MXGood(MXMade(attempt.write, <<proof, attempt, seal, submission, outcome>>))
  BY <1>3, <1>8, <1>9, MXMadeOfFive DEF MXGood
<1>11. "stop" \notin MXWritten /\ MXNoStep("stop")
  BY DEF MXWritten, MXNoStep, MXFromInput, MXFromSealed, MXFromSubmission
<1> QED BY <1>1, <1>2, <1>10, <1>11, MXHoldKeeps DEF MXNoStep

-----------------------------------------------------------------------------
\* The records the controller holds are typed and of one READY and one write,
\* whatever it is handed.
THEOREM RecordsAreUnmixed == MXSpec => []MXSound
<1>1. MXInit => MXInv
  <2> SUFFICES ASSUME MXInit  PROVE MXInv
    OBVIOUS
  <2>1. mxHeld = [k \in MXKinds |-> MXNone] /\ mxStep = "none"
    BY DEF MXInit
  <2>2. MXNone.ready = "" /\ MXNone.write = 0 /\ MXNone.made = {}
    BY DEF MXNone
  <2>3. MXGood(MXNone) /\ MXNamesIt(MXNone)
    BY <2>2 DEF MXGood, MXTyped, MXOneWrite, MXNamed, MXNamesIt
  <2>4. \A k \in MXKinds : mxHeld[k] = MXNone
    BY <2>1
  <2>5. "authority" \in MXKinds /\ "outcome" \in MXKinds /\ MXWritten \subseteq MXKinds
    BY DEF MXKinds, MXWritten
  <2>6. MXNoStep(mxStep)
    BY <2>1 DEF MXNoStep, MXFromInput, MXFromSealed, MXFromSubmission
  <2> QED BY <2>1, <2>2, <2>3, <2>4, <2>5, <2>6 DEF MXInv, MXNoStep
<1>2. MXInv /\ [MXNext]_mxVars => MXInv'
  <2> SUFFICES ASSUME MXInv, [MXNext]_mxVars  PROVE MXInv'
    OBVIOUS
  <2>1. CASE MXNext
    BY <2>1, MXAdmissionKeeps, MXFinalKeeps, MXSealKeeps, MXCommitmentKeeps, MXSealedKeeps, MXSubmissionKeeps, MXEnvelopeKeeps, MXAppliedKeeps, MXNotAppliedKeeps, MXPostKeeps, MXDurableKeeps, MXAuthorizeCancelledKeeps, MXStopKeeps DEF MXNext
  <2>2. CASE UNCHANGED mxVars
    BY <2>2 DEF mxVars, MXInv, MXGood, MXTyped, MXOneWrite, MXNamed, MXNamesIt
  <2> QED BY <2>1, <2>2
<1>3. MXInv => MXSound
  <2> SUFFICES ASSUME MXInv  PROVE MXSound
    OBVIOUS
  <2>1. MXTypeOK
    BY DEF MXInv, MXGood, MXTyped, MXTypeOK
  <2>2. ASSUME NEW k \in MXKinds, NEW x \in mxHeld[k].made, NEW y \in mxHeld[k].made
        PROVE  x[1] = y[1] /\ (x[2] = y[2] \/ 0 \in {x[2], y[2]})
    BY <2>2 DEF MXInv, MXGood, MXOneWrite
  <2> QED BY <2>1, <2>2 DEF MXSound, MXUnmixed
<1> QED BY <1>1, <1>2, <1>3, PTL DEF MXSpec

-----------------------------------------------------------------------------
(* CIAttempts: an attempt has one answer, and the store its limits. *)

CAPcs == {"idle", "inspect", "repair", "find", "replay", "collect", "publish", "complete", "end"}
CAWorks == [pc : CAPcs, created : BOOLEAN, got : 0..CAMaxCollections]
\* The reservations of a run, whole or not.
CAOf(run) == {a \in CATotal : CARunOf(a) = run}

\* The evidence of one attempt: a bundle is made once and never the one that lay
\* there before, its event names it, and so does the call that works on it.
CAEvidence(a) ==
  /\ caBundle[a] < caNext /\ caEvent[a] \in {0, caBundle[a]}
  /\ caRes[a] = "whole" \/ caWork[a].pc = "repair" => caBundle[a] \notin caForeign
  /\ caWork[a].pc \in {"inspect", "repair"} => caRes[a] = "prefix"
  /\ caWork[a].pc \in {"find", "replay", "collect", "publish", "complete", "end"} => caRes[a] = "whole"
  /\ caWork[a].pc = "publish" => caWork[a].got \notin caForeign \cup {0} /\ caWork[a].got < caNext
  /\ caWork[a].pc = "complete" => caWork[a].got = caBundle[a] /\ caBundle[a] # 0
  /\ caWork[a].pc = "replay" => caEvent[a] = caBundle[a] /\ caBundle[a] # 0
  /\ \A b \in caAnswers[a] : b = caBundle[a] /\ b = caEvent[a] /\ b \notin caForeign /\ b # 0 /\ caRes[a] = "whole"

\* The limits of the store, counted by run.
CALimits ==
  /\ IsFiniteSet(CATotal) /\ Cardinality(CATotal) <= CAMaxGlobal
  /\ \A a \in CAAttempts : Cardinality(CAOf(CARunOf(a))) <= CAMaxPerRun

\* The inductive invariant.
CAInv ==
  /\ CATypeOK /\ caWork \in [CAAttempts -> CAWorks] /\ caAnswers \in [CAAttempts -> SUBSET (1..CAMaxCollections)]
  /\ caForeign \subseteq 1..(caNext - 1)
  /\ \A a \in CAAttempts : CAEvidence(a)
  /\ CALimits

\* A step of one attempt that keeps its own evidence and the limits keeps the invariant.
LEMMA CAStepKeeps ==
  ASSUME CAInv, NEW a \in CAAttempts, NEW r \in {"none", "prefix", "whole", "poisoned"}, NEW w \in CAWorks,
         NEW b \in 0..CAMaxCollections, NEW e \in 0..CAMaxCollections, NEW s \in SUBSET (1..CAMaxCollections),
         caRes' = [caRes EXCEPT ![a] = r], caWork' = [caWork EXCEPT ![a] = w], caBundle' = [caBundle EXCEPT ![a] = b],
         caEvent' = [caEvent EXCEPT ![a] = e], caAnswers' = [caAnswers EXCEPT ![a] = s],
         caTorn' \in BOOLEAN, caCapacity' \in CAAttempts \cup {"free"}, caFaults' \in 0..CAMaxFaults,
         \/ caNext' = caNext /\ caForeign' = caForeign
         \/ caNext <= CAMaxCollections /\ caNext' = caNext + 1 /\ caForeign' \in {caForeign, caForeign \cup {caNext}},
         CAEvidence(a)', CALimits'
  PROVE  CAInv'
<1>1. CAMaxCollections \in Nat /\ caNext \in 1..(CAMaxCollections + 1) /\ caForeign \subseteq 1..(caNext - 1)
  BY CAAssumption DEF CAInv, CATypeOK
<1>2. CATypeOK' /\ caWork' \in [CAAttempts -> CAWorks] /\ caAnswers' \in [CAAttempts -> SUBSET (1..CAMaxCollections)]
  BY <1>1 DEF CAInv, CATypeOK
<1>3. caForeign' \subseteq 1..(caNext' - 1)
  <2>1. caForeign' \subseteq caForeign \cup {caNext} /\ caNext' \in {caNext, caNext + 1} /\ (caNext' = caNext => caForeign' = caForeign)
    BY <1>1
  <2>2. SUFFICES ASSUME NEW f \in caForeign'  PROVE f \in 1..(caNext' - 1)
    OBVIOUS
  <2>3. caNext \in Nat /\ caNext >= 1 /\ (f = caNext \/ f \in 1..(caNext - 1))
    BY <1>1, <2>1
  <2>4. CASE caNext' = caNext
    BY <1>1, <2>4, <2>1
  <2>5. CASE caNext' = caNext + 1
    BY <2>3, <2>5
  <2> QED BY <2>1, <2>4, <2>5
<1>4. ASSUME NEW c \in CAAttempts  PROVE CAEvidence(c)'
  <2>1. CASE c = a
    BY <2>1
  <2>2. CASE c # a
    <3>1. caRes'[c] = caRes[c] /\ caWork'[c] = caWork[c] /\ caBundle'[c] = caBundle[c] /\ caEvent'[c] = caEvent[c] /\ caAnswers'[c] = caAnswers[c]
      BY <2>2 DEF CAInv, CATypeOK
    <3>2. caBundle[c] \in Nat /\ caWork[c].got \in Nat /\ caNext <= caNext'
      BY <1>1 DEF CAInv, CATypeOK, CAWorks
    <3>3. caForeign' \subseteq caForeign \cup {caNext}
      OBVIOUS
    <3>4. CAEvidence(c)
      BY DEF CAInv
    <3> QED BY <1>1, <3>1, <3>2, <3>3, <3>4 DEF CAEvidence
  <2> QED BY <2>1, <2>2
<1> QED BY <1>2, <1>3, <1>4 DEF CAInv

\* What is not a new reservation keeps the limits.
LEMMA CALimitsKept ==
  ASSUME CAInv, \A a \in CAAttempts : (caRes'[a] # "none") = (caRes[a] # "none")
  PROVE  CALimits'
<1>1. CATotal' = CATotal
  BY DEF CATotal
<1>2. \A run : CAOf(run)' = CAOf(run)
  BY <1>1 DEF CAOf
<1>3. \A a \in CAAttempts : Cardinality(CAOf(CARunOf(a)))' <= CAMaxPerRun
  BY <1>2 DEF CAInv, CALimits
<1> QED BY <1>1, <1>3 DEF CAInv, CALimits

\* A new reservation is within the limits: what does not parse counts against every run.
LEMMA CAReservationFits ==
  ASSUME CAInv, NEW a \in CAAttempts, caRes[a] = "none", CAFits(a), caRes' = [caRes EXCEPT ![a] = "prefix"]
  PROVE  CALimits'
<1>1. IsFiniteSet(CATotal) /\ caRes \in [CAAttempts -> {"none", "prefix", "whole", "poisoned"}] /\ {CAMaxPerRun, CAMaxGlobal} \subseteq Nat
  BY CAAssumption DEF CAInv, CALimits, CATypeOK
<1>2. CATotal' = CATotal \cup {a} /\ a \notin CATotal
  BY <1>1 DEF CATotal
<1>3. IsFiniteSet(CATotal') /\ Cardinality(CATotal)' = Cardinality(CATotal) + 1
  BY <1>1, <1>2, FS_AddElement
<1>4. Cardinality(CATotal)' <= CAMaxGlobal
  BY <1>3 DEF CAFits
<1>5. ASSUME NEW c \in CAAttempts  PROVE Cardinality(CAOf(CARunOf(c)))' <= CAMaxPerRun
  <2>1. CAOf(CARunOf(c)) \subseteq CATotal /\ IsFiniteSet(CAOf(CARunOf(c))) /\ Cardinality(CAOf(CARunOf(c))) \in Nat
    BY <1>1, FS_Subset, FS_CardinalityType DEF CAOf
  <2>2. CASE CARunOf(c) # CARunOf(a)
    <3>1. CAOf(CARunOf(c))' = CAOf(CARunOf(c))
      BY <1>2, <2>2 DEF CAOf
    <3> QED BY <3>1 DEF CAInv, CALimits
  <2>3. CASE CARunOf(c) = CARunOf(a)
    <3>1. CAOf(CARunOf(c))' = CAOf(CARunOf(c)) \cup {a} /\ a \notin CAOf(CARunOf(c))
      BY <1>2, <2>3 DEF CAOf
    <3>2. Cardinality(CAOf(CARunOf(c)))' = Cardinality(CAOf(CARunOf(c))) + 1
      BY <2>1, <3>1, FS_AddElement
    <3> DEFINE W == CAWhole(CARunOf(a))  I == CAIncomplete
    <3>3. IsFiniteSet(W) /\ IsFiniteSet(I) /\ Cardinality(W) \in Nat /\ Cardinality(I) \in Nat
      <4>1. W \subseteq CATotal /\ I \subseteq CATotal
        BY DEF CAWhole, CAIncomplete, CATotal
      <4> QED BY <1>1, <4>1, FS_Subset, FS_CardinalityType
    <3>4. CAOf(CARunOf(c)) \subseteq W \cup I
      BY <1>1, <2>3 DEF CAOf, CAWhole, CAIncomplete, CATotal
    <3>5. Cardinality(W) + Cardinality(I) + 1 <= CAMaxPerRun
      BY DEF CAFits
    <3> HIDE DEF W, I
    <3>6. IsFiniteSet(W \cup I) /\ Cardinality(W \cup I) <= Cardinality(W) + Cardinality(I) /\ Cardinality(W \cup I) \in Nat
      <4>1. Cardinality(W \cup I) = Cardinality(W) + Cardinality(I) - Cardinality(W \cap I) /\ IsFiniteSet(W \cup I)
        BY <3>3, FS_Union
      <4>2. Cardinality(W \cap I) \in Nat /\ Cardinality(W \cup I) \in Nat
        BY <3>3, <4>1, FS_Intersection, FS_CardinalityType
      <4> QED BY <3>3, <4>1, <4>2
    <3>7. Cardinality(CAOf(CARunOf(c))) <= Cardinality(W \cup I)
      BY <3>4, <3>6, FS_Subset
    <3> QED BY <1>1, <2>1, <3>2, <3>3, <3>5, <3>6, <3>7
  <2> QED BY <2>2, <2>3
<1> QED BY <1>3, <1>4, <1>5 DEF CALimits

-----------------------------------------------------------------------------
(* Every step keeps the invariant. *)

\* The types and the evidence that a step of attempt a starts from.
CATyped(a) ==
  /\ caRes \in [CAAttempts -> {"none", "prefix", "whole", "poisoned"}] /\ caTorn \in BOOLEAN
  /\ caBundle \in [CAAttempts -> 0..CAMaxCollections] /\ caEvent \in [CAAttempts -> 0..CAMaxCollections]
  /\ caWork \in [CAAttempts -> CAWorks] /\ caAnswers \in [CAAttempts -> SUBSET (1..CAMaxCollections)]
  /\ caCapacity \in CAAttempts \cup {"free"} /\ caNext \in 1..(CAMaxCollections + 1) /\ caFaults \in 0..CAMaxFaults
  /\ caForeign \subseteq 1..(caNext - 1) /\ CAMaxCollections \in Nat /\ CAMaxFaults \in Nat
  /\ CAIdle \in CAWorks /\ CAEvidence(a)

\* A step sets the state of attempt a to these values.
CASetTo(a, r, w, b, e, s) ==
  /\ caRes' = [caRes EXCEPT ![a] = r] /\ caWork' = [caWork EXCEPT ![a] = w] /\ caBundle' = [caBundle EXCEPT ![a] = b]
  /\ caEvent' = [caEvent EXCEPT ![a] = e] /\ caAnswers' = [caAnswers EXCEPT ![a] = s]
  /\ r \in {"none", "prefix", "whole", "poisoned"} /\ w \in CAWorks /\ b \in 0..CAMaxCollections /\ e \in 0..CAMaxCollections
  /\ s \in SUBSET (1..CAMaxCollections)

\* It makes no bundle, and leaves the rest within its types.
CARestKept ==
  /\ caTorn' \in BOOLEAN /\ caCapacity' \in CAAttempts \cup {"free"} /\ caFaults' \in 0..CAMaxFaults
  /\ caNext' = caNext /\ caForeign' = caForeign

\* The types that the steps below start from.
LEMMA CATypes ==
  ASSUME CAInv, NEW a \in CAAttempts
  PROVE  CATyped(a)
<1>1. CAMaxCollections \in Nat /\ CAMaxFaults \in Nat
  BY CAAssumption
<1>2. CAIdle \in CAWorks
  BY <1>1 DEF CAIdle, CAWorks, CAPcs
<1> QED BY <1>1, <1>2 DEF CATyped, CAInv, CATypeOK

\* A reservation, new or found, keeps the invariant.
LEMMA CAAcquireKeeps ==
  ASSUME CAInv, NEW a \in CAAttempts, CAAcquire(a)
  PROVE  CAInv'
<1> USE DEF CATyped, CASetTo, CARestKept, CAAt, CATo, CAEnd, CAKeepEvidence, CAKeepRest, CAIdle
<1>1. CATyped(a)
  BY CATypes
<1>2. CASE caRes[a] = "none" /\ CAFits(a) /\ caRes' = [caRes EXCEPT ![a] = "prefix"] /\ caCapacity' = a /\ caWork' = [caWork EXCEPT ![a] = [CAIdle EXCEPT !.pc = "inspect", !.created = TRUE]]
  <2> DEFINE r == "prefix"  w == [CAIdle EXCEPT !.pc = "inspect", !.created = TRUE]  b == caBundle[a]  e == caEvent[a]  s == caAnswers[a]
  <2>1. CASetTo(a, r, w, b, e, s)
    BY <1>1, <1>2 DEF CAAcquire, CAWorks, CAPcs, CAEvidence
  <2>2. CARestKept
    BY <1>1, <1>2 DEF CAAcquire
  <2>3. caRes'[a] = r /\ caWork'[a] = w /\ caBundle'[a] = b /\ caEvent'[a] = e /\ caAnswers'[a] = s
    BY <1>1, <2>1
  <2>4. CAEvidence(a)'
    BY <1>1, <1>2, <2>2, <2>3 DEF CAEvidence, CAWorks, CAAcquire
  <2>6. CALimits'
    BY <1>2, <2>1, CAReservationFits
  <2> HIDE DEF r, w, b, e, s
  <2> QED BY <2>1, <2>2, <2>4, <2>6, CAStepKeeps
<1>3. CASE caRes[a] = "prefix" /\ caCapacity' = a /\ CATo(a, "inspect") /\ UNCHANGED caRes
  <2> DEFINE r == caRes[a]  w == [caWork[a] EXCEPT !.pc = "inspect"]  b == caBundle[a]  e == caEvent[a]  s == caAnswers[a]
  <2>1. CASetTo(a, r, w, b, e, s)
    BY <1>1, <1>3 DEF CAAcquire, CAWorks, CAPcs, CAEvidence
  <2>2. CARestKept
    BY <1>1, <1>3 DEF CAAcquire
  <2>3. caRes'[a] = r /\ caWork'[a] = w /\ caBundle'[a] = b /\ caEvent'[a] = e /\ caAnswers'[a] = s
    BY <1>1, <2>1
  <2>4. CAEvidence(a)'
    BY <1>1, <1>3, <2>2, <2>3 DEF CAEvidence, CAWorks, CAAcquire
  <2>5. \A c \in CAAttempts : (caRes'[c] # "none") = (caRes[c] # "none")
    BY <1>1, <1>3, <2>1 DEF CAAcquire, CAEvidence
  <2>6. CALimits'
    BY <2>5, CALimitsKept
  <2> HIDE DEF r, w, b, e, s
  <2> QED BY <2>1, <2>2, <2>4, <2>6, CAStepKeeps
<1>4. CASE caRes[a] = "whole" /\ CATo(a, "find") /\ UNCHANGED <<caRes, caCapacity>>
  <2> DEFINE r == caRes[a]  w == [caWork[a] EXCEPT !.pc = "find"]  b == caBundle[a]  e == caEvent[a]  s == caAnswers[a]
  <2>1. CASetTo(a, r, w, b, e, s)
    BY <1>1, <1>4 DEF CAAcquire, CAWorks, CAPcs, CAEvidence
  <2>2. CARestKept
    BY <1>1, <1>4 DEF CAAcquire
  <2>3. caRes'[a] = r /\ caWork'[a] = w /\ caBundle'[a] = b /\ caEvent'[a] = e /\ caAnswers'[a] = s
    BY <1>1, <2>1
  <2>4. CAEvidence(a)'
    BY <1>1, <1>4, <2>2, <2>3 DEF CAEvidence, CAWorks, CAAcquire
  <2>5. \A c \in CAAttempts : (caRes'[c] # "none") = (caRes[c] # "none")
    BY <1>1, <1>4, <2>1 DEF CAAcquire, CAEvidence
  <2>6. CALimits'
    BY <2>5, CALimitsKept
  <2> HIDE DEF r, w, b, e, s
  <2> QED BY <2>1, <2>2, <2>4, <2>6, CAStepKeeps
<1> QED BY <1>1, <1>2, <1>3, <1>4 DEF CAAcquire

\* Looking for evidence that is older than the reservation keeps the invariant.
LEMMA CAInspectKeeps ==
  ASSUME CAInv, NEW a \in CAAttempts, CAInspect(a)
  PROVE  CAInv'
<1> USE DEF CATyped, CASetTo, CARestKept, CAAt, CATo, CAEnd, CAKeepEvidence, CAKeepRest, CAIdle
<1>1. CATyped(a)
  BY CATypes
<1>2. CASE caTorn
  <2> DEFINE r == caRes[a]  w == CAIdle  b == caBundle[a]  e == caEvent[a]  s == caAnswers[a]
  <2>1. CASetTo(a, r, w, b, e, s)
    BY <1>1, <1>2 DEF CAInspect, CAPoison, CAWorks, CAPcs, CAEvidence
  <2>2. CARestKept
    BY <1>1, <1>2 DEF CAInspect, CAPoison
  <2>3. caRes'[a] = r /\ caWork'[a] = w /\ caBundle'[a] = b /\ caEvent'[a] = e /\ caAnswers'[a] = s
    BY <1>1, <2>1
  <2>4. CAEvidence(a)'
    BY <1>1, <1>2, <2>2, <2>3 DEF CAEvidence, CAWorks, CAInspect, CAPoison
  <2>5. \A c \in CAAttempts : (caRes'[c] # "none") = (caRes[c] # "none")
    BY <1>1, <1>2, <2>1 DEF CAInspect, CAPoison, CAEvidence
  <2>6. CALimits'
    BY <2>5, CALimitsKept
  <2> HIDE DEF r, w, b, e, s
  <2> QED BY <2>1, <2>2, <2>4, <2>6, CAStepKeeps
<1>3. CASE ~caTorn /\ (caEvent[a] # 0 \/ caBundle[a] # 0)
  <2> DEFINE r == "poisoned"  w == CAIdle  b == caBundle[a]  e == caEvent[a]  s == caAnswers[a]
  <2>1. CASetTo(a, r, w, b, e, s)
    BY <1>1, <1>3 DEF CAInspect, CAPoison, CAWorks, CAPcs, CAEvidence
  <2>2. CARestKept
    BY <1>1, <1>3 DEF CAInspect, CAPoison
  <2>3. caRes'[a] = r /\ caWork'[a] = w /\ caBundle'[a] = b /\ caEvent'[a] = e /\ caAnswers'[a] = s
    BY <1>1, <2>1
  <2>4. CAEvidence(a)'
    BY <1>1, <1>3, <2>2, <2>3 DEF CAEvidence, CAWorks, CAInspect, CAPoison
  <2>5. \A c \in CAAttempts : (caRes'[c] # "none") = (caRes[c] # "none")
    BY <1>1, <1>3, <2>1 DEF CAInspect, CAPoison, CAEvidence
  <2>6. CALimits'
    BY <2>5, CALimitsKept
  <2> HIDE DEF r, w, b, e, s
  <2> QED BY <2>1, <2>2, <2>4, <2>6, CAStepKeeps
<1>4. CASE ~caTorn /\ ~(caEvent[a] # 0 \/ caBundle[a] # 0)
  <2> DEFINE r == caRes[a]  w == [caWork[a] EXCEPT !.pc = "repair"]  b == caBundle[a]  e == caEvent[a]  s == caAnswers[a]
  <2>1. CASetTo(a, r, w, b, e, s)
    BY <1>1, <1>4 DEF CAInspect, CAPoison, CAWorks, CAPcs, CAEvidence
  <2>2. CARestKept
    BY <1>1, <1>4 DEF CAInspect, CAPoison
  <2>3. caRes'[a] = r /\ caWork'[a] = w /\ caBundle'[a] = b /\ caEvent'[a] = e /\ caAnswers'[a] = s
    BY <1>1, <2>1
  <2>4. CAEvidence(a)'
    BY <1>1, <1>4, <2>2, <2>3 DEF CAEvidence, CAWorks, CAInspect, CAPoison
  <2>5. \A c \in CAAttempts : (caRes'[c] # "none") = (caRes[c] # "none")
    BY <1>1, <1>4, <2>1 DEF CAInspect, CAPoison, CAEvidence
  <2>6. CALimits'
    BY <2>5, CALimitsKept
  <2> HIDE DEF r, w, b, e, s
  <2> QED BY <2>1, <2>2, <2>4, <2>6, CAStepKeeps
<1> QED BY <1>1, <1>2, <1>3, <1>4 DEF CAInspect, CAPoison

\* The reservation made whole keeps the invariant.
LEMMA CARepairKeeps ==
  ASSUME CAInv, NEW a \in CAAttempts, CARepair(a)
  PROVE  CAInv'
<1> USE DEF CATyped, CASetTo, CARestKept, CAAt, CATo, CAEnd, CAKeepEvidence, CAKeepRest, CAIdle
<1>1. CATyped(a)
  BY CATypes
<1>2. CASE TRUE
  <2> DEFINE r == "whole"  w == [caWork[a] EXCEPT !.pc = "find"]  b == caBundle[a]  e == caEvent[a]  s == caAnswers[a]
  <2>1. CASetTo(a, r, w, b, e, s)
    BY <1>1, <1>2 DEF CARepair, CAWorks, CAPcs, CAEvidence
  <2>2. CARestKept
    BY <1>1, <1>2 DEF CARepair
  <2>3. caRes'[a] = r /\ caWork'[a] = w /\ caBundle'[a] = b /\ caEvent'[a] = e /\ caAnswers'[a] = s
    BY <1>1, <2>1
  <2>4. CAEvidence(a)'
    BY <1>1, <1>2, <2>2, <2>3 DEF CAEvidence, CAWorks, CARepair
  <2>5. \A c \in CAAttempts : (caRes'[c] # "none") = (caRes[c] # "none")
    BY <1>1, <1>2, <2>1 DEF CARepair, CAEvidence
  <2>6. CALimits'
    BY <2>5, CALimitsKept
  <2> HIDE DEF r, w, b, e, s
  <2> QED BY <2>1, <2>2, <2>4, <2>6, CAStepKeeps
<1> QED BY <1>1, <1>2 DEF CARepair

\* The search for what is there keeps the invariant.
LEMMA CAFindKeeps ==
  ASSUME CAInv, NEW a \in CAAttempts, CAFind(a)
  PROVE  CAInv'
<1> USE DEF CATyped, CASetTo, CARestKept, CAAt, CATo, CAEnd, CAKeepEvidence, CAKeepRest, CAIdle
<1>1. CATyped(a)
  BY CATypes
<1>2. CASE CATo(a, "end")
  <2> DEFINE r == caRes[a]  w == [caWork[a] EXCEPT !.pc = "end"]  b == caBundle[a]  e == caEvent[a]  s == caAnswers[a]
  <2>1. CASetTo(a, r, w, b, e, s)
    BY <1>1, <1>2 DEF CAFind, CAExisting, CAWorks, CAPcs, CAEvidence
  <2>2. CARestKept
    BY <1>1, <1>2 DEF CAFind, CAExisting
  <2>3. caRes'[a] = r /\ caWork'[a] = w /\ caBundle'[a] = b /\ caEvent'[a] = e /\ caAnswers'[a] = s
    BY <1>1, <2>1
  <2>4. CAEvidence(a)'
    BY <1>1, <1>2, <2>2, <2>3 DEF CAEvidence, CAWorks, CAFind, CAExisting
  <2>5. \A c \in CAAttempts : (caRes'[c] # "none") = (caRes[c] # "none")
    BY <1>1, <1>2, <2>1 DEF CAFind, CAExisting, CAEvidence
  <2>6. CALimits'
    BY <2>5, CALimitsKept
  <2> HIDE DEF r, w, b, e, s
  <2> QED BY <2>1, <2>2, <2>4, <2>6, CAStepKeeps
<1>3. CASE caEvent[a] # 0 /\ CAExisting(a) = caEvent[a] /\ CATo(a, "replay")
  <2> DEFINE r == caRes[a]  w == [caWork[a] EXCEPT !.pc = "replay"]  b == caBundle[a]  e == caEvent[a]  s == caAnswers[a]
  <2>1. CASetTo(a, r, w, b, e, s)
    BY <1>1, <1>3 DEF CAFind, CAExisting, CAWorks, CAPcs, CAEvidence
  <2>2. CARestKept
    BY <1>1, <1>3 DEF CAFind, CAExisting
  <2>3. caRes'[a] = r /\ caWork'[a] = w /\ caBundle'[a] = b /\ caEvent'[a] = e /\ caAnswers'[a] = s
    BY <1>1, <2>1
  <2>4. CAEvidence(a)'
    BY <1>1, <1>3, <2>2, <2>3 DEF CAEvidence, CAWorks, CAFind, CAExisting
  <2>5. \A c \in CAAttempts : (caRes'[c] # "none") = (caRes[c] # "none")
    BY <1>1, <1>3, <2>1 DEF CAFind, CAExisting, CAEvidence
  <2>6. CALimits'
    BY <2>5, CALimitsKept
  <2> HIDE DEF r, w, b, e, s
  <2> QED BY <2>1, <2>2, <2>4, <2>6, CAStepKeeps
<1>4. CASE CAExisting(a) # 0 /\ caWork' = [caWork EXCEPT ![a].pc = "complete", ![a].got = CAExisting(a)]
  <2> DEFINE r == caRes[a]  w == [caWork[a] EXCEPT !.pc = "complete", !.got = caBundle[a]]  b == caBundle[a]  e == caEvent[a]  s == caAnswers[a]
  <2>1. CASetTo(a, r, w, b, e, s)
    BY <1>1, <1>4 DEF CAFind, CAExisting, CAWorks, CAPcs, CAEvidence
  <2>2. CARestKept
    BY <1>1, <1>4 DEF CAFind, CAExisting
  <2>3. caRes'[a] = r /\ caWork'[a] = w /\ caBundle'[a] = b /\ caEvent'[a] = e /\ caAnswers'[a] = s
    BY <1>1, <2>1
  <2>4. CAEvidence(a)'
    BY <1>1, <1>4, <2>2, <2>3 DEF CAEvidence, CAWorks, CAFind, CAExisting
  <2>5. \A c \in CAAttempts : (caRes'[c] # "none") = (caRes[c] # "none")
    BY <1>1, <1>4, <2>1 DEF CAFind, CAExisting, CAEvidence
  <2>6. CALimits'
    BY <2>5, CALimitsKept
  <2> HIDE DEF r, w, b, e, s
  <2> QED BY <2>1, <2>2, <2>4, <2>6, CAStepKeeps
<1>5. CASE CATo(a, "collect")
  <2> DEFINE r == caRes[a]  w == [caWork[a] EXCEPT !.pc = "collect"]  b == caBundle[a]  e == caEvent[a]  s == caAnswers[a]
  <2>1. CASetTo(a, r, w, b, e, s)
    BY <1>1, <1>5 DEF CAFind, CAExisting, CAWorks, CAPcs, CAEvidence
  <2>2. CARestKept
    BY <1>1, <1>5 DEF CAFind, CAExisting
  <2>3. caRes'[a] = r /\ caWork'[a] = w /\ caBundle'[a] = b /\ caEvent'[a] = e /\ caAnswers'[a] = s
    BY <1>1, <2>1
  <2>4. CAEvidence(a)'
    BY <1>1, <1>5, <2>2, <2>3 DEF CAEvidence, CAWorks, CAFind, CAExisting
  <2>5. \A c \in CAAttempts : (caRes'[c] # "none") = (caRes[c] # "none")
    BY <1>1, <1>5, <2>1 DEF CAFind, CAExisting, CAEvidence
  <2>6. CALimits'
    BY <2>5, CALimitsKept
  <2> HIDE DEF r, w, b, e, s
  <2> QED BY <2>1, <2>2, <2>4, <2>6, CAStepKeeps
<1> QED BY <1>1, <1>2, <1>3, <1>4, <1>5 DEF CAFind, CAExisting

\* A replay answers what was answered.
LEMMA CAReplayKeeps ==
  ASSUME CAInv, NEW a \in CAAttempts, CAReplay(a)
  PROVE  CAInv'
<1> USE DEF CATyped, CASetTo, CARestKept, CAAt, CATo, CAEnd, CAKeepEvidence, CAKeepRest, CAIdle
<1>1. CATyped(a)
  BY CATypes
<1>2. CASE TRUE
  <2> DEFINE r == caRes[a]  w == CAIdle  b == caBundle[a]  e == caEvent[a]  s == caAnswers[a] \cup {caBundle[a]}
  <2>1. CASetTo(a, r, w, b, e, s)
    BY <1>1, <1>2 DEF CAReplay, CAWorks, CAPcs, CAEvidence
  <2>2. CARestKept
    BY <1>1, <1>2 DEF CAReplay
  <2>3. caRes'[a] = r /\ caWork'[a] = w /\ caBundle'[a] = b /\ caEvent'[a] = e /\ caAnswers'[a] = s
    BY <1>1, <2>1
  <2>4. CAEvidence(a)'
    BY <1>1, <1>2, <2>2, <2>3 DEF CAEvidence, CAWorks, CAReplay
  <2>5. \A c \in CAAttempts : (caRes'[c] # "none") = (caRes[c] # "none")
    BY <1>1, <1>2, <2>1 DEF CAReplay, CAEvidence
  <2>6. CALimits'
    BY <2>5, CALimitsKept
  <2> HIDE DEF r, w, b, e, s
  <2> QED BY <2>1, <2>2, <2>4, <2>6, CAStepKeeps
<1> QED BY <1>1, <1>2 DEF CAReplay

\* A collection has a bundle of its own.
LEMMA CACollectKeeps ==
  ASSUME CAInv, NEW a \in CAAttempts, CACollect(a)
  PROVE  CAInv'
<1> USE DEF CATyped, CASetTo, CARestKept, CAAt, CATo, CAEnd, CAKeepEvidence, CAKeepRest, CAIdle
<1>1. CATyped(a)
  BY CATypes
<1>2. CASE TRUE
  <2> DEFINE r == caRes[a]  w == [caWork[a] EXCEPT !.pc = "publish", !.got = caNext]  b == caBundle[a]  e == caEvent[a]  s == caAnswers[a]
  <2>1. CASetTo(a, r, w, b, e, s)
    <3>1. caNext <= CAMaxCollections /\ caNext \in 0..CAMaxCollections
      BY <1>1 DEF CACollect
    <3>2. w \in CAWorks
      <4>1. caWork[a] \in CAWorks /\ "publish" \in CAPcs
        BY <1>1 DEF CAPcs
      <4> QED BY <3>1, <4>1 DEF CAWorks
    <3>3. caWork' = [caWork EXCEPT ![a] = w] /\ caRes' = [caRes EXCEPT ![a] = r] /\ caBundle' = [caBundle EXCEPT ![a] = b]
          /\ caEvent' = [caEvent EXCEPT ![a] = e] /\ caAnswers' = [caAnswers EXCEPT ![a] = s]
      BY <1>1 DEF CACollect
    <3> QED BY <1>1, <3>2, <3>3
  <2>2. caTorn' \in BOOLEAN /\ caCapacity' \in CAAttempts \cup {"free"} /\ caFaults' \in 0..CAMaxFaults /\ caNext <= CAMaxCollections /\ caNext' = caNext + 1 /\ caForeign' = caForeign
    BY <1>1, <1>2 DEF CACollect
  <2>3. caRes'[a] = r /\ caWork'[a] = w /\ caBundle'[a] = b /\ caEvent'[a] = e /\ caAnswers'[a] = s
    BY <1>1, <2>1
  <2>4. CAEvidence(a)'
    BY <1>1, <1>2, <2>2, <2>3 DEF CAEvidence, CAWorks, CACollect
  <2>5. \A c \in CAAttempts : (caRes'[c] # "none") = (caRes[c] # "none")
    BY <1>1, <1>2, <2>1 DEF CACollect, CAEvidence
  <2>6. CALimits'
    BY <2>5, CALimitsKept
  <2> HIDE DEF r, w, b, e, s
  <2> QED BY <2>1, <2>2, <2>4, <2>6, CAStepKeeps
<1> QED BY <1>1, <1>2 DEF CACollect

\* A call without an answer keeps the invariant.
LEMMA CANoBundleKeeps ==
  ASSUME CAInv, NEW a \in CAAttempts, CANoBundle(a)
  PROVE  CAInv'
<1> USE DEF CATyped, CASetTo, CARestKept, CAAt, CATo, CAEnd, CAKeepEvidence, CAKeepRest, CAIdle
<1>1. CATyped(a)
  BY CATypes
<1>2. CASE TRUE
  <2> DEFINE r == caRes[a]  w == CAIdle  b == caBundle[a]  e == caEvent[a]  s == caAnswers[a]
  <2>1. CASetTo(a, r, w, b, e, s)
    BY <1>1, <1>2 DEF CANoBundle, CAWorks, CAPcs, CAEvidence
  <2>2. CARestKept
    BY <1>1, <1>2 DEF CANoBundle
  <2>3. caRes'[a] = r /\ caWork'[a] = w /\ caBundle'[a] = b /\ caEvent'[a] = e /\ caAnswers'[a] = s
    BY <1>1, <2>1
  <2>4. CAEvidence(a)'
    BY <1>1, <1>2, <2>2, <2>3 DEF CAEvidence, CAWorks, CANoBundle
  <2>5. \A c \in CAAttempts : (caRes'[c] # "none") = (caRes[c] # "none")
    BY <1>1, <1>2, <2>1 DEF CANoBundle, CAEvidence
  <2>6. CALimits'
    BY <2>5, CALimitsKept
  <2> HIDE DEF r, w, b, e, s
  <2> QED BY <2>1, <2>2, <2>4, <2>6, CAStepKeeps
<1> QED BY <1>1, <1>2 DEF CANoBundle

\* The bundle that is published is the first one.
LEMMA CAPublishKeeps ==
  ASSUME CAInv, NEW a \in CAAttempts, CAPublish(a)
  PROVE  CAInv'
<1> USE DEF CATyped, CASetTo, CARestKept, CAAt, CATo, CAEnd, CAKeepEvidence, CAKeepRest, CAIdle
<1>1. CATyped(a)
  BY CATypes
<1>2. CASE caBundle[a] = 0
  <2> DEFINE r == caRes[a]  w == [caWork[a] EXCEPT !.pc = "complete"]  b == caWork[a].got  e == caEvent[a]  s == caAnswers[a]
  <2>1. CASetTo(a, r, w, b, e, s)
    BY <1>1, <1>2 DEF CAPublish, CAWorks, CAPcs, CAEvidence
  <2>2. CARestKept
    BY <1>1, <1>2 DEF CAPublish
  <2>3. caRes'[a] = r /\ caWork'[a] = w /\ caBundle'[a] = b /\ caEvent'[a] = e /\ caAnswers'[a] = s
    BY <1>1, <2>1
  <2>4. CAEvidence(a)'
    BY <1>1, <1>2, <2>2, <2>3 DEF CAEvidence, CAWorks, CAPublish
  <2>5. \A c \in CAAttempts : (caRes'[c] # "none") = (caRes[c] # "none")
    BY <1>1, <1>2, <2>1 DEF CAPublish, CAEvidence
  <2>6. CALimits'
    BY <2>5, CALimitsKept
  <2> HIDE DEF r, w, b, e, s
  <2> QED BY <2>1, <2>2, <2>4, <2>6, CAStepKeeps
<1>3. CASE caBundle[a] # 0
  <2> DEFINE r == caRes[a]  w == CAIdle  b == caBundle[a]  e == caEvent[a]  s == caAnswers[a]
  <2>1. CASetTo(a, r, w, b, e, s)
    BY <1>1, <1>3 DEF CAPublish, CAWorks, CAPcs, CAEvidence
  <2>2. CARestKept
    BY <1>1, <1>3 DEF CAPublish
  <2>3. caRes'[a] = r /\ caWork'[a] = w /\ caBundle'[a] = b /\ caEvent'[a] = e /\ caAnswers'[a] = s
    BY <1>1, <2>1
  <2>4. CAEvidence(a)'
    BY <1>1, <1>3, <2>2, <2>3 DEF CAEvidence, CAWorks, CAPublish
  <2>5. \A c \in CAAttempts : (caRes'[c] # "none") = (caRes[c] # "none")
    BY <1>1, <1>3, <2>1 DEF CAPublish, CAEvidence
  <2>6. CALimits'
    BY <2>5, CALimitsKept
  <2> HIDE DEF r, w, b, e, s
  <2> QED BY <2>1, <2>2, <2>4, <2>6, CAStepKeeps
<1> QED BY <1>1, <1>2, <1>3 DEF CAPublish

\* The event names the bundle that is published.
LEMMA CACompleteKeeps ==
  ASSUME CAInv, NEW a \in CAAttempts, CAComplete(a)
  PROVE  CAInv'
<1> USE DEF CATyped, CASetTo, CARestKept, CAAt, CATo, CAEnd, CAKeepEvidence, CAKeepRest, CAIdle
<1>1. CATyped(a)
  BY CATypes
<1>2. CASE caTorn \/ caEvent[a] \notin {0, caWork[a].got}
  <2> DEFINE r == caRes[a]  w == CAIdle  b == caBundle[a]  e == caEvent[a]  s == caAnswers[a]
  <2>1. CASetTo(a, r, w, b, e, s)
    BY <1>1, <1>2 DEF CAComplete, CAWorks, CAPcs, CAEvidence
  <2>2. CARestKept
    BY <1>1, <1>2 DEF CAComplete
  <2>3. caRes'[a] = r /\ caWork'[a] = w /\ caBundle'[a] = b /\ caEvent'[a] = e /\ caAnswers'[a] = s
    BY <1>1, <2>1
  <2>4. CAEvidence(a)'
    BY <1>1, <1>2, <2>2, <2>3 DEF CAEvidence, CAWorks, CAComplete
  <2>5. \A c \in CAAttempts : (caRes'[c] # "none") = (caRes[c] # "none")
    BY <1>1, <1>2, <2>1 DEF CAComplete, CAEvidence
  <2>6. CALimits'
    BY <2>5, CALimitsKept
  <2> HIDE DEF r, w, b, e, s
  <2> QED BY <2>1, <2>2, <2>4, <2>6, CAStepKeeps
<1>3. CASE ~(caTorn \/ caEvent[a] \notin {0, caWork[a].got})
  <2> DEFINE r == caRes[a]  w == CAIdle  b == caBundle[a]  e == caWork[a].got  s == caAnswers[a] \cup {caWork[a].got}
  <2>1. CASetTo(a, r, w, b, e, s)
    BY <1>1, <1>3 DEF CAComplete, CAWorks, CAPcs, CAEvidence
  <2>2. CARestKept
    BY <1>1, <1>3 DEF CAComplete
  <2>3. caRes'[a] = r /\ caWork'[a] = w /\ caBundle'[a] = b /\ caEvent'[a] = e /\ caAnswers'[a] = s
    BY <1>1, <2>1
  <2>4. CAEvidence(a)'
    BY <1>1, <1>3, <2>2, <2>3 DEF CAEvidence, CAWorks, CAComplete
  <2>5. \A c \in CAAttempts : (caRes'[c] # "none") = (caRes[c] # "none")
    BY <1>1, <1>3, <2>1 DEF CAComplete, CAEvidence
  <2>6. CALimits'
    BY <2>5, CALimitsKept
  <2> HIDE DEF r, w, b, e, s
  <2> QED BY <2>1, <2>2, <2>4, <2>6, CAStepKeeps
<1> QED BY <1>1, <1>2, <1>3 DEF CAComplete

\* An event whose append is not known to have failed keeps the invariant.
LEMMA CACompleteFailsKeeps ==
  ASSUME CAInv, NEW a \in CAAttempts, CACompleteFails(a)
  PROVE  CAInv'
<1> USE DEF CATyped, CASetTo, CARestKept, CAAt, CATo, CAEnd, CAKeepEvidence, CAKeepRest, CAIdle
<1>1. CATyped(a)
  BY CATypes
<1>2. CASE caEvent' = [caEvent EXCEPT ![a] = IF caTorn THEN @ ELSE caWork[a].got]
  <2> DEFINE r == caRes[a]  w == CAIdle  b == caBundle[a]  e == IF caTorn THEN caEvent[a] ELSE caWork[a].got  s == caAnswers[a]
  <2>1. CASetTo(a, r, w, b, e, s)
    BY <1>1, <1>2 DEF CACompleteFails, CAWorks, CAPcs, CAEvidence
  <2>2. CARestKept
    BY <1>1, <1>2 DEF CACompleteFails
  <2>3. caRes'[a] = r /\ caWork'[a] = w /\ caBundle'[a] = b /\ caEvent'[a] = e /\ caAnswers'[a] = s
    BY <1>1, <2>1
  <2>4. CAEvidence(a)'
    BY <1>1, <1>2, <2>2, <2>3 DEF CAEvidence, CAWorks, CACompleteFails
  <2>5. \A c \in CAAttempts : (caRes'[c] # "none") = (caRes[c] # "none")
    BY <1>1, <1>2, <2>1 DEF CACompleteFails, CAEvidence
  <2>6. CALimits'
    BY <2>5, CALimitsKept
  <2> HIDE DEF r, w, b, e, s
  <2> QED BY <2>1, <2>2, <2>4, <2>6, CAStepKeeps
<1>3. CASE UNCHANGED caEvent
  <2> DEFINE r == caRes[a]  w == CAIdle  b == caBundle[a]  e == caEvent[a]  s == caAnswers[a]
  <2>1. CASetTo(a, r, w, b, e, s)
    BY <1>1, <1>3 DEF CACompleteFails, CAWorks, CAPcs, CAEvidence
  <2>2. CARestKept
    BY <1>1, <1>3 DEF CACompleteFails
  <2>3. caRes'[a] = r /\ caWork'[a] = w /\ caBundle'[a] = b /\ caEvent'[a] = e /\ caAnswers'[a] = s
    BY <1>1, <2>1
  <2>4. CAEvidence(a)'
    BY <1>1, <1>3, <2>2, <2>3 DEF CAEvidence, CAWorks, CACompleteFails
  <2>5. \A c \in CAAttempts : (caRes'[c] # "none") = (caRes[c] # "none")
    BY <1>1, <1>3, <2>1 DEF CACompleteFails, CAEvidence
  <2>6. CALimits'
    BY <2>5, CALimitsKept
  <2> HIDE DEF r, w, b, e, s
  <2> QED BY <2>1, <2>2, <2>4, <2>6, CAStepKeeps
<1> QED BY <1>1, <1>2, <1>3 DEF CACompleteFails

\* The death of a call keeps the invariant.
LEMMA CADieKeeps ==
  ASSUME CAInv, NEW a \in CAAttempts, CADie(a)
  PROVE  CAInv'
<1> USE DEF CATyped, CASetTo, CARestKept, CAAt, CATo, CAEnd, CAKeepEvidence, CAKeepRest, CAIdle
<1>1. CATyped(a)
  BY CATypes
<1>2. CASE TRUE
  <2> DEFINE r == caRes[a]  w == CAIdle  b == caBundle[a]  e == caEvent[a]  s == caAnswers[a]
  <2>1. CASetTo(a, r, w, b, e, s)
    BY <1>1, <1>2 DEF CADie, CAWorks, CAPcs, CAEvidence
  <2>2. CARestKept
    <3>1. caTorn' = caTorn \/ caTorn' = TRUE
      BY DEF CADie
    <3>2. caTorn' \in BOOLEAN
      BY <1>1, <3>1
    <3>3. caFaults' \in 0..CAMaxFaults
      BY <1>1 DEF CADie
    <3>4. caCapacity' \in CAAttempts \cup {"free"} /\ caNext' = caNext /\ caForeign' = caForeign
      BY <1>1 DEF CADie
    <3> QED BY <3>2, <3>3, <3>4
  <2>3. caRes'[a] = r /\ caWork'[a] = w /\ caBundle'[a] = b /\ caEvent'[a] = e /\ caAnswers'[a] = s
    BY <1>1, <2>1
  <2>4. CAEvidence(a)'
    BY <1>1, <1>2, <2>2, <2>3 DEF CAEvidence, CAWorks, CADie
  <2>5. \A c \in CAAttempts : (caRes'[c] # "none") = (caRes[c] # "none")
    BY <1>1, <1>2, <2>1 DEF CADie, CAEvidence
  <2>6. CALimits'
    BY <2>5, CALimitsKept
  <2> HIDE DEF r, w, b, e, s
  <2> QED BY <2>1, <2>2, <2>4, <2>6, CAStepKeeps
<1> QED BY <1>1, <1>2 DEF CADie

\* Evidence that is there before the reservation keeps the invariant.
LEMMA CAPlantKeeps ==
  ASSUME CAInv, NEW a \in CAAttempts, CAPlant(a)
  PROVE  CAInv'
<1> USE DEF CATyped, CASetTo, CARestKept, CAAt, CATo, CAEnd, CAKeepEvidence, CAKeepRest, CAIdle
<1>1. CATyped(a)
  BY CATypes
<1>2. CASE caEvent' = [caEvent EXCEPT ![a] = caNext]
  <2> DEFINE r == caRes[a]  w == caWork[a]  b == caNext  e == caNext  s == caAnswers[a]
  <2>1. CASetTo(a, r, w, b, e, s)
    BY <1>1, <1>2 DEF CAPlant, CAWorks, CAPcs, CAEvidence
  <2>2. caTorn' \in BOOLEAN /\ caCapacity' \in CAAttempts \cup {"free"} /\ caFaults' \in 0..CAMaxFaults /\ caNext <= CAMaxCollections /\ caNext' = caNext + 1 /\ caForeign' = caForeign \cup {caNext}
    BY <1>1, <1>2 DEF CAPlant
  <2>3. caRes'[a] = r /\ caWork'[a] = w /\ caBundle'[a] = b /\ caEvent'[a] = e /\ caAnswers'[a] = s
    BY <1>1, <2>1
  <2>4. CAEvidence(a)'
    BY <1>1, <1>2, <2>2, <2>3 DEF CAEvidence, CAWorks, CAPlant
  <2>5. \A c \in CAAttempts : (caRes'[c] # "none") = (caRes[c] # "none")
    BY <1>1, <1>2, <2>1 DEF CAPlant, CAEvidence
  <2>6. CALimits'
    BY <2>5, CALimitsKept
  <2> HIDE DEF r, w, b, e, s
  <2> QED BY <2>1, <2>2, <2>4, <2>6, CAStepKeeps
<1>3. CASE UNCHANGED caEvent
  <2> DEFINE r == caRes[a]  w == caWork[a]  b == caNext  e == caEvent[a]  s == caAnswers[a]
  <2>1. CASetTo(a, r, w, b, e, s)
    BY <1>1, <1>3 DEF CAPlant, CAWorks, CAPcs, CAEvidence
  <2>2. caTorn' \in BOOLEAN /\ caCapacity' \in CAAttempts \cup {"free"} /\ caFaults' \in 0..CAMaxFaults /\ caNext <= CAMaxCollections /\ caNext' = caNext + 1 /\ caForeign' = caForeign \cup {caNext}
    BY <1>1, <1>3 DEF CAPlant
  <2>3. caRes'[a] = r /\ caWork'[a] = w /\ caBundle'[a] = b /\ caEvent'[a] = e /\ caAnswers'[a] = s
    BY <1>1, <2>1
  <2>4. CAEvidence(a)'
    BY <1>1, <1>3, <2>2, <2>3 DEF CAEvidence, CAWorks, CAPlant
  <2>5. \A c \in CAAttempts : (caRes'[c] # "none") = (caRes[c] # "none")
    BY <1>1, <1>3, <2>1 DEF CAPlant, CAEvidence
  <2>6. CALimits'
    BY <2>5, CALimitsKept
  <2> HIDE DEF r, w, b, e, s
  <2> QED BY <2>1, <2>2, <2>4, <2>6, CAStepKeeps
<1> QED BY <1>1, <1>2, <1>3 DEF CAPlant

\* The invariant holds at the start.
LEMMA CAStart == CAInit => CAInv
<1> SUFFICES ASSUME CAInit  PROVE CAInv
  OBVIOUS
<1>1. {CAMaxPerRun, CAMaxGlobal, CAMaxCollections, CAMaxFaults} \subseteq Nat
  BY CAAssumption
<1>2. CATypeOK /\ caWork \in [CAAttempts -> CAWorks] /\ caAnswers \in [CAAttempts -> SUBSET (1..CAMaxCollections)]
  <2>1. 0 \in 0..CAMaxCollections /\ 0 \in 0..CAMaxFaults /\ 1 \in 1..(CAMaxCollections + 1)
    BY <1>1
  <2>2. CAIdle \in CAWorks
    BY <2>1 DEF CAIdle, CAWorks, CAPcs
  <2>3. caWork \in [CAAttempts -> CAWorks] /\ caAnswers \in [CAAttempts -> SUBSET (1..CAMaxCollections)]
    BY <2>2 DEF CAInit
  <2>4. caRes \in [CAAttempts -> {"none", "prefix", "whole", "poisoned"}] /\ caTorn \in BOOLEAN
    BY DEF CAInit
  <2>5. caBundle \in [CAAttempts -> 0..CAMaxCollections] /\ caEvent \in [CAAttempts -> 0..CAMaxCollections]
    BY <2>1 DEF CAInit
  <2>6. caCapacity \in CAAttempts \cup {"free"} /\ caNext \in 1..(CAMaxCollections + 1) /\ caFaults \in 0..CAMaxFaults
    BY <2>1 DEF CAInit
  <2> QED BY <2>3, <2>4, <2>5, <2>6 DEF CATypeOK
<1>3. \A a \in CAAttempts : CAEvidence(a)
  BY DEF CAInit, CAEvidence, CAIdle
<1>4. CATotal = {} /\ \A run : CAOf(run) = {}
  BY DEF CAInit, CATotal, CAOf
<1>5. CALimits
  BY <1>1, <1>4, FS_EmptySet DEF CALimits
<1> QED BY <1>2, <1>3, <1>5 DEF CAInit, CAInv

\* Every step keeps the invariant.
LEMMA CAEveryStep == CAInv /\ [CANext]_caVars => CAInv'
<1> SUFFICES ASSUME CAInv, [CANext]_caVars  PROVE CAInv'
  OBVIOUS
<1>1. CASE UNCHANGED caVars
  <2>1. UNCHANGED <<caRes, caBundle, caEvent, caTorn, caWork, caCapacity, caAnswers, caForeign, caNext, caFaults>>
    BY <1>1 DEF caVars
  <2>2. CALimits'
    BY <2>1, CALimitsKept
  <2> QED BY <2>1, <2>2 DEF CAInv, CATypeOK, CAEvidence
<1>2. CASE CANext
  <2>1. PICK a \in CAAttempts : CAStep(a)
    BY <1>2 DEF CANext
  <2> QED BY <2>1, CAAcquireKeeps, CAInspectKeeps, CARepairKeeps, CAFindKeeps, CAReplayKeeps, CACollectKeeps, CANoBundleKeeps,
             CAPublishKeeps, CACompleteKeeps, CACompleteFailsKeeps, CADieKeeps, CAPlantKeeps DEF CAStep
<1> QED BY <1>1, <1>2

\* An attempt answers one bundle for ever, the one that is published and that its
\* event names, never what lay there before it, and the reservations stay within
\* the limits, however calls die and are made again (Collect, acquire, inventory).
THEOREM AnAttemptHasOneAnswer == CASpec => []CASound
<1>1. CAInit => CAInv
  BY CAStart
<1>2. CAInv /\ [CANext]_caVars => CAInv'
  BY CAEveryStep
<1>3. CAInv => CASound
  <2> SUFFICES ASSUME CAInv  PROVE CASound
    OBVIOUS
  <2>1. \A a \in CAAttempts : \A b \in caAnswers[a] : b = caBundle[a] /\ b = caEvent[a] /\ b \notin caForeign
    BY DEF CAInv, CAEvidence
  <2>2. ASSUME NEW a \in CAAttempts  PROVE Cardinality(CAWhole(CARunOf(a))) <= CAMaxPerRun
    <3>1. CAWhole(CARunOf(a)) \subseteq CAOf(CARunOf(a)) /\ CAOf(CARunOf(a)) \subseteq CATotal
      BY DEF CAWhole, CAOf, CATotal
    <3>2. IsFiniteSet(CAOf(CARunOf(a))) /\ IsFiniteSet(CAWhole(CARunOf(a)))
      BY <3>1, FS_Subset DEF CAInv, CALimits
    <3>3. Cardinality(CAWhole(CARunOf(a))) <= Cardinality(CAOf(CARunOf(a)))
      BY <3>1, <3>2, FS_Subset
    <3>4. Cardinality(CAWhole(CARunOf(a))) \in Nat /\ Cardinality(CAOf(CARunOf(a))) \in Nat /\ CAMaxPerRun \in Nat
      BY <3>2, FS_CardinalityType, CAAssumption
    <3>5. Cardinality(CAOf(CARunOf(a))) <= CAMaxPerRun
      BY DEF CAInv, CALimits
    <3> QED BY <3>3, <3>4, <3>5
  <2> QED BY <2>1, <2>2 DEF CAInv, CALimits, CASound
<1> QED BY <1>1, <1>2, <1>3, PTL DEF CASpec

-----------------------------------------------------------------------------
(* CICollection: a STABLE bundle is a snapshot. *)

CCItems == [id : Nat, ver : Nat, suite : Nat]
\* Every item of A is in B, there in the same or a later version.
CCOlder(A, B) == \A x \in A : \E y \in B : x.id = y.id /\ x.suite = y.suite /\ x.ver <= y.ver
\* What is in both is in B in the same or a later version.
CCNewer(A, B) == \A x \in A, y \in B : x.id = y.id => x.suite = y.suite /\ x.ver <= y.ver
CCUnique(A) == \A x, y \in A : x.id = y.id => x = y

\* A list of the hub: an id has one place, and is no larger than the list is long.
CCGood(list, n) ==
  /\ list \in Seq(CCItems)
  /\ \A i, j \in DOMAIN list : list[i].id = list[j].id => i = j
  /\ \A i \in DOMAIN list : list[i].id <= Len(list) /\ list[i].ver <= n
CCHubOK == DOMAIN ccHub = CCKinds /\ ccHub = [k \in CCKinds |-> ccHub[k]] /\ \A k \in CCKinds : CCGood(ccHub[k], ccChanges)

\* The kinds the current sweep has read.
CCRead(k) == (k = "suites" /\ ccPhase \in {4, 5, 8, 9}) \/ (k = "runs" /\ ccPhase \in {5, 9})
\* What was got is as old as the hub or older, and is nothing for a kind to come.
CCGotOK ==
  /\ ccGot = [k \in CCKinds |-> ccGot[k]]
  /\ \A k \in CCKinds :
       /\ ccGot[k] \in Seq(CCItems) /\ CCUnique(ToSet(ccGot[k])) /\ CCOlder(ToSet(ccGot[k]), ToSet(ccHub[k]))
       /\ ~CCRead(k) /\ CCKind # k => ccGot[k] = <<>>

\* Where the reading of a kind is: all that lies before the next page was got, or
\* something that was got has moved behind it, where it will be seen again.
CCAhead == (ccPage - 1) * CCPerPage
CCPlaceOK ==
  CCKind \in CCKinds =>
    /\ CCAhead <= Len(CCList)
    /\ \/ CCGotIds(ccGot[CCKind]) = {CCList[i].id : i \in 1..CCAhead}
       \/ \E i \in DOMAIN CCList : i > CCAhead /\ CCList[i].id \in CCGotIds(ccGot[CCKind])
CCPageOK == (CCKind \notin CCKinds => ccPage = 1) /\ (CCKind = "statuses" => ccPage <= CCMaxPages)

\* The first sweep is as old as the hub was at H1, the second as new.
CCSweepsOK ==
  /\ Len(ccSweeps) = (IF ccPhase <= 5 THEN 0 ELSE IF ccPhase <= 9 THEN 1 ELSE 2)
  /\ \A k \in CCKinds : ccPhase > 5 => CCUnique(ccSweeps[1][k])
  /\ \A k \in CCKinds : ccPhase = 6 => CCOlder(ccSweeps[1][k], ToSet(ccHub[k]))
CCSnapOK ==
  ccPhase > 6 => \A k \in CCKinds :
    /\ ToSet(ccSnap[k]) \subseteq CCItems /\ CCUnique(ToSet(ccSnap[k])) /\ CCOlder(ToSet(ccSnap[k]), ToSet(ccHub[k]))
    /\ CCOlder(ccSweeps[1][k], ToSet(ccSnap[k]))
    /\ CCNewer(ToSet(ccSnap[k]), ToSet(ccGot[k]))
    /\ CCRead(k) => CCOlder(ToSet(ccSnap[k]), ToSet(ccGot[k]))
    /\ ccPhase > 9 => CCOlder(ToSet(ccSnap[k]), ccSweeps[2][k])

CCForms ==
  /\ ccSweeps \in Seq([CCKinds -> SUBSET CCItems])
  /\ ccHeads = (IF ccPhase <= 2 THEN 0 ELSE IF ccPhase <= 6 THEN 1 ELSE IF ccPhase <= 10 THEN 2 ELSE 3)
CCWorking == CCForms /\ CCHubOK /\ CCGotOK /\ CCPlaceOK /\ CCPageOK /\ CCSweepsOK /\ CCSnapOK

\* The inductive invariant.
CCInv == CCSound /\ (ccOut = "none" => CCWorking)

\* The items of two lists put together.
LEMMA CCConcat ==
  ASSUME NEW s \in Seq(CCItems), NEW t \in Seq(CCItems)
  PROVE  /\ s \o t \in Seq(CCItems) /\ ToSet(s \o t) = ToSet(s) \cup ToSet(t)
         /\ CCGotIds(s \o t) = CCGotIds(s) \cup CCGotIds(t)
<1>1. /\ s \o t \in Seq(CCItems) /\ DOMAIN s = 1..Len(s) /\ DOMAIN t = 1..Len(t) /\ Len(s) \in Nat /\ Len(t) \in Nat
      /\ DOMAIN (s \o t) = 1..(Len(s) + Len(t))
      /\ \A i \in 1..(Len(s) + Len(t)) : (s \o t)[i] = IF i <= Len(s) THEN s[i] ELSE t[i - Len(s)]
  OBVIOUS
<1>2. \A x : x \in DOMAIN s => x \in DOMAIN (s \o t) /\ (s \o t)[x] = s[x]
  BY <1>1
<1>3. \A x : x \in DOMAIN t => x + Len(s) \in DOMAIN (s \o t) /\ (s \o t)[x + Len(s)] = t[x]
  BY <1>1
<1>4. \A x \in DOMAIN (s \o t) : (x \in DOMAIN s /\ (s \o t)[x] = s[x]) \/ (x - Len(s) \in DOMAIN t /\ (s \o t)[x] = t[x - Len(s)])
  BY <1>1
<1> DEFINE u == s \o t
<1>5. /\ \A x \in DOMAIN s : \E y \in DOMAIN u : u[y] = s[x]
      /\ \A x \in DOMAIN t : \E y \in DOMAIN u : u[y] = t[x]
  BY <1>2, <1>3
<1>6. \A y \in DOMAIN u : (\E x \in DOMAIN s : u[y] = s[x]) \/ (\E x \in DOMAIN t : u[y] = t[x])
  BY <1>4
<1> HIDE DEF u
<1>7. ToSet(u) = ToSet(s) \cup ToSet(t)
  <2>1. \A z \in ToSet(u) : z \in ToSet(s) \cup ToSet(t)
    BY <1>6 DEF ToSet
  <2>2. \A z \in ToSet(s) : z \in ToSet(u)
    BY <1>5 DEF ToSet
  <2>3. \A z \in ToSet(t) : z \in ToSet(u)
    BY <1>5 DEF ToSet
  <2> QED BY <2>1, <2>2, <2>3
<1>8. CCGotIds(u) = CCGotIds(s) \cup CCGotIds(t)
  <2>1. \A z \in CCGotIds(u) : z \in CCGotIds(s) \cup CCGotIds(t)
    BY <1>6, Zenon DEF CCGotIds
  <2>2. \A z \in CCGotIds(s) \cup CCGotIds(t) : z \in CCGotIds(u)
    <3>1. \A z \in CCGotIds(s) : z \in CCGotIds(u)
      BY <1>5 DEF CCGotIds
    <3>2. \A z \in CCGotIds(t) : z \in CCGotIds(u)
      BY <1>5 DEF CCGotIds
    <3> QED BY <3>1, <3>2
  <2> QED BY <2>1, <2>2
<1> QED BY <1>1, <1>7, <1>8 DEF u

\* A page of a list that is read behind what was got, with nothing repeated.
LEMMA CCReadsOn ==
  ASSUME NEW L \in Seq(CCItems), NEW got \in Seq(CCItems), NEW m \in 0..Len(L), NEW hi \in m..Len(L),
         \A i, j \in DOMAIN L : L[i].id = L[j].id => i = j, CCUnique(ToSet(got)), CCOlder(ToSet(got), ToSet(L)),
         CCGotIds(SubSeq(L, m + 1, hi)) \cap CCGotIds(got) = {},
         CCGotIds(got) = {L[i].id : i \in 1..m} \/ \E i \in DOMAIN L : i > m /\ L[i].id \in CCGotIds(got)
  PROVE  LET page == SubSeq(L, m + 1, hi) IN
         /\ page \in Seq(CCItems) /\ Len(page) = hi - m /\ got \o page \in Seq(CCItems)
         /\ CCUnique(ToSet(got \o page)) /\ CCOlder(ToSet(got \o page), ToSet(L))
         /\ ToSet(got \o page) = ToSet(got) \cup ToSet(page) /\ ToSet(page) \subseteq ToSet(L)
         /\ \/ CCGotIds(got \o page) = {L[i].id : i \in 1..hi}
            \/ \E i \in DOMAIN L : i > hi /\ L[i].id \in CCGotIds(got \o page)
<1> DEFINE page == SubSeq(L, m + 1, hi)
<1>1. /\ Len(L) \in Nat /\ DOMAIN L = 1..Len(L) /\ m \in Nat /\ hi \in Nat /\ m <= hi /\ hi <= Len(L)
      /\ \A i \in DOMAIN L : L[i] \in CCItems
  OBVIOUS
<1>2. \A i \in (m + 1)..hi : L[i] \in CCItems
  BY <1>1
<1>3. /\ page \in Seq(CCItems) /\ Len(page) = (IF m + 1 <= hi THEN hi - (m + 1) + 1 ELSE 0)
      /\ \A i \in 1..(hi - (m + 1) + 1) : page[i] = L[m + 1 + i - 1]
  BY <1>1, <1>2, SubSeqProperties
<1>4. Len(page) = hi - m /\ DOMAIN page = 1..(hi - m) /\ \A i \in 1..(hi - m) : page[i] = L[m + i]
  BY <1>1, <1>3
<1>5. \A i \in DOMAIN page : m + i \in DOMAIN L /\ m + i > m /\ m + i <= hi /\ page[i] = L[m + i]
  BY <1>1, <1>4
<1>6. \A i \in DOMAIN L : i > m /\ i <= hi => i - m \in DOMAIN page /\ page[i - m] = L[i]
  BY <1>1, <1>4
<1> HIDE DEF page
<1>7. /\ got \o page \in Seq(CCItems) /\ ToSet(got \o page) = ToSet(got) \cup ToSet(page)
      /\ CCGotIds(got \o page) = CCGotIds(got) \cup CCGotIds(page)
  BY <1>3, CCConcat
<1>8. ToSet(page) \subseteq ToSet(L)
  BY <1>5 DEF ToSet
<1>9. CCGotIds(page) \cap CCGotIds(got) = {}
  BY DEF page
<1>10. \A x \in ToSet(page), y \in ToSet(page) : x.id = y.id => x = y
  BY <1>5 DEF ToSet
<1>11. \A x \in ToSet(page), y \in ToSet(got) : x.id # y.id
  BY <1>9 DEF ToSet, CCGotIds
<1>12. CCUnique(ToSet(got \o page))
  BY <1>7, <1>10, <1>11 DEF CCUnique
<1>13. CCOlder(ToSet(got \o page), ToSet(L))
  <2>1. \A x \in ToSet(L) : x \in CCItems
    BY <1>1 DEF ToSet
  <2>2. \A x \in CCItems : x.id = x.id /\ x.suite = x.suite /\ x.ver <= x.ver
    BY DEF CCItems
  <2> QED BY <1>7, <1>8, <2>1, <2>2 DEF CCOlder
<1>14. CCGotIds(page) = {L[i].id : i \in {j \in DOMAIN L : j > m /\ j <= hi}}
  <2>1. \A x : x \in CCGotIds(page) => x \in {L[i].id : i \in {j \in DOMAIN L : j > m /\ j <= hi}}
    BY <1>5 DEF CCGotIds
  <2>2. \A x : x \in {L[i].id : i \in {j \in DOMAIN L : j > m /\ j <= hi}} => x \in CCGotIds(page)
    BY <1>6 DEF CCGotIds
  <2> QED BY <2>1, <2>2
<1>15. CASE CCGotIds(got) = {L[i].id : i \in 1..m}
  <2>1. CCGotIds(got \o page) = {L[i].id : i \in 1..m} \cup {L[i].id : i \in {j \in DOMAIN L : j > m /\ j <= hi}}
    BY <1>7, <1>14, <1>15
  <2>2. \A i : i \in 1..hi <=> i \in 1..m \/ i \in {j \in DOMAIN L : j > m /\ j <= hi}
    BY <1>1
  <2>3. CCGotIds(got \o page) = {L[i].id : i \in 1..hi}
    BY <2>1, <2>2
  <2> QED BY <1>3, <1>4, <1>7, <1>8, <1>12, <1>13, <2>3 DEF page
<1>16. CASE \E i \in DOMAIN L : i > m /\ L[i].id \in CCGotIds(got)
  <2>1. PICK i \in DOMAIN L : i > m /\ L[i].id \in CCGotIds(got)
    BY <1>16
  <2>2. ~(i <= hi)
    BY <1>9, <1>14, <2>1
  <2>3. i > hi /\ L[i].id \in CCGotIds(got \o page)
    BY <1>1, <1>7, <2>1, <2>2
  <2> QED BY <1>3, <1>4, <1>7, <1>8, <1>12, <1>13, <2>3 DEF page
<1> QED BY <1>15, <1>16

\* Against an earlier list A: what is read is as new, and the last page makes it whole.
LEMMA CCReadsNewer ==
  ASSUME NEW A \in SUBSET CCItems, NEW L \in Seq(CCItems), NEW G \in SUBSET CCItems, NEW Q \in SUBSET ToSet(L),
         \A i, j \in DOMAIN L : L[i].id = L[j].id => i = j, CCNewer(A, G), CCOlder(A, ToSet(L))
  PROVE  /\ CCNewer(A, G \cup Q)
         /\ {L[i].id : i \in DOMAIN L} \subseteq {x.id : x \in G \cup Q} => CCOlder(A, G \cup Q)
<1>1. \A x, y \in ToSet(L) : x.id = y.id => x = y
  BY DEF ToSet
<1>2. CCNewer(A, Q)
  <2> SUFFICES ASSUME NEW x \in A, NEW y \in Q, x.id = y.id  PROVE x.suite = y.suite /\ x.ver <= y.ver
    BY DEF CCNewer
  <2>1. PICK z \in ToSet(L) : x.id = z.id /\ x.suite = z.suite /\ x.ver <= z.ver
    BY DEF CCOlder
  <2>2. y = z
    BY <1>1, <2>1
  <2> QED BY <2>1, <2>2
<1>3. CCNewer(A, G \cup Q)
  BY <1>2 DEF CCNewer
<1>4. ASSUME {L[i].id : i \in DOMAIN L} \subseteq {x.id : x \in G \cup Q}  PROVE CCOlder(A, G \cup Q)
  <2> SUFFICES ASSUME NEW x \in A  PROVE \E y \in G \cup Q : x.id = y.id /\ x.suite = y.suite /\ x.ver <= y.ver
    BY DEF CCOlder
  <2>1. PICK z \in ToSet(L) : x.id = z.id
    BY DEF CCOlder
  <2>2. z.id \in {L[i].id : i \in DOMAIN L}
    BY <2>1 DEF ToSet
  <2>3. PICK y \in G \cup Q : y.id = z.id
    BY <1>4, <2>2
  <2> QED BY <1>3, <2>1, <2>3 DEF CCNewer
<1> QED BY <1>3, <1>4

\* Two sweeps that are the same are what the hub had between them.
LEMMA CCBetween ==
  ASSUME NEW A \in SUBSET CCItems, NEW S \in SUBSET CCItems, CCUnique(A), CCUnique(S), CCOlder(A, S), CCOlder(S, A)
  PROVE  A = S
<1>1. \A x, y \in CCItems : x.id = y.id /\ x.suite = y.suite /\ x.ver = y.ver => x = y
  <2> TAKE x, y \in CCItems
  <2>1. x = [id |-> x.id, ver |-> x.ver, suite |-> x.suite] /\ y = [id |-> y.id, ver |-> y.ver, suite |-> y.suite]
    BY DEF CCItems
  <2> QED BY <2>1
<1>2. \A x \in CCItems : x.ver \in Nat
  BY DEF CCItems
<1>3. ASSUME NEW x \in A  PROVE x \in S
  <2>1. PICK y \in S : x.id = y.id /\ x.suite = y.suite /\ x.ver <= y.ver
    BY <1>3 DEF CCOlder
  <2>2. PICK z \in A : y.id = z.id /\ y.suite = z.suite /\ y.ver <= z.ver
    BY DEF CCOlder
  <2>3. z = x
    BY <1>3, <2>1, <2>2 DEF CCUnique
  <2> QED BY <1>1, <1>2, <1>3, <2>1, <2>2, <2>3
<1>4. ASSUME NEW y \in S  PROVE y \in A
  <2>1. PICK z \in A : y.id = z.id /\ y.suite = z.suite /\ y.ver <= z.ver
    BY <1>4 DEF CCOlder
  <2>2. PICK w \in S : z.id = w.id /\ z.suite = w.suite /\ z.ver <= w.ver
    BY DEF CCOlder
  <2>3. w = y
    BY <1>4, <2>1, <2>2 DEF CCUnique
  <2> QED BY <1>1, <1>2, <1>4, <2>1, <2>2, <2>3
<1> QED BY <1>3, <1>4

-----------------------------------------------------------------------------
(* The state, and what reading a page does to it. *)

\* The kind of every phase.
LEMMA CCKindOf ==
  ASSUME ccPhase \in 1..11
  PROVE  /\ ccPhase = 1 <=> CCKind = "principal"
         /\ ccPhase \in {2, 6, 10} <=> CCKind \in {"H0", "H1", "H2"}
         /\ ccPhase = 6 <=> CCKind = "H1"
         /\ ccPhase \in {3, 7} <=> CCKind = "suites"
         /\ ccPhase \in {4, 8} <=> CCKind = "runs"
         /\ ccPhase \in {5, 9} <=> CCKind = "statuses"
         /\ ccPhase = 11 <=> CCKind = "done"
<1>1. ccPhase \in {1, 2, 3, 4, 5, 6, 7, 8, 9, 10, 11}
  OBVIOUS
<1>2. /\ CCPhases[1] = "principal" /\ CCPhases[2] = "H0" /\ CCPhases[3] = "suites" /\ CCPhases[4] = "runs" /\ CCPhases[5] = "statuses"
      /\ CCPhases[6] = "H1" /\ CCPhases[7] = "suites" /\ CCPhases[8] = "runs" /\ CCPhases[9] = "statuses" /\ CCPhases[10] = "H2"
      /\ CCPhases[11] = "done"
  BY DEF CCPhases
<1> QED BY <1>1, <1>2 DEF CCKind

\* The numbers of the state.
LEMMA CCNumbers ==
  ASSUME CCTypeOK
  PROVE  /\ ccPhase \in 1..11 /\ ccPage \in Nat /\ ccPage >= 1 /\ ccPage <= CCMaxPages + CCMaxItems /\ ccHeads \in 0..3
         /\ ccRequests \in 0..CCMaxRequests /\ ccChanges \in Nat /\ ccFaults \in 0..CCMaxFaults
         /\ {CCPerPage, CCMaxItems, CCMaxPages, CCMaxRequests} \subseteq Nat \ {0} /\ {CCMaxChanges, CCMaxFaults} \subseteq Nat
         /\ CCAhead \in Nat /\ ccPage * CCPerPage = CCAhead + CCPerPage /\ ccPage * CCPerPage \in Nat
         /\ ccPage - 1 <= CCAhead
<1>1. /\ {CCPerPage, CCMaxItems, CCMaxPages, CCMaxRequests} \subseteq Nat \ {0} /\ {CCMaxChanges, CCMaxFaults} \subseteq Nat
  BY CCAssumption DEF CCLimitsValid
<1>2. Len(CCPhases) = 11
  BY DEF CCPhases
<1>3. ccPhase \in 1..11 /\ ccPage \in Nat /\ ccPage >= 1 /\ ccPage <= CCMaxPages + CCMaxItems /\ ccChanges \in Nat
  BY <1>1, <1>2 DEF CCTypeOK
<1>4. \A q \in Nat, P \in Nat : q * P \in Nat /\ (q + 1) * P = q * P + P /\ (P >= 1 => q <= q * P)
  OBVIOUS
<1>5. ccPage - 1 \in Nat /\ (ccPage - 1) + 1 = ccPage /\ CCPerPage \in Nat /\ CCPerPage >= 1
  BY <1>1, <1>3
<1>6. CCAhead \in Nat /\ ccPage * CCPerPage = CCAhead + CCPerPage /\ ccPage * CCPerPage \in Nat /\ ccPage - 1 <= CCAhead
  BY <1>3, <1>4, <1>5 DEF CCAhead
<1> QED BY <1>1, <1>3, <1>6 DEF CCTypeOK

\* The page that is read, and what it makes of what was got.
LEMMA CCPageRead ==
  ASSUME CCTypeOK, CCWorking, CCKind \in CCKinds, ~CCRepeated
  PROVE  LET L == CCList  got2 == ccGot[CCKind] \o CCPageItems
             hi == IF CCMore THEN CCAhead + CCPerPage ELSE Len(L)
         IN  /\ hi \in CCAhead..Len(L) /\ Len(CCPageItems) = hi - CCAhead /\ Len(L) \in Nat /\ DOMAIN L = 1..Len(L)
             /\ got2 \in Seq(CCItems) /\ CCUnique(ToSet(got2)) /\ CCOlder(ToSet(got2), ToSet(L))
             /\ \/ CCGotIds(got2) = {L[i].id : i \in 1..hi}
                \/ \E i \in DOMAIN L : i > hi /\ L[i].id \in CCGotIds(got2)
             /\ ccPhase > 6 =>
                  /\ CCNewer(ToSet(ccSnap[CCKind]), ToSet(got2))
                  /\ {L[i].id : i \in DOMAIN L} \subseteq CCGotIds(got2) => CCOlder(ToSet(ccSnap[CCKind]), ToSet(got2))
<1> DEFINE L == CCList  got == ccGot[CCKind]  page == CCPageItems  hi == IF CCMore THEN CCAhead + CCPerPage ELSE Len(L)
<1>1. /\ L \in Seq(CCItems) /\ \A i, j \in DOMAIN L : L[i].id = L[j].id => i = j
  BY DEF CCWorking, CCHubOK, CCGood, CCList
<1>2. got \in Seq(CCItems) /\ CCUnique(ToSet(got)) /\ CCOlder(ToSet(got), ToSet(L))
  BY DEF CCWorking, CCGotOK, CCList
<1>3. /\ CCAhead \in Nat /\ CCAhead <= Len(L)
      /\ CCGotIds(got) = {L[i].id : i \in 1..CCAhead} \/ \E i \in DOMAIN L : i > CCAhead /\ L[i].id \in CCGotIds(got)
  BY CCNumbers DEF CCWorking, CCPlaceOK
<1>4. Len(L) \in Nat /\ DOMAIN L = 1..Len(L) /\ CCPerPage \in Nat /\ ccPage * CCPerPage = CCAhead + CCPerPage
  BY <1>1, CCNumbers
<1>5. (CCMore => CCAhead + CCPerPage <= Len(L)) /\ page = SubSeq(L, CCAhead + 1, hi)
  <2>1. CCMore <=> CCAhead + CCPerPage < Len(L)
    BY <1>4 DEF CCMore
  <2>2. page = SubSeq(L, CCAhead + 1, IF CCMore THEN CCAhead + CCPerPage ELSE Len(L))
    BY <1>4 DEF CCPageItems, CCAhead
  <2>3. CCMore => CCAhead + CCPerPage <= Len(L)
    BY <2>1, <1>3, <1>4
  <2> QED BY <2>2, <2>3
<1>6. hi \in CCAhead..Len(L) /\ CCAhead \in 0..Len(L)
  BY <1>3, <1>4, <1>5
<1>7. CCGotIds(page) \cap CCGotIds(got) = {}
  BY DEF CCRepeated
<1>8. ccPhase > 6 => /\ ToSet(ccSnap[CCKind]) \subseteq CCItems /\ CCNewer(ToSet(ccSnap[CCKind]), ToSet(got))
                     /\ CCOlder(ToSet(ccSnap[CCKind]), ToSet(L))
  BY DEF CCWorking, CCSnapOK, CCList
<1> HIDE DEF L, got, hi, page
<1>9. /\ Len(page) = hi - CCAhead /\ got \o page \in Seq(CCItems) /\ CCUnique(ToSet(got \o page)) /\ CCOlder(ToSet(got \o page), ToSet(L))
      /\ ToSet(got \o page) = ToSet(got) \cup ToSet(page) /\ ToSet(page) \subseteq ToSet(L)
      /\ CCGotIds(got \o page) = {L[i].id : i \in 1..hi} \/ \E i \in DOMAIN L : i > hi /\ L[i].id \in CCGotIds(got \o page)
  <2>1. CCGotIds(SubSeq(L, CCAhead + 1, hi)) \cap CCGotIds(got) = {}
    BY <1>5, <1>7
  <2>2. LET q == SubSeq(L, CCAhead + 1, hi) IN
        /\ q \in Seq(CCItems) /\ Len(q) = hi - CCAhead /\ got \o q \in Seq(CCItems)
        /\ CCUnique(ToSet(got \o q)) /\ CCOlder(ToSet(got \o q), ToSet(L))
        /\ ToSet(got \o q) = ToSet(got) \cup ToSet(q) /\ ToSet(q) \subseteq ToSet(L)
        /\ CCGotIds(got \o q) = {L[i].id : i \in 1..hi} \/ \E i \in DOMAIN L : i > hi /\ L[i].id \in CCGotIds(got \o q)
    BY <1>1, <1>2, <1>3, <1>6, <2>1, CCReadsOn
  <2> QED BY <1>5, <2>2
<1>10. ASSUME ccPhase > 6
       PROVE  /\ CCNewer(ToSet(ccSnap[CCKind]), ToSet(got \o page))
              /\ {L[i].id : i \in DOMAIN L} \subseteq CCGotIds(got \o page) => CCOlder(ToSet(ccSnap[CCKind]), ToSet(got \o page))
  <2>1. ToSet(got) \subseteq CCItems
    BY <1>2 DEF ToSet
  <2>2. CCGotIds(got \o page) = {x.id : x \in ToSet(got \o page)}
    BY DEF CCGotIds, ToSet
  <2>3. /\ CCNewer(ToSet(ccSnap[CCKind]), ToSet(got) \cup ToSet(page))
        /\ {L[i].id : i \in DOMAIN L} \subseteq {x.id : x \in ToSet(got) \cup ToSet(page)}
             => CCOlder(ToSet(ccSnap[CCKind]), ToSet(got) \cup ToSet(page))
    BY <1>1, <1>8, <1>9, <1>10, <2>1, CCReadsNewer
  <2> QED BY <1>9, <2>2, <2>3
<1> QED BY <1>4, <1>6, <1>9, <1>10 DEF L, got, hi, page

-----------------------------------------------------------------------------
(* The steps. *)

\* A collection that stops without a STABLE bundle keeps the invariant.
LEMMA CCStops ==
  ASSUME CCInv, NEW o \in {"TRUNCATED", "PROVIDER_UNAVAILABLE", "STALE_HEAD", "UNSTABLE", "MALFORMED"}, CCFinish(o), CCTypeOK'
  PROVE  CCInv'
<1>1. ccOut' = o
  BY DEF CCFinish, CCValidBundle
<1> QED BY <1>1 DEF CCInv, CCSound, CCStableIsASnapshot

\* The end of two sweeps keeps the invariant: a STABLE bundle is the snapshot.
LEMMA CCEndKeeps == CCInv /\ CCEnd => CCInv'
<1> SUFFICES ASSUME CCInv, CCEnd  PROVE CCInv'
  OBVIOUS
<1>1. CCTypeOK /\ CCWorking /\ CCKind = "done" /\ ccPhase \in 1..11
  BY CCNumbers DEF CCInv, CCSound, CCEnd
<1>2. ccPhase = 11
  BY <1>1, CCKindOf
<1>3. UNCHANGED <<ccHub, ccHead, ccChanges, ccPhase, ccPage, ccGot, ccTotal, ccHeads, ccSweeps, ccSnap, ccRequests, ccFaults>>
  BY DEF CCEnd, CCKeepHub, CCKeepRead
<1>4. CCTypeOK'
  BY <1>1, <1>3 DEF CCTypeOK
<1>5. CASE ~CCSame
  <2>1. CCFinish("UNSTABLE")
    BY <1>5 DEF CCEnd
  <2> QED BY <1>4, <2>1, CCStops
<1>6. CASE CCSame
  <2>1. CCFinish("STABLE")
    BY <1>6 DEF CCEnd
  <2>2. Len(ccSweeps) = 2 /\ ccHeads = 3 /\ ccSweeps \in Seq([CCKinds -> SUBSET CCItems])
    BY <1>1, <1>2 DEF CCWorking, CCForms, CCSweepsOK
  <2>3. ccSweeps[1] = ccSweeps[2] /\ ccSweeps[1] \in [CCKinds -> SUBSET CCItems]
    BY <1>6, <2>2 DEF CCSame
  <2>4. ASSUME NEW k \in CCKinds  PROVE ccSweeps[1][k] = ToSet(ccSnap[k])
    <3>1. /\ CCUnique(ccSweeps[1][k]) /\ ToSet(ccSnap[k]) \subseteq CCItems /\ CCUnique(ToSet(ccSnap[k]))
          /\ CCOlder(ccSweeps[1][k], ToSet(ccSnap[k])) /\ CCOlder(ToSet(ccSnap[k]), ccSweeps[2][k])
      BY <1>1, <1>2 DEF CCWorking, CCSweepsOK, CCSnapOK
    <3>2. ccSweeps[1][k] \in SUBSET CCItems
      BY <2>3
    <3> QED BY <2>3, <3>1, <3>2, CCBetween
  <2>5. ccSweeps[1] = [k \in CCKinds |-> ccSweeps[1][k]]
    BY <2>3
  <2>6. ccSweeps[1] = CCSemantic(ccSnap)
    BY <2>4, <2>5 DEF CCSemantic
  <2>7. ccOut' = "STABLE"
    BY <2>1, <2>2, <2>3 DEF CCFinish, CCValidBundle
  <2>8. CCStableIsASnapshot'
    BY <1>3, <2>6, <2>7 DEF CCStableIsASnapshot, CCSemantic
  <2> QED BY <1>4, <2>7, <2>8 DEF CCInv, CCSound
<1> QED BY <1>5, <1>6

\* A full page, with a page to come, keeps the invariant.
LEMMA CCNextPageKeeps ==
  ASSUME CCInv, ccOut = "none", CCKind \in CCKinds, ~CCRepeated, Len(CCPageItems) >= CCPerPage, CCNextPage,
         CCKeepHub, UNCHANGED <<ccHeads, ccSnap, ccFaults>>, ccRequests' \in 0..CCMaxRequests,
         ccPage + 1 <= CCMaxPages + CCMaxItems, CCKind = "statuses" => ccPage + 1 <= CCMaxPages
  PROVE  CCInv'
<1>1. CCTypeOK /\ CCWorking
  BY DEF CCInv, CCSound
<1> DEFINE L == CCList  K == CCKind  got2 == ccGot[CCKind] \o CCPageItems  hi == IF CCMore THEN CCAhead + CCPerPage ELSE Len(L)
<1>2. /\ ccPhase' = ccPhase /\ ccSweeps' = ccSweeps /\ ccOut' = ccOut /\ ccPage' = ccPage + 1 /\ ccHub' = ccHub /\ ccHead' = ccHead
      /\ ccChanges' = ccChanges /\ ccHeads' = ccHeads /\ ccSnap' = ccSnap /\ ccFaults' = ccFaults /\ CCKind' = K /\ CCList' = L
      /\ ccGot' = [ccGot EXCEPT ![K] = got2]
  BY DEF CCNextPage, CCKeepHub, CCKind, CCList
<1>3. /\ ccPhase \in 1..11 /\ ccPage \in Nat /\ ccPage >= 1 /\ CCAhead \in Nat /\ CCPerPage \in Nat \ {0}
      /\ ccPage * CCPerPage = CCAhead + CCPerPage
  BY <1>1, CCNumbers
<1>4. /\ hi \in CCAhead..Len(L) /\ Len(CCPageItems) = hi - CCAhead /\ Len(L) \in Nat /\ DOMAIN L = 1..Len(L)
      /\ got2 \in Seq(CCItems) /\ CCUnique(ToSet(got2)) /\ CCOlder(ToSet(got2), ToSet(L))
      /\ CCGotIds(got2) = {L[i].id : i \in 1..hi} \/ \E i \in DOMAIN L : i > hi /\ L[i].id \in CCGotIds(got2)
      /\ ccPhase > 6 => CCNewer(ToSet(ccSnap[K]), ToSet(got2))
  BY <1>1, CCPageRead
<1>5. CCAhead' = hi
  <2>1. CCAhead' = CCAhead + CCPerPage
    <3>1. CCAhead' = ((ccPage + 1) - 1) * CCPerPage
      BY <1>2 DEF CCAhead
    <3>2. (ccPage + 1) - 1 = ccPage
      BY <1>3
    <3> QED BY <1>3, <3>1, <3>2
  <2>2. ~CCMore => Len(L) <= CCAhead + CCPerPage
    BY <1>3, <1>4 DEF CCMore
  <2> QED BY <1>3, <1>4, <2>1, <2>2
<1>6. \A k \in CCKinds : ccGot'[k] = IF k = K THEN got2 ELSE ccGot[k]
  BY <1>1, <1>2 DEF CCWorking, CCGotOK
<1>7. ccGot' = [k \in CCKinds |-> ccGot'[k]]
  BY <1>1, <1>2 DEF CCWorking, CCGotOK
<1>8. \A k \in CCKinds : CCRead(k)' = CCRead(k) /\ (CCRead(k) => k # K)
  <2>1. \A k \in CCKinds : CCRead(k)' = CCRead(k)
    BY <1>2 DEF CCRead
  <2>2. K = "suites" => ccPhase \in {3, 7}
    BY <1>3, CCKindOf
  <2>3. K = "runs" => ccPhase \in {4, 8}
    BY <1>3, CCKindOf
  <2> QED BY <2>1, <2>2, <2>3 DEF CCRead
<1>9. ToSet(ccHub[K]) = ToSet(L)
  BY DEF CCList
<1> HIDE DEF L, got2, hi, K
<1>10. CCTypeOK'
  BY <1>1, <1>2, <1>3 DEF CCTypeOK
<1>11. CCForms' /\ CCSweepsOK'
  BY <1>1, <1>2 DEF CCWorking, CCForms, CCSweepsOK
<1>12. CCHubOK'
  BY <1>1, <1>2 DEF CCWorking, CCHubOK, CCGood
<1>13. CCGotOK'
  <2> SUFFICES ASSUME NEW k \in CCKinds
               PROVE  /\ ccGot'[k] \in Seq(CCItems) /\ CCUnique(ToSet(ccGot'[k])) /\ CCOlder(ToSet(ccGot'[k]), ToSet(ccHub[k]))
                      /\ ~CCRead(k) /\ K # k => ccGot'[k] = <<>>
    BY <1>2, <1>7, <1>8 DEF CCGotOK
  <2>1. CASE k = K
    BY <1>4, <1>6, <1>9, <2>1
  <2>2. CASE k # K
    BY <1>1, <1>6, <2>2 DEF CCWorking, CCGotOK, K
  <2> QED BY <2>1, <2>2
<1>14. CCPlaceOK'
  <2>1. ccGot'[K] = got2
    BY <1>6 DEF K
  <2>2. K \in CCKinds /\ CCAhead' <= Len(L)
    BY <1>4, <1>5 DEF K
  <2> QED BY <1>2, <1>4, <1>5, <2>1, <2>2 DEF CCPlaceOK
<1>15. CCPageOK'
  BY <1>2 DEF CCPageOK, K
<1>16. CCSnapOK'
  <2> SUFFICES ASSUME ccPhase > 6, NEW k \in CCKinds
               PROVE  /\ ToSet(ccSnap[k]) \subseteq CCItems /\ CCUnique(ToSet(ccSnap[k])) /\ CCOlder(ToSet(ccSnap[k]), ToSet(ccHub[k]))
                      /\ CCOlder(ccSweeps[1][k], ToSet(ccSnap[k])) /\ CCNewer(ToSet(ccSnap[k]), ToSet(ccGot'[k]))
                      /\ CCRead(k) => CCOlder(ToSet(ccSnap[k]), ToSet(ccGot'[k]))
                      /\ ccPhase > 9 => CCOlder(ToSet(ccSnap[k]), ccSweeps[2][k])
    BY <1>2, <1>8 DEF CCSnapOK
  <2>1. /\ ToSet(ccSnap[k]) \subseteq CCItems /\ CCUnique(ToSet(ccSnap[k])) /\ CCOlder(ToSet(ccSnap[k]), ToSet(ccHub[k]))
        /\ CCOlder(ccSweeps[1][k], ToSet(ccSnap[k])) /\ CCNewer(ToSet(ccSnap[k]), ToSet(ccGot[k]))
        /\ CCRead(k) => CCOlder(ToSet(ccSnap[k]), ToSet(ccGot[k]))
        /\ ccPhase > 9 => CCOlder(ToSet(ccSnap[k]), ccSweeps[2][k])
    BY <1>1 DEF CCWorking, CCSnapOK
  <2>2. CASE k = K
    BY <1>4, <1>6, <1>8, <2>1, <2>2
  <2>3. CASE k # K
    BY <1>6, <2>1, <2>3
  <2> QED BY <2>2, <2>3
<1>17. CCStableIsASnapshot'
  BY <1>2 DEF CCStableIsASnapshot
<1> QED BY <1>10, <1>11, <1>12, <1>13, <1>14, <1>15, <1>16, <1>17 DEF CCInv, CCSound, CCWorking

\* The last page of a kind: everything the hub has was got.
LEMMA CCLastPage ==
  ASSUME CCTypeOK, CCWorking, CCKind \in CCKinds, ~CCRepeated, ~CCMore
  PROVE  LET got2 == ccGot[CCKind] \o CCPageItems IN
         /\ got2 \in Seq(CCItems) /\ CCUnique(ToSet(got2)) /\ CCOlder(ToSet(got2), ToSet(CCList))
         /\ ccPhase > 6 => CCNewer(ToSet(ccSnap[CCKind]), ToSet(got2)) /\ CCOlder(ToSet(ccSnap[CCKind]), ToSet(got2))
<1> DEFINE L == CCList  got2 == ccGot[CCKind] \o CCPageItems
<1>1. /\ got2 \in Seq(CCItems) /\ CCUnique(ToSet(got2)) /\ CCOlder(ToSet(got2), ToSet(L)) /\ Len(L) \in Nat /\ DOMAIN L = 1..Len(L)
      /\ CCGotIds(got2) = {L[i].id : i \in 1..Len(L)} \/ \E i \in DOMAIN L : i > Len(L) /\ L[i].id \in CCGotIds(got2)
      /\ ccPhase > 6 =>
           /\ CCNewer(ToSet(ccSnap[CCKind]), ToSet(got2))
           /\ {L[i].id : i \in DOMAIN L} \subseteq CCGotIds(got2) => CCOlder(ToSet(ccSnap[CCKind]), ToSet(got2))
  BY CCPageRead
<1> HIDE DEF L, got2
<1>2. CCGotIds(got2) = {L[i].id : i \in 1..Len(L)}
  BY <1>1
<1> QED BY <1>1, <1>2 DEF L, got2

\* The next kind of the same sweep keeps the invariant.
LEMMA CCNextKindKeeps ==
  ASSUME CCInv, ccOut = "none", CCKind \in {"suites", "runs"}, ~CCRepeated, ~CCMore, CCNextKind,
         CCKeepHub, UNCHANGED <<ccHeads, ccSnap, ccFaults>>, ccRequests' \in 0..CCMaxRequests
  PROVE  CCInv'
<1>1. CCTypeOK /\ CCWorking /\ CCKind \in CCKinds
  BY DEF CCInv, CCSound, CCKinds
<1> DEFINE K == CCKind  got2 == ccGot[CCKind] \o CCPageItems
<1>2. /\ ccPhase' = ccPhase + 1 /\ ccSweeps' = ccSweeps /\ ccOut' = ccOut /\ ccPage' = 1 /\ ccHub' = ccHub /\ ccHead' = ccHead
      /\ ccChanges' = ccChanges /\ ccHeads' = ccHeads /\ ccSnap' = ccSnap /\ ccFaults' = ccFaults
      /\ ccGot' = [ccGot EXCEPT ![K] = got2]
  BY DEF CCNextKind, CCKeepHub
<1>3. /\ ccPhase \in 1..11 /\ CCPerPage \in Nat \ {0} /\ CCMaxPages \in Nat \ {0} /\ CCMaxItems \in Nat \ {0}
  BY <1>1, CCNumbers
<1>4. /\ got2 \in Seq(CCItems) /\ CCUnique(ToSet(got2)) /\ CCOlder(ToSet(got2), ToSet(ccHub[K]))
      /\ ccPhase > 6 => CCNewer(ToSet(ccSnap[K]), ToSet(got2)) /\ CCOlder(ToSet(ccSnap[K]), ToSet(got2))
  BY <1>1, CCLastPage DEF CCList
<1>5. (K = "suites" /\ ccPhase \in {3, 7}) \/ (K = "runs" /\ ccPhase \in {4, 8})
  BY <1>3, CCKindOf
<1>6. CCKind' = (IF K = "suites" THEN "runs" ELSE "statuses") /\ ccPhase' \in 1..11
  <2>1. /\ CCPhases[4] = "runs" /\ CCPhases[5] = "statuses" /\ CCPhases[8] = "runs" /\ CCPhases[9] = "statuses"
    BY DEF CCPhases
  <2> QED BY <1>2, <1>5, <2>1 DEF CCKind
<1>7. \A k \in CCKinds : ccGot'[k] = IF k = K THEN got2 ELSE ccGot[k]
  BY <1>1, <1>2 DEF CCWorking, CCGotOK
<1>8. ccGot' = [k \in CCKinds |-> ccGot'[k]]
  BY <1>1, <1>2 DEF CCWorking, CCGotOK
<1>9. \A k \in CCKinds : CCRead(k)' <=> (k = K \/ CCRead(k))
  BY <1>2, <1>5 DEF CCRead, CCKinds
<1>10. CCKind' \in CCKinds /\ CCKind' # K /\ ~CCRead(CCKind')
  BY <1>5, <1>6 DEF CCKinds, CCRead
<1> HIDE DEF got2, K
<1>11. CCTypeOK'
  BY <1>1, <1>2, <1>3, <1>6, Len(CCPhases) = 11 DEF CCTypeOK, CCPhases
<1>12. CCForms'
  BY <1>1, <1>2, <1>5 DEF CCWorking, CCForms
<1>13. CCSweepsOK'
  BY <1>1, <1>2, <1>5 DEF CCWorking, CCSweepsOK
<1>14. CCHubOK'
  BY <1>1, <1>2 DEF CCWorking, CCHubOK, CCGood
<1>15. CCGotOK'
  <2> SUFFICES ASSUME NEW k \in CCKinds
               PROVE  /\ ccGot'[k] \in Seq(CCItems) /\ CCUnique(ToSet(ccGot'[k])) /\ CCOlder(ToSet(ccGot'[k]), ToSet(ccHub[k]))
                      /\ ~CCRead(k)' /\ CCKind' # k => ccGot'[k] = <<>>
    BY <1>2, <1>8 DEF CCGotOK
  <2>1. CASE k = K
    BY <1>4, <1>7, <1>9, <2>1
  <2>2. CASE k # K
    BY <1>1, <1>7, <1>9, <2>2 DEF CCWorking, CCGotOK, K
  <2> QED BY <2>1, <2>2
<1>16. CCPlaceOK'
  <2>1. ccGot'[CCKind'] = <<>>
    BY <1>1, <1>7, <1>10 DEF CCWorking, CCGotOK, K
  <2>2. CCAhead' = 0
    <3>1. CCAhead' = (1 - 1) * CCPerPage
      BY <1>2 DEF CCAhead
    <3> QED BY <1>3, <3>1
  <2>3. CCList' = ccHub[CCKind'] /\ Len(CCList') \in Nat
    BY <1>1, <1>2, <1>10 DEF CCList, CCWorking, CCHubOK, CCGood
  <2>4. CCGotIds(ccGot'[CCKind']) = {}
    BY <2>1 DEF CCGotIds
  <2>5. CCGotIds(ccGot'[CCKind']) = {CCList'[i].id : i \in 1..CCAhead'}
    BY <2>2, <2>4
  <2>6. CCAhead' <= Len(CCList')
    BY <2>2, <2>3
  <2> QED BY <2>5, <2>6 DEF CCPlaceOK
<1>17. CCPageOK'
  BY <1>2, <1>3 DEF CCPageOK
<1>18. CCSnapOK'
  <2> SUFFICES ASSUME ccPhase' > 6, NEW k \in CCKinds
               PROVE  /\ ToSet(ccSnap[k]) \subseteq CCItems /\ CCUnique(ToSet(ccSnap[k])) /\ CCOlder(ToSet(ccSnap[k]), ToSet(ccHub[k]))
                      /\ CCOlder(ccSweeps[1][k], ToSet(ccSnap[k])) /\ CCNewer(ToSet(ccSnap[k]), ToSet(ccGot'[k]))
                      /\ CCRead(k)' => CCOlder(ToSet(ccSnap[k]), ToSet(ccGot'[k]))
                      /\ ccPhase' > 9 => CCOlder(ToSet(ccSnap[k]), ccSweeps[2][k])
    BY <1>2 DEF CCSnapOK
  <2>1. ccPhase > 6 /\ ~(ccPhase' > 9)
    BY <1>2, <1>5
  <2>2. /\ ToSet(ccSnap[k]) \subseteq CCItems /\ CCUnique(ToSet(ccSnap[k])) /\ CCOlder(ToSet(ccSnap[k]), ToSet(ccHub[k]))
        /\ CCOlder(ccSweeps[1][k], ToSet(ccSnap[k])) /\ CCNewer(ToSet(ccSnap[k]), ToSet(ccGot[k]))
        /\ CCRead(k) => CCOlder(ToSet(ccSnap[k]), ToSet(ccGot[k]))
    BY <1>1, <2>1 DEF CCWorking, CCSnapOK
  <2>3. CASE k = K
    BY <1>4, <1>7, <2>1, <2>2, <2>3
  <2>4. CASE k # K
    BY <1>7, <1>9, <2>1, <2>2, <2>4
  <2> QED BY <2>3, <2>4
<1>19. CCStableIsASnapshot'
  BY <1>2 DEF CCStableIsASnapshot
<1> QED BY <1>11, <1>12, <1>13, <1>14, <1>15, <1>16, <1>17, <1>18, <1>19 DEF CCInv, CCSound, CCWorking

\* The end of a sweep keeps the invariant.
LEMMA CCSweepEndKeeps ==
  ASSUME CCInv, ccOut = "none", CCKind = "statuses", ~CCRepeated, ~CCMore, CCNextKind,
         CCKeepHub, UNCHANGED <<ccHeads, ccSnap, ccFaults>>, ccRequests' \in 0..CCMaxRequests
  PROVE  CCInv'
<1>1. CCTypeOK /\ CCWorking /\ CCKind \in CCKinds
  BY DEF CCInv, CCSound, CCKinds
<1> DEFINE got2 == ccGot["statuses"] \o CCPageItems  got == [ccGot EXCEPT !["statuses"] = got2]
<1>2. /\ ccPage' = 1 /\ ccHub' = ccHub /\ ccHead' = ccHead /\ ccChanges' = ccChanges /\ ccHeads' = ccHeads /\ ccSnap' = ccSnap
      /\ ccFaults' = ccFaults /\ ccGot' = CCEmpty
      /\ IF CCResolved(got) THEN ccPhase' = ccPhase + 1 /\ ccSweeps' = Append(ccSweeps, CCSemantic(got)) /\ UNCHANGED ccOut
         ELSE UNCHANGED <<ccPhase, ccSweeps>> /\ CCFinish("MALFORMED")
  BY DEF CCNextKind, CCKeepHub
<1>3. /\ ccPhase \in 1..11 /\ CCPerPage \in Nat \ {0} /\ CCMaxPages \in Nat \ {0} /\ CCMaxItems \in Nat \ {0}
  BY <1>1, CCNumbers
<1>4. /\ got2 \in Seq(CCItems) /\ CCUnique(ToSet(got2)) /\ CCOlder(ToSet(got2), ToSet(ccHub["statuses"]))
      /\ ccPhase > 6 => CCNewer(ToSet(ccSnap["statuses"]), ToSet(got2)) /\ CCOlder(ToSet(ccSnap["statuses"]), ToSet(got2))
  BY <1>1, CCLastPage DEF CCList
<1>5. ccPhase \in {5, 9} /\ Len(CCPhases) = 11
  BY <1>3, CCKindOf DEF CCPhases
<1>6. Len(ccSweeps) = (IF ccPhase = 5 THEN 0 ELSE 1) /\ ccSweeps \in Seq([CCKinds -> SUBSET CCItems])
  BY <1>1, <1>5 DEF CCWorking, CCSweepsOK, CCForms
<1> HIDE DEF got2
<1>7. ASSUME NEW k \in CCKinds
      PROVE  /\ got[k] \in Seq(CCItems) /\ CCUnique(ToSet(got[k])) /\ CCOlder(ToSet(got[k]), ToSet(ccHub[k]))
             /\ ccPhase = 9 => CCOlder(ToSet(ccSnap[k]), ToSet(got[k]))
  <2>1. got[k] = IF k = "statuses" THEN got2 ELSE ccGot[k]
    BY <1>1 DEF CCWorking, CCGotOK
  <2>2. ccGot[k] \in Seq(CCItems) /\ CCUnique(ToSet(ccGot[k])) /\ CCOlder(ToSet(ccGot[k]), ToSet(ccHub[k]))
    BY <1>1 DEF CCWorking, CCGotOK
  <2>3. ccPhase = 9 /\ k # "statuses" => CCOlder(ToSet(ccSnap[k]), ToSet(ccGot[k]))
    <3>1. ccPhase = 9 /\ k # "statuses" => CCRead(k) /\ ccPhase > 6
      BY DEF CCRead, CCKinds
    <3> QED BY <1>1, <3>1 DEF CCWorking, CCSnapOK
  <2> QED BY <1>4, <2>1, <2>2, <2>3
<1> HIDE DEF got
<1>8. CCSemantic(got) \in [CCKinds -> SUBSET CCItems] /\ \A k \in CCKinds : CCSemantic(got)[k] = ToSet(got[k])
  <2>1. \A k \in CCKinds : ToSet(got[k]) \in SUBSET CCItems
    <3>1. \A s \in Seq(CCItems) : ToSet(s) \in SUBSET CCItems
      BY DEF ToSet
    <3> QED BY <1>7, <3>1
  <2> QED BY <2>1 DEF CCSemantic
<1>9. CASE ~CCResolved(got)
  <2>1. CCTypeOK'
    BY <1>1, <1>2, <1>3, <1>9 DEF CCTypeOK
  <2> QED BY <1>2, <1>9, <2>1, CCStops
<1>10. CASE CCResolved(got)
  <2>1. ccPhase' = ccPhase + 1 /\ ccSweeps' = Append(ccSweeps, CCSemantic(got)) /\ ccOut' = ccOut
    BY <1>2, <1>10
  <2>2. /\ ccSweeps' \in Seq([CCKinds -> SUBSET CCItems]) /\ Len(ccSweeps') = Len(ccSweeps) + 1
        /\ ccPhase = 5 => ccSweeps'[1] = CCSemantic(got)
        /\ ccPhase = 9 => ccSweeps'[1] = ccSweeps[1] /\ ccSweeps'[2] = CCSemantic(got)
    BY <1>6, <1>8, <2>1
  <2>3. CCTypeOK'
    BY <1>1, <1>2, <1>3, <1>5, <1>6, <2>1, <2>2 DEF CCTypeOK
  <2>4. CCForms'
    BY <1>1, <1>2, <1>5, <2>1, <2>2 DEF CCWorking, CCForms
  <2>5. CCSweepsOK'
    <3>1. Len(ccSweeps') = (IF ccPhase' <= 5 THEN 0 ELSE IF ccPhase' <= 9 THEN 1 ELSE 2)
      BY <1>5, <1>6, <2>1, <2>2
    <3>2. \A k \in CCKinds : CCUnique(ccSweeps'[1][k])
      BY <1>1, <1>5, <1>7, <1>8, <2>2 DEF CCWorking, CCSweepsOK
    <3>3. \A k \in CCKinds : ccPhase' = 6 => CCOlder(ccSweeps'[1][k], ToSet(ccHub[k]))
      BY <1>5, <1>7, <1>8, <2>1, <2>2
    <3> QED BY <1>2, <3>1, <3>2, <3>3 DEF CCSweepsOK
  <2>6. CCHubOK'
    BY <1>1, <1>2 DEF CCWorking, CCHubOK, CCGood
  <2>7. CCKind' \in {"H1", "H2"}
    BY <1>5, <2>1 DEF CCKind, CCPhases
  <2>8. CCGotOK'
    <3>1. \A k \in CCKinds : ccGot'[k] = <<>> /\ ToSet(ccGot'[k]) = {}
      BY <1>2 DEF CCEmpty, ToSet
    <3>2. ccGot' = [k \in CCKinds |-> ccGot'[k]] /\ <<>> \in Seq(CCItems)
      BY <1>2 DEF CCEmpty
    <3> QED BY <3>1, <3>2 DEF CCGotOK, CCUnique, CCOlder
  <2>9. CCPlaceOK' /\ CCPageOK'
    BY <1>2, <2>7 DEF CCPlaceOK, CCPageOK, CCKinds
  <2>10. CCSnapOK'
    <3> SUFFICES ASSUME ccPhase' > 6, NEW k \in CCKinds
                 PROVE  /\ ToSet(ccSnap[k]) \subseteq CCItems /\ CCUnique(ToSet(ccSnap[k])) /\ CCOlder(ToSet(ccSnap[k]), ToSet(ccHub[k]))
                        /\ CCOlder(ccSweeps'[1][k], ToSet(ccSnap[k])) /\ CCNewer(ToSet(ccSnap[k]), ToSet(ccGot'[k]))
                        /\ CCRead(k)' => CCOlder(ToSet(ccSnap[k]), ToSet(ccGot'[k]))
                        /\ ccPhase' > 9 => CCOlder(ToSet(ccSnap[k]), ccSweeps'[2][k])
      BY <1>2 DEF CCSnapOK
    <3>1. ccPhase = 9
      BY <1>5, <2>1
    <3>2. /\ ToSet(ccSnap[k]) \subseteq CCItems /\ CCUnique(ToSet(ccSnap[k])) /\ CCOlder(ToSet(ccSnap[k]), ToSet(ccHub[k]))
          /\ CCOlder(ccSweeps[1][k], ToSet(ccSnap[k]))
      <4>1. CCSnapOK /\ ccPhase > 6 BY <1>1, <3>1 DEF CCWorking
      <4> QED BY <4>1, Zenon DEF CCSnapOK
    <3>3. CCNewer(ToSet(ccSnap[k]), ToSet(ccGot'[k]))
      BY <1>2 DEF CCEmpty, ToSet, CCNewer
    <3>4. ~CCRead(k)'
      BY <2>1, <3>1 DEF CCRead
    <3>5. CCOlder(ToSet(ccSnap[k]), ccSweeps'[2][k])
      BY <1>7, <1>8, <2>2, <3>1
    <3> QED BY <2>2, <3>1, <3>2, <3>3, <3>4, <3>5
  <2>11. CCStableIsASnapshot'
    BY <2>1 DEF CCStableIsASnapshot
  <2> QED BY <2>3, <2>4, <2>5, <2>6, <2>8, <2>9, <2>10, <2>11 DEF CCInv, CCSound, CCWorking
<1> QED BY <1>9, <1>10

\* A page of the suites or the runs keeps the invariant.
LEMMA CCCountedKeeps ==
  ASSUME CCInv, CCGet, CCKind \in {"suites", "runs"}, CCCounted, CCKeepHub, UNCHANGED <<ccHeads, ccSnap, ccFaults>>
  PROVE  CCInv'
<1> DEFINE total == Len(CCList)  n == Len(ccGot[CCKind]) + Len(CCPageItems)
<1>1. CCTypeOK /\ CCWorking /\ ccOut = "none" /\ CCKind \in CCKinds
  BY DEF CCInv, CCSound, CCGet, CCKinds
<1>2. /\ ccRequests' \in 0..CCMaxRequests /\ CCPerPage \in Nat \ {0} /\ CCMaxItems \in Nat \ {0} /\ CCMaxPages \in Nat \ {0}
      /\ ccPage \in Nat /\ CCAhead \in Nat /\ ccPage - 1 <= CCAhead
  BY <1>1, CCNumbers DEF CCGet
<1>3. ASSUME NEW o \in {"TRUNCATED", "UNSTABLE"}, CCFails(o)  PROVE CCInv'
  <2>1. CCFinish(o) /\ CCTypeOK'
    BY <1>1, <1>2, <1>3 DEF CCFails, CCTypeOK, CCKeepHub
  <2> QED BY <2>1, CCStops
<1>4. \/ CCFails("TRUNCATED") \/ CCFails("UNSTABLE")
      \/ ~CCRepeated /\ ~CCMore /\ CCNextKind
      \/ ~CCRepeated /\ total <= CCMaxItems /\ ~(Len(CCPageItems) < CCPerPage) /\ CCNextPage
  <2>1. total \in Nat
    BY <1>1 DEF CCWorking, CCHubOK, CCGood, CCList
  <2> HIDE DEF n, total
  <2> QED BY <1>2, <2>1 DEF CCCounted, n, total
<1>5. CASE ~CCRepeated /\ ~CCMore /\ CCNextKind
  BY <1>1, <1>2, <1>5, CCNextKindKeeps
<1>6. CASE ~CCRepeated /\ total <= CCMaxItems /\ ~(Len(CCPageItems) < CCPerPage) /\ CCNextPage
  <2> DEFINE hi == IF CCMore THEN CCAhead + CCPerPage ELSE Len(CCList)
  <2>1. hi \in CCAhead..total /\ Len(CCPageItems) = hi - CCAhead /\ total \in Nat
    BY <1>1, <1>6, CCPageRead
  <2> HIDE DEF hi
  <2>2. Len(CCPageItems) >= CCPerPage /\ ccPage + 1 <= CCMaxPages + CCMaxItems
    BY <1>2, <1>6, <2>1
  <2> QED BY <1>1, <1>2, <1>6, <2>2, CCNextPageKeeps
<1> QED BY <1>3, <1>4, <1>5, <1>6

\* A page of the statuses keeps the invariant.
LEMMA CCUncountedKeeps ==
  ASSUME CCInv, CCGet, CCKind = "statuses", CCUncounted, CCKeepHub, UNCHANGED <<ccHeads, ccSnap, ccFaults>>
  PROVE  CCInv'
<1>1. CCTypeOK /\ CCWorking /\ ccOut = "none" /\ CCKind \in CCKinds
  BY DEF CCInv, CCSound, CCGet, CCKinds
<1>2. /\ ccRequests' \in 0..CCMaxRequests /\ CCPerPage \in Nat \ {0} /\ CCMaxItems \in Nat \ {0} /\ CCMaxPages \in Nat \ {0}
      /\ ccPage \in Nat /\ CCAhead \in Nat /\ ccPage <= CCMaxPages
  BY <1>1, CCNumbers DEF CCGet, CCWorking, CCPageOK
<1>3. ASSUME NEW o \in {"TRUNCATED", "UNSTABLE"}, CCFails(o)  PROVE CCInv'
  <2>1. CCFinish(o) /\ CCTypeOK'
    BY <1>1, <1>2, <1>3 DEF CCFails, CCTypeOK, CCKeepHub
  <2> QED BY <2>1, CCStops
<1>4. \/ CCFails("TRUNCATED") \/ CCFails("UNSTABLE")
      \/ ~CCRepeated /\ ~CCMore /\ CCNextKind
      \/ ~CCRepeated /\ ccPage # CCMaxPages /\ (~(Len(CCPageItems) < CCPerPage) \/ CCMore) /\ CCNextPage
  BY DEF CCUncounted
<1>5. CASE ~CCRepeated /\ ~CCMore /\ CCNextKind
  BY <1>1, <1>2, <1>5, CCSweepEndKeeps
<1>6. CASE ~CCRepeated /\ ccPage # CCMaxPages /\ (~(Len(CCPageItems) < CCPerPage) \/ CCMore) /\ CCNextPage
  <2> DEFINE hi == IF CCMore THEN CCAhead + CCPerPage ELSE Len(CCList)
  <2>1. hi \in CCAhead..Len(CCList) /\ Len(CCPageItems) = hi - CCAhead /\ Len(CCList) \in Nat
    BY <1>1, <1>6, CCPageRead
  <2>2. CCMore => hi = CCAhead + CCPerPage
    OBVIOUS
  <2> HIDE DEF hi
  <2>3. Len(CCPageItems) >= CCPerPage
    BY <1>2, <1>6, <2>1, <2>2
  <2>4. ccPage + 1 <= CCMaxPages + CCMaxItems /\ ccPage + 1 <= CCMaxPages
    BY <1>2, <1>6
  <2> QED BY <1>1, <1>2, <1>6, <2>3, <2>4, CCNextPageKeeps
<1> QED BY <1>3, <1>4, <1>5, <1>6

\* Reading the head of the branch keeps the invariant.
LEMMA CCReadHeadKeeps == CCInv /\ CCReadHead => CCInv'
<1> SUFFICES ASSUME CCInv, CCReadHead  PROVE CCInv'
  OBVIOUS
<1>1. CCTypeOK /\ CCWorking /\ ccOut = "none"
  BY DEF CCInv, CCSound, CCReadHead, CCGet
<1>2. /\ ccRequests' \in 0..CCMaxRequests /\ ccPhase \in {2, 6, 10} /\ ccPhase \in 1..11
      /\ ccHeads = (IF ccPhase = 2 THEN 0 ELSE IF ccPhase = 6 THEN 1 ELSE 2)
  <2>1. ccPhase \in {2, 6, 10} /\ ccRequests' = ccRequests + 1 /\ ccRequests < CCMaxRequests
    BY DEF CCReadHead, CCGet, CCHeads
  <2>2. ccPhase \in 1..11 /\ ccRequests \in 0..CCMaxRequests /\ CCMaxRequests \in Nat
    BY <1>1, CCNumbers
  <2>3. ccHeads = (IF ccPhase <= 2 THEN 0 ELSE IF ccPhase <= 6 THEN 1 ELSE IF ccPhase <= 10 THEN 2 ELSE 3)
    BY <1>1 DEF CCWorking, CCForms
  <2> QED BY <2>1, <2>2, <2>3
<1>3. /\ ccHeads' = ccHeads + 1 /\ ccHub' = ccHub /\ ccHead' = ccHead /\ ccChanges' = ccChanges /\ ccPage' = ccPage /\ ccGot' = ccGot
      /\ ccSweeps' = ccSweeps /\ ccFaults' = ccFaults
  BY DEF CCReadHead, CCKeepHub
<1>4. CASE ~ccHead
  <2>1. CCFinish("STALE_HEAD") /\ ccPhase' = ccPhase
    BY <1>4 DEF CCReadHead
  <2>2. CCTypeOK'
    BY <1>1, <1>2, <1>3, <2>1 DEF CCTypeOK
  <2> QED BY <2>1, <2>2, CCStops
<1>5. CASE ccHead
  <2>1. ccPhase' = ccPhase + 1 /\ ccOut' = ccOut /\ ccPhase' \in 1..11 /\ Len(CCPhases) = 11
    BY <1>2, <1>5 DEF CCReadHead, CCPhases
  <2>2. ccSnap' = (IF ccPhase = 6 THEN ccHub ELSE ccSnap)
    <3>1. CCKind = "H1" <=> ccPhase = 6
      BY <1>2, CCKindOf
    <3> QED BY <3>1 DEF CCReadHead
  <2>3. CCTypeOK'
    BY <1>1, <1>2, <1>3, <2>1 DEF CCTypeOK
  <2>4. CCForms' /\ CCSweepsOK'
    BY <1>1, <1>2, <1>3, <2>1 DEF CCWorking, CCForms, CCSweepsOK
  <2>5. CCHubOK'
    BY <1>1, <1>3 DEF CCWorking, CCHubOK, CCGood
  <2>6. CCKind \notin CCKinds /\ (\A k \in CCKinds : ~CCRead(k))
    BY <1>2, CCKindOf DEF CCKinds, CCRead
  <2>7. \A k \in CCKinds : ccGot[k] = <<>> /\ ccPage = 1
    BY <1>1, <2>6 DEF CCWorking, CCGotOK, CCPageOK
  <2>8. CCGotOK'
    BY <1>1, <1>3, <2>7 DEF CCWorking, CCGotOK
  <2>9. CCPlaceOK'
    <3> SUFFICES ASSUME CCKind' \in CCKinds
                 PROVE  CCAhead' <= Len(CCList') /\ CCGotIds(ccGot'[CCKind']) = {CCList'[i].id : i \in 1..CCAhead'}
      BY DEF CCPlaceOK
    <3>1. CCAhead' = 0
      <4>1. CCAhead' = (1 - 1) * CCPerPage
        BY <1>3, <2>7 DEF CCAhead, CCKinds
      <4> QED BY <1>1, <4>1, CCNumbers
    <3>2. Len(CCList') \in Nat
      BY <2>5 DEF CCList, CCHubOK, CCGood
    <3>3. CCGotIds(ccGot'[CCKind']) = {}
      BY <1>3, <2>7 DEF CCGotIds
    <3> QED BY <3>1, <3>2, <3>3
  <2>10. CCPageOK'
    <3>1. ccPage' = 1 /\ CCMaxPages \in Nat \ {0}
      BY <1>1, <1>3, <2>7, CCNumbers DEF CCKinds
    <3> QED BY <3>1 DEF CCPageOK
  <2>11. CCSnapOK'
    <3> SUFFICES ASSUME ccPhase' > 6, NEW k \in CCKinds
                 PROVE  /\ ToSet(ccSnap'[k]) \subseteq CCItems /\ CCUnique(ToSet(ccSnap'[k])) /\ CCOlder(ToSet(ccSnap'[k]), ToSet(ccHub[k]))
                        /\ CCOlder(ccSweeps[1][k], ToSet(ccSnap'[k])) /\ CCNewer(ToSet(ccSnap'[k]), ToSet(ccGot[k]))
                        /\ CCRead(k)' => CCOlder(ToSet(ccSnap'[k]), ToSet(ccGot[k]))
                        /\ ccPhase' > 9 => CCOlder(ToSet(ccSnap'[k]), ccSweeps[2][k])
      BY <1>3 DEF CCSnapOK
    <3>1. ~CCRead(k)' /\ CCNewer(ToSet(ccSnap'[k]), ToSet(ccGot[k]))
      BY <1>2, <2>1, <2>7 DEF CCRead, CCNewer, ToSet
    <3>2. CASE ccPhase = 6
      <4>1. ccSnap' = ccHub /\ ~(ccPhase' > 9)
        BY <2>1, <2>2, <3>2
      <4>2. ccHub[k] \in Seq(CCItems) /\ \A i, j \in DOMAIN ccHub[k] : ccHub[k][i].id = ccHub[k][j].id => i = j
        BY <1>1 DEF CCWorking, CCHubOK, CCGood
      <4>3. ToSet(ccHub[k]) \subseteq CCItems /\ CCUnique(ToSet(ccHub[k]))
        BY <4>2 DEF ToSet, CCUnique
      <4>4. CCOlder(ToSet(ccHub[k]), ToSet(ccHub[k]))
        BY <4>3 DEF CCOlder, CCItems
      <4>5. CCOlder(ccSweeps[1][k], ToSet(ccHub[k]))
        BY <1>1, <3>2 DEF CCWorking, CCSweepsOK
      <4> QED BY <3>1, <4>1, <4>3, <4>4, <4>5
    <3>3. CASE ccPhase = 10
      BY <1>1, <2>1, <2>2, <3>1, <3>3 DEF CCWorking, CCSnapOK
    <3> QED BY <1>2, <2>1, <3>2, <3>3
  <2>12. CCStableIsASnapshot'
    BY <1>1, <2>1 DEF CCStableIsASnapshot
  <2> QED BY <2>3, <2>4, <2>5, <2>8, <2>9, <2>10, <2>11, <2>12 DEF CCInv, CCSound, CCWorking
<1> QED BY <1>4, <1>5

\* An item put into a list.
LEMMA CCInserted ==
  ASSUME NEW L \in Seq(CCItems), NEW i \in 1..(Len(L) + 1), NEW e \in CCItems
  PROVE  LET t == InsertAt(L, i, e) IN
         /\ t \in Seq(CCItems) /\ Len(t) = Len(L) + 1 /\ t[i] = e
         /\ \A j \in DOMAIN L : IF j < i THEN t[j] = L[j] ELSE t[j + 1] = L[j]
<1> DEFINE a == SubSeq(L, 1, i - 1)  b == SubSeq(L, i, Len(L))  t == InsertAt(L, i, e)
<1>1. Len(L) \in Nat /\ DOMAIN L = 1..Len(L) /\ i \in Nat /\ i >= 1 /\ i <= Len(L) + 1 /\ \A j \in 1..Len(L) : L[j] \in CCItems
  OBVIOUS
<1>2. a \in Seq(CCItems) /\ Len(a) = i - 1 /\ \A j \in 1..(i - 1) : a[j] = L[j]
  <2>1. \A j \in 1..(i - 1) : L[j] \in CCItems
    BY <1>1
  <2>2. /\ a \in Seq(CCItems) /\ Len(a) = (IF 1 <= i - 1 THEN i - 1 - 1 + 1 ELSE 0) /\ \A j \in 1..(i - 1 - 1 + 1) : a[j] = L[1 + j - 1]
    BY <1>1, <2>1, SubSeqProperties
  <2> HIDE DEF a
  <2>3. Len(a) = i - 1 /\ \A j \in 1..(i - 1) : j \in 1..(i - 1 - 1 + 1) /\ 1 + j - 1 = j
    BY <1>1, <2>2
  <2> QED BY <2>2, <2>3
<1>3. b \in Seq(CCItems) /\ Len(b) = Len(L) - i + 1 /\ \A j \in 1..(Len(L) - i + 1) : b[j] = L[i + j - 1]
  <2>1. \A j \in i..Len(L) : L[j] \in CCItems
    BY <1>1
  <2>2. b \in Seq(CCItems) /\ Len(b) = (IF i <= Len(L) THEN Len(L) - i + 1 ELSE 0) /\ \A j \in 1..(Len(L) - i + 1) : b[j] = L[i + j - 1]
    BY <1>1, <2>1, SubSeqProperties
  <2> HIDE DEF b
  <2> QED BY <1>1, <2>2
<1>4. t = a \o <<e>> \o b
  BY DEF InsertAt
<1> HIDE DEF a, b, t
<1>5. /\ a \o <<e>> \in Seq(CCItems) /\ Len(a \o <<e>>) = i
      /\ \A j \in 1..i : (a \o <<e>>)[j] = IF j <= i - 1 THEN a[j] ELSE e
  BY <1>1, <1>2
<1>6. /\ t \in Seq(CCItems) /\ Len(t) = i + (Len(L) - i + 1)
      /\ \A j \in 1..(i + (Len(L) - i + 1)) : t[j] = IF j <= i THEN (a \o <<e>>)[j] ELSE b[j - i]
  <2> DEFINE c == a \o <<e>>
  <2>1. t = c \o b /\ c \in Seq(CCItems) /\ Len(c) = i
    BY <1>4, <1>5
  <2> HIDE DEF c
  <2>2. /\ c \o b \in Seq(CCItems) /\ Len(c \o b) = Len(c) + Len(b)
        /\ \A j \in 1..(Len(c) + Len(b)) : (c \o b)[j] = IF j <= Len(c) THEN c[j] ELSE b[j - Len(c)]
    BY <1>3, <2>1, ConcatProperties
  <2>3. Len(b) = Len(L) - i + 1
    BY <1>3
  <2>4. \A j \in 1..(i + (Len(L) - i + 1)) : t[j] = IF j <= i THEN c[j] ELSE b[j - i]
    BY <2>1, <2>2, <2>3
  <2> QED BY <2>1, <2>2, <2>3, <2>4 DEF c
<1>7. t[i] = e /\ Len(t) = Len(L) + 1
  BY <1>1, <1>5, <1>6
<1>8. ASSUME NEW j \in DOMAIN L, j < i  PROVE t[j] = L[j]
  BY <1>1, <1>2, <1>5, <1>6, <1>8
<1>9. ASSUME NEW j \in DOMAIN L, ~(j < i)  PROVE t[j + 1] = L[j]
  <2>1. t[j + 1] = b[j + 1 - i]
    BY <1>1, <1>6, <1>9
  <2>2. b[j + 1 - i] = L[i + (j + 1 - i) - 1]
    <3>1. j + 1 - i \in 1..(Len(L) - i + 1)
      BY <1>1, <1>9
    <3> QED BY <1>3, <3>1
  <2>3. i + (j + 1 - i) - 1 = j
    BY <1>1
  <2> QED BY <2>1, <2>2, <2>3
<1> QED BY <1>6, <1>7, <1>8, <1>9 DEF t

\* A newer list is newer than what an older one is newer than.
LEMMA CCOlderStill ==
  ASSUME NEW A \in SUBSET CCItems, NEW B \in SUBSET CCItems, NEW C \in SUBSET CCItems, CCOlder(A, B), CCOlder(B, C)
  PROVE  CCOlder(A, C)
<1>1. \A x \in CCItems : x.ver \in Nat
  BY DEF CCItems
<1> SUFFICES ASSUME NEW x \in A  PROVE \E z \in C : x.id = z.id /\ x.suite = z.suite /\ x.ver <= z.ver
  BY DEF CCOlder
<1>2. PICK y \in B : x.id = y.id /\ x.suite = y.suite /\ x.ver <= y.ver
  BY DEF CCOlder
<1>3. PICK z \in C : y.id = z.id /\ y.suite = z.suite /\ y.ver <= z.ver
  BY DEF CCOlder
<1> QED BY <1>1, <1>2, <1>3

\* A change of the hub that only adds to its lists keeps the invariant.
LEMMA CCHubKeeps ==
  ASSUME CCInv, CCChange, CCHubOK', CCPlaceOK', \A k \in CCKinds : CCOlder(ToSet(ccHub[k]), ToSet(ccHub'[k]))
  PROVE  CCInv'
<1>1. CCTypeOK /\ CCWorking
  BY DEF CCInv, CCSound, CCChange
<1>2. /\ ccPhase' = ccPhase /\ ccPage' = ccPage /\ ccGot' = ccGot /\ ccTotal' = ccTotal /\ ccHeads' = ccHeads /\ ccSweeps' = ccSweeps
      /\ ccSnap' = ccSnap /\ ccRequests' = ccRequests /\ ccOut' = ccOut /\ ccFaults' = ccFaults /\ CCKind' = CCKind
      /\ ccChanges < CCMaxChanges /\ ccChanges' = ccChanges + 1
  BY DEF CCChange, CCKeepRead, CCKind
<1>3. CCTypeOK'
  BY <1>1, <1>2, CCAssumption DEF CCTypeOK
<1>4. CCForms' /\ CCPageOK'
  BY <1>1, <1>2 DEF CCWorking, CCForms, CCPageOK
<1>5. \A s \in Seq(CCItems) : ToSet(s) \in SUBSET CCItems
  BY DEF ToSet
<1>6. \A k \in CCKinds : ToSet(ccHub[k]) \in SUBSET CCItems /\ ToSet(ccHub'[k]) \in SUBSET CCItems
  BY <1>1, <1>5 DEF CCWorking, CCHubOK, CCGood
<1>7. \A k \in CCKinds : CCRead(k)' = CCRead(k)
  BY <1>2 DEF CCRead
<1>8. \A k \in CCKinds : CCOlder(ToSet(ccGot[k]), ToSet(ccHub'[k]))
  <2> SUFFICES ASSUME NEW k \in CCKinds  PROVE CCOlder(ToSet(ccGot[k]), ToSet(ccHub'[k]))
    OBVIOUS
  <2>1. ToSet(ccGot[k]) \in SUBSET CCItems /\ CCOlder(ToSet(ccGot[k]), ToSet(ccHub[k]))
    BY <1>1, <1>5 DEF CCWorking, CCGotOK
  <2> QED BY <1>6, <2>1, CCOlderStill
<1>9. CCGotOK'
  BY <1>1, <1>2, <1>7, <1>8 DEF CCWorking, CCGotOK
<1>10. CCSweepsOK'
  <2>1. ASSUME NEW k \in CCKinds, ccPhase = 6  PROVE CCOlder(ccSweeps[1][k], ToSet(ccHub'[k]))
    <3>1. CCOlder(ccSweeps[1][k], ToSet(ccHub[k])) /\ Len(ccSweeps) = 1 /\ ccSweeps \in Seq([CCKinds -> SUBSET CCItems])
      BY <1>1, <2>1 DEF CCWorking, CCSweepsOK, CCForms
    <3>2. ccSweeps[1] \in [CCKinds -> SUBSET CCItems]
      BY <3>1
    <3> QED BY <1>6, <3>1, <3>2, CCOlderStill
  <2> QED BY <1>1, <1>2, <2>1 DEF CCWorking, CCSweepsOK
<1>11. CCSnapOK'
  <2>1. ASSUME NEW k \in CCKinds, ccPhase > 6  PROVE CCOlder(ToSet(ccSnap[k]), ToSet(ccHub'[k]))
    <3>1. ToSet(ccSnap[k]) \in SUBSET CCItems /\ CCOlder(ToSet(ccSnap[k]), ToSet(ccHub[k]))
      BY <1>1, <2>1 DEF CCWorking, CCSnapOK
    <3> QED BY <1>6, <3>1, CCOlderStill
  <2> QED BY <1>1, <1>2, <1>7, <2>1 DEF CCWorking, CCSnapOK
<1>12. CCStableIsASnapshot'
  BY <1>2 DEF CCStableIsASnapshot, CCInv, CCChange
<1> QED BY <1>3, <1>4, <1>9, <1>10, <1>11, <1>12 DEF CCInv, CCSound, CCWorking

\* A list that does not change stays a list of the hub.
LEMMA CCUnchangedList ==
  ASSUME ccChanges \in Nat, ccChanges' = ccChanges + 1, NEW L, CCGood(L, ccChanges)
  PROVE  CCGood(L, ccChanges') /\ CCOlder(ToSet(L), ToSet(L))
<1>1. L \in Seq(CCItems) /\ DOMAIN L = 1..Len(L) /\ Len(L) \in Nat /\ \A j \in DOMAIN L : L[j] \in CCItems /\ L[j].ver <= ccChanges
  BY DEF CCGood
<1>2. \A j \in DOMAIN L : L[j].ver \in Nat
  BY <1>1 DEF CCItems
<1>3. \A j \in DOMAIN L : L[j].ver <= ccChanges + 1 /\ L[j].ver <= L[j].ver
  BY <1>1, <1>2
<1>4. CCGood(L, ccChanges')
  BY <1>1, <1>3 DEF CCGood
<1>5. CCOlder(ToSet(L), ToSet(L))
  BY <1>3 DEF CCOlder, ToSet
<1> QED BY <1>4, <1>5

\* A list of which one item gets a new version stays a list of the hub.
LEMMA CCVersioned ==
  ASSUME ccChanges \in Nat, ccChanges' = ccChanges + 1, NEW L, CCGood(L, ccChanges), NEW i \in DOMAIN L,
         NEW M, M = [L EXCEPT ![i].ver = ccChanges + 1]
  PROVE  /\ CCGood(M, ccChanges') /\ CCOlder(ToSet(L), ToSet(M)) /\ Len(M) = Len(L) /\ DOMAIN M = DOMAIN L
         /\ \A j \in DOMAIN L : M[j].id = L[j].id
<1>1. L \in Seq(CCItems) /\ DOMAIN L = 1..Len(L) /\ Len(L) \in Nat /\ \A j \in DOMAIN L : L[j] \in CCItems /\ L[j].ver <= ccChanges
  BY DEF CCGood
<1> DEFINE e == [L[i] EXCEPT !.ver = ccChanges + 1]
<1>2. e \in CCItems /\ e.id = L[i].id /\ e.suite = L[i].suite /\ e.ver = ccChanges + 1
  <2>1. L[i] \in CCItems /\ ccChanges + 1 \in Nat
    BY <1>1
  <2>2. e = [id |-> L[i].id, ver |-> ccChanges + 1, suite |-> L[i].suite]
    BY <2>1 DEF CCItems
  <2> QED BY <2>1, <2>2 DEF CCItems
<1>3. M = [L EXCEPT ![i] = e]
  OBVIOUS
<1> HIDE DEF e
<1>4. M \in Seq(CCItems) /\ Len(M) = Len(L) /\ DOMAIN M = DOMAIN L /\ \A j \in DOMAIN L : M[j] = IF j = i THEN e ELSE L[j]
  BY <1>1, <1>2, <1>3, ExceptSeq
<1>5. \A j \in DOMAIN L : M[j].id = L[j].id /\ M[j].suite = L[j].suite /\ L[j].ver <= M[j].ver /\ M[j].ver <= ccChanges + 1
  <2> SUFFICES ASSUME NEW j \in DOMAIN L
               PROVE  M[j].id = L[j].id /\ M[j].suite = L[j].suite /\ L[j].ver <= M[j].ver /\ M[j].ver <= ccChanges + 1
    OBVIOUS
  <2>1. L[j].ver \in Nat /\ L[j].ver <= ccChanges
    BY <1>1 DEF CCItems
  <2> QED BY <1>2, <1>4, <2>1
<1>6. CCGood(M, ccChanges')
  <2>1. CCGood(L, ccChanges) /\ \A j \in DOMAIN M : M[j].id <= Len(M) /\ M[j].ver <= ccChanges'
    BY <1>4, <1>5 DEF CCGood
  <2>2. \A j, k \in DOMAIN M : M[j].id = M[k].id => j = k
    BY <1>4, <1>5, <2>1 DEF CCGood
  <2> QED BY <1>4, <2>1, <2>2 DEF CCGood
<1>7. CCOlder(ToSet(L), ToSet(M))
  <2> SUFFICES ASSUME NEW j \in DOMAIN L  PROVE \E y \in ToSet(M) : L[j].id = y.id /\ L[j].suite = y.suite /\ L[j].ver <= y.ver
    BY DEF CCOlder, ToSet
  <2>1. M[j] \in ToSet(M)
    BY <1>4 DEF ToSet
  <2> QED BY <1>5, <2>1
<1> QED BY <1>4, <1>5, <1>6, <1>7

\* A list into which a new item is put stays a list of the hub.
LEMMA CCLengthened ==
  ASSUME ccChanges \in Nat, ccChanges' = ccChanges + 1, NEW L, CCGood(L, ccChanges), NEW i \in 1..(Len(L) + 1), NEW s \in Nat,
         NEW M, M = InsertAt(L, i, [id |-> Len(L) + 1, ver |-> 0, suite |-> s])
  PROVE  /\ CCGood(M, ccChanges') /\ CCOlder(ToSet(L), ToSet(M)) /\ Len(M) = Len(L) + 1
         /\ \A j \in DOMAIN L : IF j < i THEN M[j] = L[j] ELSE M[j + 1] = L[j]
<1> DEFINE e == [id |-> Len(L) + 1, ver |-> 0, suite |-> s]
<1>1. /\ L \in Seq(CCItems) /\ DOMAIN L = 1..Len(L) /\ Len(L) \in Nat /\ \A j \in DOMAIN L : L[j] \in CCItems /\ L[j].ver <= ccChanges
      /\ \A j \in DOMAIN L : L[j].id <= Len(L) /\ \A k \in DOMAIN L : L[j].id = L[k].id => j = k
  BY DEF CCGood
<1>2. e \in CCItems /\ e.id = Len(L) + 1 /\ e.ver = 0
  BY <1>1 DEF CCItems
<1>3. M = InsertAt(L, i, e)
  OBVIOUS
<1> HIDE DEF e
<1>4. M \in Seq(CCItems) /\ Len(M) = Len(L) + 1 /\ M[i] = e /\ \A j \in DOMAIN L : IF j < i THEN M[j] = L[j] ELSE M[j + 1] = L[j]
  <2>1. LET t == InsertAt(L, i, e) IN
        /\ t \in Seq(CCItems) /\ Len(t) = Len(L) + 1 /\ t[i] = e
        /\ \A j \in DOMAIN L : IF j < i THEN t[j] = L[j] ELSE t[j + 1] = L[j]
    BY <1>1, <1>2, CCInserted
  <2> QED BY <1>3, <2>1
<1>5. DOMAIN M = 1..(Len(L) + 1) /\ i \in Nat /\ i >= 1 /\ i <= Len(L) + 1
  BY <1>1, <1>4
<1>6. \A q \in DOMAIN M : q < i => q \in DOMAIN L /\ M[q] = L[q]
  BY <1>1, <1>4, <1>5
<1>7. \A q \in DOMAIN M : q > i => q - 1 \in DOMAIN L /\ M[q] = L[q - 1]
  <2> SUFFICES ASSUME NEW q \in DOMAIN M, q > i  PROVE q - 1 \in DOMAIN L /\ M[q] = L[q - 1]
    OBVIOUS
  <2>1. q - 1 \in DOMAIN L /\ ~(q - 1 < i) /\ (q - 1) + 1 = q
    BY <1>1, <1>5
  <2> QED BY <1>4, <2>1
<1>8. \A q \in DOMAIN M : q < i \/ q = i \/ q > i
  BY <1>5
<1>9. \A q \in DOMAIN M : M[q].id <= Len(M) /\ M[q].ver <= ccChanges'
  <2> SUFFICES ASSUME NEW q \in DOMAIN M  PROVE M[q].id <= Len(M) /\ M[q].ver <= ccChanges'
    OBVIOUS
  <2>1. \A j \in DOMAIN L : L[j].id \in Nat /\ L[j].ver \in Nat
    BY <1>1 DEF CCItems
  <2>2. CASE q = i
    BY <1>1, <1>2, <1>4, <2>2
  <2>3. CASE q < i
    <3>1. M[q].id = L[q].id /\ M[q].ver = L[q].ver /\ L[q].id <= Len(L) /\ L[q].ver <= ccChanges /\ q \in DOMAIN L
      BY <1>1, <1>6, <2>3
    <3> QED BY <1>1, <1>4, <2>1, <3>1
  <2>4. CASE q > i
    <3>1. M[q].id = L[q - 1].id /\ M[q].ver = L[q - 1].ver /\ L[q - 1].id <= Len(L) /\ L[q - 1].ver <= ccChanges /\ q - 1 \in DOMAIN L
      BY <1>1, <1>7, <2>4
    <3> QED BY <1>1, <1>4, <2>1, <3>1
  <2> QED BY <1>8, <2>2, <2>3, <2>4
<1>10. \A p, q \in DOMAIN M : M[p].id = M[q].id => p = q
  <2> SUFFICES ASSUME NEW p \in DOMAIN M, NEW q \in DOMAIN M, M[p].id = M[q].id  PROVE p = q
    OBVIOUS
  <2> DEFINE back(r) == IF r < i THEN r ELSE r - 1
  <2>1. \A r \in DOMAIN M : r # i => back(r) \in DOMAIN L /\ M[r] = L[back(r)]
    BY <1>6, <1>7, <1>8
  <2>2. \A j \in DOMAIN L : L[j].id \in Nat /\ L[j].id # Len(L) + 1
    <3>1. \A j \in DOMAIN L : L[j].id \in Nat /\ L[j].id <= Len(L)
      BY <1>1 DEF CCItems
    <3> QED BY <1>1, <3>1
  <2>3. p = i <=> q = i
    BY <1>2, <1>4, <2>1, <2>2
  <2>4. CASE p # i /\ q # i
    <3>1. back(p) = back(q)
      BY <1>1, <2>1, <2>4
    <3>2. p \in Nat /\ q \in Nat
      BY <1>5
    <3> QED BY <1>5, <2>4, <3>1, <3>2
  <2> QED BY <2>3, <2>4
<1>11. CCGood(M, ccChanges')
  BY <1>4, <1>9, <1>10 DEF CCGood
<1>12. CCOlder(ToSet(L), ToSet(M))
  <2> SUFFICES ASSUME NEW j \in DOMAIN L  PROVE \E y \in ToSet(M) : L[j].id = y.id /\ L[j].suite = y.suite /\ L[j].ver <= y.ver
    BY DEF CCOlder, ToSet
  <2>1. L[j] \in ToSet(M)
    <3>1. j \in DOMAIN M /\ j + 1 \in DOMAIN M
      BY <1>1, <1>5
    <3> QED BY <1>4, <3>1 DEF ToSet
  <2>2. L[j].ver \in Nat
    BY <1>1 DEF CCItems
  <2> QED BY <2>1, <2>2
<1> QED BY <1>4, <1>11, <1>12

\* A check that moves on keeps the invariant.
LEMMA CCUpdateKeeps == CCInv /\ CCUpdate => CCInv'
<1> SUFFICES ASSUME CCInv, CCUpdate  PROVE CCInv'
  OBVIOUS
<1>1. CCTypeOK /\ CCWorking /\ CCChange /\ ccChanges \in Nat /\ ccChanges' = ccChanges + 1
  BY CCNumbers DEF CCInv, CCSound, CCUpdate, CCChange
<1>2. PICK k \in {"suites", "runs"} : \E i \in DOMAIN ccHub[k] : ccHub' = [ccHub EXCEPT ![k][i].ver = ccChanges + 1]
  BY DEF CCUpdate
<1>3. PICK i \in DOMAIN ccHub[k] : ccHub' = [ccHub EXCEPT ![k][i].ver = ccChanges + 1]
  BY <1>2
<1>4. DOMAIN ccHub = CCKinds /\ k \in CCKinds /\ \A c \in CCKinds : CCGood(ccHub[c], ccChanges)
  BY <1>1 DEF CCWorking, CCHubOK, CCKinds
<1>5. /\ ccHub'[k] = [ccHub[k] EXCEPT ![i].ver = ccChanges + 1] /\ \A c \in CCKinds : c # k => ccHub'[c] = ccHub[c]
      /\ DOMAIN ccHub' = CCKinds /\ ccHub' = [c \in CCKinds |-> ccHub'[c]]
  BY <1>1, <1>3, <1>4 DEF CCWorking, CCHubOK
<1>6. /\ CCGood(ccHub'[k], ccChanges') /\ CCOlder(ToSet(ccHub[k]), ToSet(ccHub'[k])) /\ Len(ccHub'[k]) = Len(ccHub[k]) /\ DOMAIN ccHub'[k] = DOMAIN ccHub[k]
      /\ \A j \in DOMAIN ccHub[k] : ccHub'[k][j].id = ccHub[k][j].id
  <2>1. \A M : M = [ccHub[k] EXCEPT ![i].ver = ccChanges + 1] =>
          /\ CCGood(M, ccChanges') /\ CCOlder(ToSet(ccHub[k]), ToSet(M)) /\ Len(M) = Len(ccHub[k]) /\ DOMAIN M = DOMAIN ccHub[k]
          /\ \A j \in DOMAIN ccHub[k] : M[j].id = ccHub[k][j].id
    BY <1>1, <1>3, <1>4, CCVersioned
  <2> QED BY <1>5, <2>1
<1>7. ASSUME NEW c \in CCKinds, c # k
      PROVE  CCGood(ccHub'[c], ccChanges') /\ CCOlder(ToSet(ccHub[c]), ToSet(ccHub'[c]))
  <2>1. ccHub'[c] = ccHub[c] /\ CCGood(ccHub[c], ccChanges)
    BY <1>4, <1>5, <1>7
  <2> QED BY <1>1, <2>1, CCUnchangedList
<1>8. CCHubOK'
  BY <1>5, <1>6, <1>7 DEF CCHubOK
<1>9. \A c \in CCKinds : CCOlder(ToSet(ccHub[c]), ToSet(ccHub'[c]))
  BY <1>6, <1>7
<1>10. CCPlaceOK'
  <2>1. CCKind' = CCKind /\ CCAhead' = CCAhead /\ ccGot' = ccGot
    BY <1>1 DEF CCChange, CCKeepRead, CCKind, CCAhead
  <2>2. CCKind \in CCKinds => /\ Len(ccHub'[CCKind]) = Len(ccHub[CCKind]) /\ DOMAIN ccHub'[CCKind] = DOMAIN ccHub[CCKind]
                              /\ \A j \in DOMAIN ccHub[CCKind] : ccHub'[CCKind][j].id = ccHub[CCKind][j].id
    BY <1>5, <1>6
  <2>3. CCKind \in CCKinds => CCAhead \in Nat /\ DOMAIN ccHub[CCKind] = 1..Len(ccHub[CCKind]) /\ Len(ccHub[CCKind]) \in Nat
    BY <1>1, <1>4, CCNumbers DEF CCGood
  <2> SUFFICES ASSUME CCKind \in CCKinds
               PROVE  /\ CCAhead <= Len(ccHub'[CCKind])
                      /\ \/ CCGotIds(ccGot[CCKind]) = {ccHub'[CCKind][j].id : j \in 1..CCAhead}
                         \/ \E j \in DOMAIN ccHub'[CCKind] : j > CCAhead /\ ccHub'[CCKind][j].id \in CCGotIds(ccGot[CCKind])
    BY <2>1 DEF CCPlaceOK, CCList
  <2>4. /\ CCAhead <= Len(ccHub[CCKind])
        /\ \/ CCGotIds(ccGot[CCKind]) = {ccHub[CCKind][j].id : j \in 1..CCAhead}
           \/ \E j \in DOMAIN ccHub[CCKind] : j > CCAhead /\ ccHub[CCKind][j].id \in CCGotIds(ccGot[CCKind])
    BY <1>1 DEF CCWorking, CCPlaceOK, CCList
  <2>5. 1..CCAhead \subseteq DOMAIN ccHub[CCKind]
    BY <2>3, <2>4
  <2>6. {ccHub'[CCKind][j].id : j \in 1..CCAhead} = {ccHub[CCKind][j].id : j \in 1..CCAhead}
    BY <2>2, <2>5
  <2> QED BY <2>2, <2>4, <2>6
<1> QED BY <1>1, <1>8, <1>9, <1>10, CCHubKeeps

\* Something that appears keeps the invariant.
LEMMA CCAppearKeeps == CCInv /\ CCAppear => CCInv'
<1> SUFFICES ASSUME CCInv, CCAppear  PROVE CCInv'
  OBVIOUS
<1>1. CCTypeOK /\ CCWorking /\ CCChange /\ ccChanges \in Nat /\ ccChanges' = ccChanges + 1
  BY CCNumbers DEF CCInv, CCSound, CCAppear, CCChange
<1>2. PICK k \in CCKinds : \E s \in (IF k = "runs" THEN CCGotIds(ccHub["suites"]) ELSE {1}) : \E i \in 1..(Len(ccHub[k]) + 1) :
        ccHub' = [ccHub EXCEPT ![k] = InsertAt(@, i, [id |-> Len(@) + 1, ver |-> 0, suite |-> s])]
  BY DEF CCAppear
<1>3. PICK s \in (IF k = "runs" THEN CCGotIds(ccHub["suites"]) ELSE {1}) : \E i \in 1..(Len(ccHub[k]) + 1) :
        ccHub' = [ccHub EXCEPT ![k] = InsertAt(@, i, [id |-> Len(@) + 1, ver |-> 0, suite |-> s])]
  BY <1>2
<1>4. PICK i \in 1..(Len(ccHub[k]) + 1) : ccHub' = [ccHub EXCEPT ![k] = InsertAt(@, i, [id |-> Len(@) + 1, ver |-> 0, suite |-> s])]
  BY <1>3
<1>5. DOMAIN ccHub = CCKinds /\ \A c \in CCKinds : CCGood(ccHub[c], ccChanges)
  BY <1>1 DEF CCWorking, CCHubOK
<1>6. s \in Nat
  <2>1. ccHub["suites"] \in Seq(CCItems)
    BY <1>5 DEF CCGood, CCKinds
  <2>2. \A L \in Seq(CCItems) : \A j \in DOMAIN L : L[j].id \in Nat
    <3>1. \A x \in CCItems : x.id \in Nat
      BY DEF CCItems
    <3>2. \A L \in Seq(CCItems) : \A j \in DOMAIN L : L[j] \in CCItems
      OBVIOUS
    <3> QED BY <3>1, <3>2
  <2>3. \A x \in CCGotIds(ccHub["suites"]) : x \in Nat
    BY <2>1, <2>2 DEF CCGotIds
  <2> QED BY <1>3, <2>3
<1>7. /\ ccHub'[k] = InsertAt(ccHub[k], i, [id |-> Len(ccHub[k]) + 1, ver |-> 0, suite |-> s])
      /\ \A c \in CCKinds : c # k => ccHub'[c] = ccHub[c]
      /\ DOMAIN ccHub' = CCKinds /\ ccHub' = [c \in CCKinds |-> ccHub'[c]]
  BY <1>1, <1>4, <1>5 DEF CCWorking, CCHubOK
<1>8. /\ CCGood(ccHub'[k], ccChanges') /\ CCOlder(ToSet(ccHub[k]), ToSet(ccHub'[k])) /\ Len(ccHub'[k]) = Len(ccHub[k]) + 1
      /\ \A j \in DOMAIN ccHub[k] : IF j < i THEN ccHub'[k][j] = ccHub[k][j] ELSE ccHub'[k][j + 1] = ccHub[k][j]
  <2>1. \A M : M = InsertAt(ccHub[k], i, [id |-> Len(ccHub[k]) + 1, ver |-> 0, suite |-> s]) =>
          /\ CCGood(M, ccChanges') /\ CCOlder(ToSet(ccHub[k]), ToSet(M)) /\ Len(M) = Len(ccHub[k]) + 1
          /\ \A j \in DOMAIN ccHub[k] : IF j < i THEN M[j] = ccHub[k][j] ELSE M[j + 1] = ccHub[k][j]
    BY <1>1, <1>4, <1>5, <1>6, CCLengthened
  <2> QED BY <1>7, <2>1
<1>9. ASSUME NEW c \in CCKinds, c # k
      PROVE  CCGood(ccHub'[c], ccChanges') /\ CCOlder(ToSet(ccHub[c]), ToSet(ccHub'[c]))
  <2>1. ccHub'[c] = ccHub[c] /\ CCGood(ccHub[c], ccChanges)
    BY <1>5, <1>7, <1>9
  <2> QED BY <1>1, <2>1, CCUnchangedList
<1>10. CCHubOK'
  BY <1>7, <1>8, <1>9 DEF CCHubOK
<1>11. \A c \in CCKinds : CCOlder(ToSet(ccHub[c]), ToSet(ccHub'[c]))
  BY <1>8, <1>9
<1>12. CCPlaceOK'
  <2>1. CCKind' = CCKind /\ CCAhead' = CCAhead /\ ccGot' = ccGot
    BY <1>1 DEF CCChange, CCKeepRead, CCKind, CCAhead
  <2> SUFFICES ASSUME CCKind \in CCKinds
               PROVE  /\ CCAhead <= Len(ccHub'[CCKind])
                      /\ \/ CCGotIds(ccGot[CCKind]) = {ccHub'[CCKind][j].id : j \in 1..CCAhead}
                         \/ \E j \in DOMAIN ccHub'[CCKind] : j > CCAhead /\ ccHub'[CCKind][j].id \in CCGotIds(ccGot[CCKind])
    BY <2>1 DEF CCPlaceOK, CCList
  <2>2. /\ CCAhead <= Len(ccHub[CCKind])
        /\ \/ CCGotIds(ccGot[CCKind]) = {ccHub[CCKind][j].id : j \in 1..CCAhead}
           \/ \E j \in DOMAIN ccHub[CCKind] : j > CCAhead /\ ccHub[CCKind][j].id \in CCGotIds(ccGot[CCKind])
    BY <1>1 DEF CCWorking, CCPlaceOK, CCList
  <2>3. CASE CCKind # k
    <3>1. ccHub'[CCKind] = ccHub[CCKind]
      BY <1>7, <2>3
    <3> QED BY <2>2, <3>1
  <2>4. CASE CCKind = k
    <3> DEFINE L == ccHub[k]  M == ccHub'[k]  ids == CCGotIds(ccGot[k])
    <3>1. /\ L \in Seq(CCItems) /\ M \in Seq(CCItems) /\ Len(L) \in Nat /\ DOMAIN L = 1..Len(L) /\ DOMAIN M = 1..(Len(L) + 1) /\ Len(M) = Len(L) + 1
          /\ CCAhead \in Nat /\ CCAhead <= Len(L) /\ i \in Nat /\ i >= 1 /\ i <= Len(L) + 1
      <4>1. L \in Seq(CCItems) /\ M \in Seq(CCItems) /\ Len(M) = Len(L) + 1
        BY <1>5, <1>8 DEF CCGood
      <4>2. CCAhead \in Nat /\ CCAhead <= Len(L)
        BY <1>1, <2>2, <2>4, CCNumbers
      <4>3. i \in 1..(Len(L) + 1)
        BY <1>4
      <4> HIDE DEF L, M
      <4>4. Len(L) \in Nat /\ DOMAIN L = 1..Len(L) /\ DOMAIN M = 1..(Len(L) + 1)
        BY <4>1
      <4> QED BY <4>1, <4>2, <4>3, <4>4
    <3>2. \A j \in DOMAIN L : IF j < i THEN M[j] = L[j] ELSE M[j + 1] = L[j]
      BY <1>8
    <3>3. ids = {L[j].id : j \in 1..CCAhead} \/ \E j \in DOMAIN L : j > CCAhead /\ L[j].id \in ids
      BY <2>2, <2>4
    <3> HIDE DEF L, M, ids
    <3>4. CASE \E j \in DOMAIN L : j > CCAhead /\ L[j].id \in ids
      <4>1. PICK j \in DOMAIN L : j > CCAhead /\ L[j].id \in ids
        BY <3>4
      <4>2. j \in DOMAIN M /\ j + 1 \in DOMAIN M /\ j + 1 > CCAhead
        BY <3>1, <4>1
      <4>3. \E q \in DOMAIN M : q > CCAhead /\ M[q].id \in ids
        BY <3>2, <4>1, <4>2
      <4> QED BY <2>4, <3>1, <4>3 DEF M, ids
    <3>5. CASE ids = {L[j].id : j \in 1..CCAhead} /\ i > CCAhead
      <4>1. \A j \in 1..CCAhead : M[j] = L[j]
        BY <3>1, <3>2, <3>5
      <4>2. {M[j].id : j \in 1..CCAhead} = {L[j].id : j \in 1..CCAhead}
        BY <4>1
      <4>3. CCAhead <= Len(M) /\ ids = {M[j].id : j \in 1..CCAhead}
        <5>1. CCAhead <= Len(M)
          BY <3>1
        <5>2. ids = {M[j].id : j \in 1..CCAhead}
          BY <3>5, <4>2
        <5> QED BY <5>1, <5>2
      <4> QED BY <2>4, <4>3 DEF M, ids
    <3>6. CASE ids = {L[j].id : j \in 1..CCAhead} /\ i <= CCAhead
      <4>1. CCAhead \in 1..CCAhead /\ CCAhead \in DOMAIN L /\ ~(CCAhead < i) /\ CCAhead + 1 \in DOMAIN M
        BY <3>1, <3>6
      <4>2. M[CCAhead + 1].id \in ids
        BY <3>2, <3>6, <4>1
      <4>3. \E q \in DOMAIN M : q > CCAhead /\ M[q].id \in ids
        BY <3>1, <4>1, <4>2
      <4> QED BY <2>4, <3>1, <4>3 DEF M, ids
    <3> QED BY <3>1, <3>3, <3>4, <3>5, <3>6
  <2> QED BY <2>3, <2>4
<1> QED BY <1>1, <1>10, <1>11, <1>12, CCHubKeeps

\* A push moves the branch and no list.
LEMMA CCPushKeeps == CCInv /\ CCPush => CCInv'
<1> SUFFICES ASSUME CCInv, CCPush  PROVE CCInv'
  OBVIOUS
<1>1. CCTypeOK /\ CCWorking /\ CCChange /\ ccChanges \in Nat /\ ccChanges' = ccChanges + 1 /\ ccHub' = ccHub
  BY CCNumbers DEF CCInv, CCSound, CCPush, CCChange
<1>2. \A c \in CCKinds : CCGood(ccHub[c], ccChanges') /\ CCOlder(ToSet(ccHub[c]), ToSet(ccHub'[c]))
  <2> TAKE c \in CCKinds
  <2>1. CCGood(ccHub[c], ccChanges)
    BY <1>1 DEF CCWorking, CCHubOK
  <2>2. CCGood(ccHub'[c], ccChanges') /\ CCOlder(ToSet(ccHub[c]), ToSet(ccHub[c]))
    BY <1>1, <2>1, CCUnchangedList
  <2> QED BY <1>1, <2>2
<1>3. CCHubOK'
  BY <1>1, <1>2 DEF CCWorking, CCHubOK
<1>4. CCPlaceOK'
  BY <1>1 DEF CCWorking, CCPlaceOK, CCChange, CCKeepRead, CCKind, CCAhead, CCList
<1> QED BY <1>1, <1>2, <1>3, <1>4, CCHubKeeps

\* The request of the principal, and requests that fail, keep the invariant.
LEMMA CCOthersKeep == CCInv /\ (CCTooMany \/ CCGetFails \/ CCPrincipal) => CCInv'
<1>1. ASSUME CCInv, CCTooMany  PROVE CCInv'
  <2>1. CCFinish("TRUNCATED") /\ CCTypeOK'
    BY <1>1 DEF CCTooMany, CCKeepHub, CCKeepRead, CCInv, CCSound, CCTypeOK
  <2> QED BY <1>1, <2>1, CCStops
<1>2. ASSUME CCInv, CCGetFails  PROVE CCInv'
  <2>1. CCTypeOK /\ ccRequests' \in 0..CCMaxRequests /\ ccFaults' \in 0..CCMaxFaults
    BY <1>2, CCNumbers DEF CCGetFails, CCGet, CCInv, CCSound
  <2>2. CCFinish("PROVIDER_UNAVAILABLE") /\ CCTypeOK'
    BY <1>2, <2>1 DEF CCGetFails, CCKeepHub, CCKeepRead, CCTypeOK
  <2> QED BY <1>2, <2>2, CCStops
<1>3. ASSUME CCInv, CCPrincipal  PROVE CCInv'
  <2>1. CCTypeOK /\ CCWorking /\ ccRequests' \in 0..CCMaxRequests /\ ccPhase \in 1..11 /\ CCKind = "principal" /\ ccOut = "none"
    BY <1>3, CCNumbers DEF CCPrincipal, CCGet, CCInv, CCSound
  <2>2. ccPhase = 1
    BY <2>1, CCKindOf
  <2>3. /\ ccPhase' = 2 /\ ccPage' = ccPage /\ ccGot' = ccGot /\ ccTotal' = ccTotal /\ ccHeads' = ccHeads /\ ccSweeps' = ccSweeps /\ ccOut' = ccOut
        /\ ccSnap' = ccSnap /\ ccFaults' = ccFaults /\ ccHub' = ccHub /\ ccHead' = ccHead /\ ccChanges' = ccChanges
    BY <1>3 DEF CCPrincipal, CCKeepHub
  <2>4. CCKind' = "H0" /\ Len(CCPhases) = 11
    BY <2>3 DEF CCKind, CCPhases
  <2>5. CCTypeOK'
    BY <2>1, <2>3, <2>4 DEF CCTypeOK
  <2>6. CCForms' /\ CCSweepsOK' /\ CCSnapOK'
    BY <2>1, <2>2, <2>3 DEF CCWorking, CCForms, CCSweepsOK, CCSnapOK
  <2>7. CCHubOK'
    BY <2>1, <2>3 DEF CCWorking, CCHubOK
  <2>8. CCPlaceOK' /\ CCPageOK'
    BY <2>1, <2>3, <2>4 DEF CCWorking, CCPlaceOK, CCPageOK, CCKinds
  <2>9. CCGotOK'
    <3>1. \A k \in CCKinds : ~CCRead(k) /\ CCKind # k
      BY <2>1, <2>2 DEF CCRead, CCKinds
    <3> QED BY <2>1, <2>3, <3>1 DEF CCWorking, CCGotOK
  <2>10. CCStableIsASnapshot'
    BY <2>1, <2>3 DEF CCStableIsASnapshot
  <2> QED BY <2>5, <2>6, <2>7, <2>8, <2>9, <2>10 DEF CCInv, CCSound, CCWorking
<1> QED BY <1>1, <1>2, <1>3

\* The invariant holds at the start.
LEMMA CCStart == CCInit => CCInv
<1> SUFFICES ASSUME CCInit  PROVE CCInv
  OBVIOUS
<1>1. /\ {CCPerPage, CCMaxItems, CCMaxPages, CCMaxRequests} \subseteq Nat \ {0} /\ {CCMaxChanges, CCMaxFaults} \subseteq Nat
  BY CCAssumption DEF CCLimitsValid
<1>2. /\ ccPhase = 1 /\ ccPage = 1 /\ ccGot = CCEmpty /\ ccTotal = 0 /\ ccHeads = 0 /\ ccRequests = 0
      /\ ccSweeps = <<>> /\ ccOut = "none" /\ ccSnap = CCEmpty /\ ccChanges = 0 /\ ccFaults = 0
  BY DEF CCInit
<1>3. CCKind = "principal" /\ Len(CCPhases) = 11
  BY <1>2 DEF CCKind, CCPhases
<1>4. CCTypeOK
  BY <1>1, <1>2, <1>3 DEF CCTypeOK
<1>5. CCForms /\ CCSweepsOK /\ CCSnapOK /\ CCPlaceOK /\ CCPageOK
  BY <1>2, <1>3 DEF CCForms, CCSweepsOK, CCSnapOK, CCPlaceOK, CCPageOK, CCKinds
<1>6. CCGotOK
  <2>1. \A k \in CCKinds : ccGot[k] = <<>> /\ ToSet(ccGot[k]) = {}
    BY <1>2 DEF CCEmpty, ToSet
  <2>2. ccGot = [k \in CCKinds |-> ccGot[k]] /\ <<>> \in Seq(CCItems)
    BY <1>2 DEF CCEmpty
  <2> QED BY <2>1, <2>2 DEF CCGotOK, CCUnique, CCOlder
<1>7. CCHubOK
  <2>1. ccHub \in [CCKinds -> {[i \in 1..n |-> CCItem(i)] : n \in 0..CCMaxItems}]
    BY DEF CCInit, CCLists
  <2>2. ASSUME NEW k \in CCKinds  PROVE CCGood(ccHub[k], ccChanges)
    <3>1. PICK n \in 0..CCMaxItems : ccHub[k] = [i \in 1..n |-> CCItem(i)]
      BY <2>1
    <3>2. n \in Nat
      BY <1>1
    <3>3. \A i \in 1..n : CCItem(i) \in CCItems /\ CCItem(i).id = i /\ CCItem(i).ver = 0
      BY <3>2 DEF CCItem, CCItems
    <3>4. ccHub[k] \in Seq(CCItems) /\ Len(ccHub[k]) = n /\ DOMAIN ccHub[k] = 1..n
      BY <3>1, <3>2, <3>3
    <3>5. \A i \in 1..n : ccHub[k][i].id = i /\ ccHub[k][i].ver = 0
      BY <3>1, <3>3
    <3> QED BY <1>2, <3>2, <3>4, <3>5 DEF CCGood
  <2> QED BY <2>1, <2>2 DEF CCHubOK
<1>8. CCStableIsASnapshot
  BY <1>2 DEF CCStableIsASnapshot
<1> QED BY <1>4, <1>5, <1>6, <1>7, <1>8 DEF CCInv, CCSound, CCWorking

\* Every step keeps the invariant.
LEMMA CCEveryStep == CCInv /\ [CCNext]_ccVars => CCInv'
<1> SUFFICES ASSUME CCInv, [CCNext]_ccVars  PROVE CCInv'
  OBVIOUS
<1>1. CASE UNCHANGED ccVars
  <2>1. /\ ccHub' = ccHub /\ ccHead' = ccHead /\ ccPhase' = ccPhase /\ ccPage' = ccPage /\ ccGot' = ccGot /\ ccTotal' = ccTotal
        /\ ccHeads' = ccHeads /\ ccRequests' = ccRequests /\ ccSweeps' = ccSweeps /\ ccOut' = ccOut /\ ccSnap' = ccSnap
        /\ ccChanges' = ccChanges /\ ccFaults' = ccFaults
    BY <1>1 DEF ccVars
  <2>2. CCKind' = CCKind /\ CCList' = CCList /\ CCAhead' = CCAhead /\ \A k : CCRead(k)' = CCRead(k)
    BY <2>1 DEF CCKind, CCList, CCAhead, CCRead
  <2>3. CCTypeOK' = CCTypeOK /\ CCStableIsASnapshot' = CCStableIsASnapshot
    BY <2>1 DEF CCTypeOK, CCStableIsASnapshot
  <2>4. CCWorking => CCWorking'
    <3>1. CCForms' = CCForms /\ CCHubOK' = CCHubOK /\ CCSweepsOK' = CCSweepsOK
      BY <2>1 DEF CCForms, CCHubOK, CCSweepsOK
    <3>2. CCGotOK' = CCGotOK /\ CCPageOK' = CCPageOK
      BY <2>1, <2>2 DEF CCGotOK, CCPageOK
    <3>3. CCPlaceOK' = CCPlaceOK
      BY <2>1, <2>2 DEF CCPlaceOK
    <3>4. CCSnapOK' = CCSnapOK
      BY <2>1, <2>2 DEF CCSnapOK
    <3> QED BY <3>1, <3>2, <3>3, <3>4 DEF CCWorking
  <2> QED BY <2>1, <2>3, <2>4 DEF CCInv, CCSound
<1>2. CASE CCEnd
  BY <1>2, CCEndKeeps
<1>3. CASE CCTooMany \/ CCGetFails \/ CCPrincipal
  BY <1>3, CCOthersKeep
<1>4. CASE CCReadHead
  BY <1>4, CCReadHeadKeeps
<1>5. CASE CCReadSuites
  BY <1>5, CCCountedKeeps DEF CCReadSuites
<1>6. CASE CCReadRuns
  BY <1>6, CCCountedKeeps DEF CCReadRuns
<1>7. CASE CCReadStatuses
  BY <1>7, CCUncountedKeeps DEF CCReadStatuses
<1>8. CASE CCUpdate
  BY <1>8, CCUpdateKeeps
<1>9. CASE CCAppear
  BY <1>9, CCAppearKeeps
<1>10. CASE CCPush
  BY <1>10, CCPushKeeps
<1> QED BY <1>1, <1>2, <1>3, <1>4, <1>5, <1>6, <1>7, <1>8, <1>9, <1>10 DEF CCNext

\* However the checks of a commit change while they are read page by page, a
\* STABLE bundle shows them as they all were when the branch's head was read
\* between the sweeps, for every page size and every limit (collectRemote).
THEOREM AStableBundleIsASnapshot == CCSpec => []CCSound
<1>1. CCInv => CCSound
  BY DEF CCInv
<1> QED BY <1>1, CCStart, CCEveryStep, PTL DEF CCSpec

-----------------------------------------------------------------------------
\* The evidence of a merge and the records made of it, side by side: the evidence
\* is fresh, its claims are true, and no record mixes two writes.
THEOREM MergeEvidenceHolds == MESpec /\ MXSpec => []MergeEvidenceSound
<1>1. MESound /\ MXSound => MergeEvidenceSound BY DEF MergeEvidenceSound
<1> QED BY <1>1, MergeEvidenceIsFresh, RecordsAreUnmixed, PTL

\* The attempts and the collections of CI evidence, side by side: an attempt
\* answers one bundle for ever, and a stable bundle is a snapshot of its checks.
THEOREM CIEvidenceHolds == CASpec /\ CCSpec => []CISound
<1>1. CASound /\ CCSound => CISound BY DEF CISound
<1> QED BY <1>1, AnAttemptHasOneAnswer, AStableBundleIsASnapshot, PTL
=============================================================================
