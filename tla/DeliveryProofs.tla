---------------------------- MODULE DeliveryProofs ----------------------------
(***************************************************************************)
(* Proofs about what the service keeps of a run beside its ledger, and of  *)
(* the pull request its results go to.                                     *)
(*                                                                         *)
(* Previews: PVSound is an invariant for every set of previews, every      *)
(* number of workers and every number of faults.  The argument of          *)
(* PVForgottenIsGone: a worker has a record, so ForgetPreviews waits for   *)
(* every worker there is; a forgotten run gets no new one; and what has no *)
(* worker has no object, unless the service was made unavailable.          *)
(*                                                                         *)
(* RunCatalog: RKSound is an invariant for every set of processes and of   *)
(* runs, every ceiling of owners and every number of deaths.  The argument *)
(* is on RKDiskFits: every single step of the issuance and of its          *)
(* reconciliation leaves what the next holder of the lock can finish or    *)
(* undo, so the branches that report a corrupt catalog are never taken;    *)
(* RKPhase says how far the holder is, and RKMonotone what the others may  *)
(* count on while they wait.                                               *)
(*                                                                         *)
(* Eviction: EVSound is an invariant for every set of runs, every quota    *)
(* and every size of worktree.  What Policy.Decide removes is a sum over   *)
(* its victims, so the argument needs sums over finite sets: a statement   *)
(* about every part of a set holds because no smallest part refutes it.    *)
(*                                                                         *)
(* PRLifecycle: PLSound is an invariant for every set of requests and of   *)
(* runs, every bound on the rounds, every capacity and every number of     *)
(* faults.  PLCallOK says what a call at each of its steps knows of the    *)
(* records; the marker comes before the write and reserves the room of the *)
(* result; and no write is under way once the last result is confirmed,    *)
(* which is what lets the next write through.                              *)
(***************************************************************************)
EXTENDS Previews, RunCatalog, Eviction, PRLifecycle, FiniteSetTheorems, WellFoundedInduction, TLAPS

PVStatus == PVTerminal \cup {"none", "REQUESTED", "VALIDATING", "STARTING", "READY"}
PVPc == {"none", "validate", "materialize", "starting", "kept", "release", "unlock", "volume", "start", "health", "ready", "fail", "stop"}
PVWorkerOf == [pc : PVPc, cancelled : BOOLEAN]
PVObjects == [containers : BOOLEAN, files : BOOLEAN, volume : BOOLEAN]

PVTyped ==
  /\ pvRec \in [PVIds -> PVStatus] /\ pvWorker \in [PVIds -> PVWorkerOf] /\ pvObj \in [PVIds -> PVObjects]
  /\ pvBroken \in BOOLEAN /\ pvUnavail \in BOOLEAN /\ pvForgotten \in BOOLEAN /\ pvData \in BOOLEAN
  /\ pvUp \in {"up", "closing", "down"} /\ pvKept \in PVIds \cup {"free", "data"} /\ pvFaults \in 0..PVMaxFaults
  /\ pvHeld \subseteq PVIds /\ pvPast \subseteq PVIds /\ pvPending \subseteq PVIds /\ pvResolving \subseteq PVIds
  /\ pvForget \in [pc : {"none", "wait", "stop", "done"}, held : SUBSET PVIds]

\* What ForgetPreviews counts on: it finds a preview by its record.
PVWorkerHasRecord == \A i \in PVIds : PVWorks(i) => pvRec[i] # "none"
\* work's defer leaves nothing, or makes the service unavailable.
PVIdleIsClean ==
  pvUp # "down" /\ ~pvUnavail => \A i \in PVIds : ~PVWorks(i) => ~pvObj[i].containers /\ ~pvObj[i].files /\ ~pvObj[i].volume
\* PVOneDatabase, of any two previews.
PVOneVolume == \A i, j \in PVIds : pvObj[i].volume /\ pvObj[j].volume => i = j
\* Past its wait a forget meets no worker, and none will come.
PVForgetIsFinal ==
  /\ pvForget.pc # "none" => pvForgotten
  /\ pvForget.pc \in {"stop", "done"} => \A i \in PVIds : ~PVWorks(i)

\* The inductive invariant.
PVInv == PVTyped /\ PVWorkerHasRecord /\ PVIdleIsClean /\ PVOneVolume /\ PVForgetIsFinal

\* What most steps do to the records, to the workers and to the objects.
PVRecordsFit ==
  /\ pvRec' \in [PVIds -> PVStatus] /\ pvBroken' \in BOOLEAN /\ pvUnavail' \in BOOLEAN /\ pvFaults' \in 0..PVMaxFaults
  /\ \A i \in PVIds : pvRec[i] # "none" => pvRec'[i] # "none"
  /\ pvUnavail => pvUnavail'
PVWorkersFit ==
  /\ pvWorker' \in [PVIds -> PVWorkerOf]
  /\ \A i \in PVIds : pvWorker'[i].pc = "none" <=> pvWorker[i].pc = "none"
PVObjectsFit ==
  /\ pvObj' \in [PVIds -> PVObjects] /\ pvData' \in BOOLEAN
  /\ \A i \in PVIds : /\ pvObj'[i].volume => pvObj[i].volume
                      /\ pvWorker[i].pc = "none" => (pvObj'[i].containers => pvObj[i].containers) /\ (pvObj'[i].files => pvObj[i].files)
PVStopped(ids) == [o \in PVIds |-> IF o \in ids THEN [pvObj[o] EXCEPT !.containers = FALSE, !.volume = FALSE] ELSE pvObj[o]]
PVLocksFit == pvKept' \in PVIds \cup {"free", "data"} /\ pvHeld' \subseteq PVIds

-----------------------------------------------------------------------------
(* Appends, transitions and cancellations. *)

\* The bounds are numbers.
LEMMA PVBounds == PVMaxFaults \in Nat /\ PVMaxWorkers \in Nat /\ PVKeep \subseteq PVIds
BY PVAssumption

\* store.append: the records it was given, or the ones there were and a broken store.
LEMMA PVAppendFits ==
  ASSUME PVTyped, NEW recs \in [PVIds -> PVStatus], PVAppend(recs)
  PROVE  (pvRec' = pvRec \/ pvRec' = recs) /\ pvRec' \in [PVIds -> PVStatus] /\ pvBroken' \in BOOLEAN /\ pvFaults' \in 0..PVMaxFaults
<1>1. (pvRec' = pvRec \/ pvRec' = recs) /\ pvRec' \in [PVIds -> PVStatus]
  BY DEF PVTyped, PVAppend
<1>2. pvBroken' \in BOOLEAN
  BY DEF PVTyped, PVAppend
<1>3. pvFaults' \in 0..PVMaxFaults
  BY PVBounds DEF PVTyped, PVAppend
<1> QED BY <1>1, <1>2, <1>3

\* A failing step.
LEMMA PVFaultFits ==
  ASSUME PVTyped, PVFault
  PROVE  pvFaults' \in 0..PVMaxFaults
BY PVBounds DEF PVTyped, PVFault

\* Live previews end; no record goes.
LEMMA PVEndFits ==
  ASSUME PVTyped, NEW ids, NEW status \in PVTerminal
  PROVE  /\ PVEnd(ids, status) \in [PVIds -> PVStatus]
         /\ \A i \in PVIds : pvRec[i] # "none" => PVEnd(ids, status)[i] # "none"
BY DEF PVTyped, PVEnd, PVStatus, PVTerminal

\* A worker that is cancelled is where it was.
LEMMA PVCancelFits ==
  ASSUME PVTyped, NEW ids
  PROVE  PVCancel(ids) \in [PVIds -> PVWorkerOf] /\ \A i \in PVIds : PVCancel(ids)[i].pc = pvWorker[i].pc
<1>1. \A i \in PVIds : /\ pvWorker[i] \in PVWorkerOf /\ [pvWorker[i] EXCEPT !.cancelled = TRUE] \in PVWorkerOf
                       /\ [pvWorker[i] EXCEPT !.cancelled = TRUE].pc = pvWorker[i].pc
  BY DEF PVTyped, PVWorkerOf
<1>2. \A i \in PVIds : PVCancel(ids)[i] = IF i \in ids /\ PVWorks(i) THEN [pvWorker[i] EXCEPT !.cancelled = TRUE] ELSE pvWorker[i]
  BY DEF PVCancel
<1>3. PVCancel(ids) \in [PVIds -> PVWorkerOf]
  BY <1>1 DEF PVCancel
<1> QED BY <1>1, <1>2, <1>3

\* A worker goes from one place to another.
LEMMA PVMovedFits ==
  ASSUME PVTyped, NEW w \in [PVIds -> PVWorkerOf], NEW id \in PVIds, NEW to \in PVPc \ {"none"}, w[id].pc # "none",
         \A i \in PVIds : w[i].pc = pvWorker[i].pc, pvWorker' = [w EXCEPT ![id].pc = to]
  PROVE  PVWorkersFit
<1>1. [w[id] EXCEPT !.pc = to] \in PVWorkerOf /\ [w[id] EXCEPT !.pc = to].pc = to
  BY DEF PVWorkerOf
<1>2. pvWorker' = [w EXCEPT ![id] = [w[id] EXCEPT !.pc = to]]
  OBVIOUS
<1> HIDE DEF PVWorkerOf
<1>3. pvWorker' \in [PVIds -> PVWorkerOf] /\ pvWorker'[id].pc = to /\ \A i \in PVIds : i # id => pvWorker'[i] = w[i]
  BY <1>1, <1>2
<1> QED BY <1>3 DEF PVWorkersFit

\* A step of a worker that changes no record.
LEMMA PVGoesFits ==
  ASSUME PVTyped, NEW id \in PVIds, PVWorks(id), NEW to \in PVPc \ {"none"}, PVGoes(id, to)
  PROVE  PVRecordsFit /\ PVWorkersFit
<1>1. pvWorker' = [pvWorker EXCEPT ![id].pc = to] /\ UNCHANGED <<pvRec, pvBroken, pvUnavail, pvFaults>>
  BY DEF PVGoes
<1>2. PVWorkersFit
  BY <1>1, PVMovedFits DEF PVTyped, PVWorks
<1>3. PVRecordsFit
  BY <1>1 DEF PVTyped, PVRecordsFit
<1> QED BY <1>2, <1>3

\* transition: the record moves or does not, and the worker goes on or not.
LEMMA PVTransitionFits ==
  ASSUME PVTyped, NEW id \in PVIds, PVWorks(id), NEW status \in PVStatus \ {"none"},
         NEW ok \in PVPc \ {"none"}, NEW no \in PVPc \ {"none"}, PVTransition(id, status, ok, no)
  PROVE  PVRecordsFit /\ PVWorkersFit
<1> DEFINE to == IF id \in pvPast THEN "EXPIRED" ELSE status
           recs == [pvRec EXCEPT ![id] = to]
           still == pvRec[id] \in PVTerminal \/ pvUp # "up" \/ pvBroken
<1>1. CASE still
  <2>1. UNCHANGED <<pvRec, pvBroken, pvUnavail, pvFaults>> /\ pvWorker' = [pvWorker EXCEPT ![id].pc = no]
    BY <1>1, Zenon DEF PVTransition
  <2>2. PVGoes(id, no)
    BY <2>1 DEF PVGoes
  <2> QED BY <2>2, PVGoesFits
<1>2. CASE ~still
  <2>1. /\ PVAppend(recs) /\ pvUnavail' = (pvUnavail \/ pvBroken')
        /\ pvWorker' = [pvWorker EXCEPT ![id].pc = IF pvBroken' \/ to \in PVTerminal THEN no ELSE ok]
    BY <1>2, Zenon DEF PVTransition
  <2>2. to \in PVStatus \ {"none"}
    BY DEF PVStatus, PVTerminal
  <2> HIDE DEF to
  <2>3. recs \in [PVIds -> PVStatus] /\ \A i \in PVIds : pvRec[i] # "none" => recs[i] # "none"
    BY <2>2 DEF PVTyped
  <2> HIDE DEF recs
  <2>4. /\ (pvRec' = pvRec \/ pvRec' = recs) /\ pvRec' \in [PVIds -> PVStatus]
        /\ pvBroken' \in BOOLEAN /\ pvFaults' \in 0..PVMaxFaults
    BY <2>1, <2>3, PVAppendFits
  <2>5. pvUnavail' \in BOOLEAN /\ (pvUnavail => pvUnavail')
    BY <2>1 DEF PVTyped
  <2>6. PVRecordsFit
    BY <2>3, <2>4, <2>5 DEF PVRecordsFit
  <2> DEFINE pc == IF pvBroken' \/ to \in PVTerminal THEN no ELSE ok
  <2>7. pc \in PVPc \ {"none"} /\ pvWorker' = [pvWorker EXCEPT ![id].pc = pc]
    BY <2>1
  <2> HIDE DEF pc
  <2>8. PVWorkersFit
    BY <2>7, PVMovedFits DEF PVTyped, PVWorks
  <2> QED BY <2>6, <2>8
<1> QED BY <1>1, <1>2

\* A step that fits keeps the invariant, if it keeps what a forget counts on.
LEMMA PVForgetFitKeeps ==
  ASSUME PVInv, PVRecordsFit, PVWorkersFit, PVObjectsFit, PVLocksFit, pvUp' \in {"up", "closing", "down"}, pvUp' # "down" => pvUp # "down",
         pvPast' \subseteq PVIds, pvPending' \subseteq PVIds, pvResolving' \subseteq PVIds,
         pvForget' \in [pc : {"none", "wait", "stop", "done"}, held : SUBSET PVIds], pvForgotten' \in BOOLEAN, PVForgetIsFinal'
  PROVE  PVInv'
<1>1. PVTyped'
  BY DEF PVInv, PVTyped, PVRecordsFit, PVWorkersFit, PVObjectsFit, PVLocksFit
<1>2. PVWorkerHasRecord'
  BY DEF PVInv, PVWorkerHasRecord, PVWorks, PVRecordsFit, PVWorkersFit
<1>3. PVIdleIsClean'
  <2> SUFFICES ASSUME pvUp' # "down", ~pvUnavail', NEW i \in PVIds, pvWorker'[i].pc = "none"
               PROVE  ~pvObj'[i].containers /\ ~pvObj'[i].files /\ ~pvObj'[i].volume
    BY DEF PVIdleIsClean, PVWorks
  <2>1. pvUp # "down" /\ ~pvUnavail /\ pvWorker[i].pc = "none"
    BY DEF PVRecordsFit, PVWorkersFit
  <2>2. ~pvObj[i].containers /\ ~pvObj[i].files /\ ~pvObj[i].volume
    BY <2>1 DEF PVInv, PVIdleIsClean, PVWorks
  <2> QED BY <2>1, <2>2 DEF PVObjectsFit
<1>4. PVOneVolume'
  BY DEF PVInv, PVOneVolume, PVObjectsFit
<1> QED BY <1>1, <1>2, <1>3, <1>4 DEF PVInv

\* A step that fits keeps the invariant.
LEMMA PVFitKeeps ==
  ASSUME PVInv, PVRecordsFit, PVWorkersFit, PVObjectsFit, PVLocksFit, pvUp' \in {"up", "closing", "down"}, pvUp' # "down" => pvUp # "down",
         pvPast' \subseteq PVIds, pvPending' \subseteq PVIds, pvResolving' \subseteq PVIds, UNCHANGED <<pvForget, pvForgotten>>
  PROVE  PVInv'
<1>1. PVForgetIsFinal'
  BY DEF PVInv, PVForgetIsFinal, PVWorks, PVWorkersFit
<1>2. pvForget' \in [pc : {"none", "wait", "stop", "done"}, held : SUBSET PVIds] /\ pvForgotten' \in BOOLEAN
  BY DEF PVInv, PVTyped
<1> QED BY <1>1, <1>2, PVForgetFitKeeps

\* Steps that leave some of it as it is.
LEMMA PVUnchangedFits ==
  ASSUME PVTyped
  PROVE  /\ UNCHANGED <<pvRec, pvBroken, pvUnavail, pvFaults>> => PVRecordsFit
         /\ UNCHANGED pvWorker => PVWorkersFit
         /\ UNCHANGED <<pvObj, pvData>> => PVObjectsFit
         /\ UNCHANGED <<pvKept, pvHeld>> => PVLocksFit
<1>1. UNCHANGED <<pvRec, pvBroken, pvUnavail, pvFaults>> => PVRecordsFit
  BY DEF PVTyped, PVRecordsFit
<1>2. UNCHANGED pvWorker => PVWorkersFit
  BY DEF PVTyped, PVWorkersFit
<1>3. UNCHANGED <<pvObj, pvData>> => PVObjectsFit
  BY DEF PVTyped, PVObjectsFit
<1>4. UNCHANGED <<pvKept, pvHeld>> => PVLocksFit
  BY DEF PVTyped, PVLocksFit
<1> QED BY <1>1, <1>2, <1>3, <1>4

-----------------------------------------------------------------------------
(* The worker. *)

\* A step of a worker that fits keeps the invariant.
LEMMA PVWorkerStepKeeps ==
  ASSUME PVInv, PVWorkerKeeps, PVRecordsFit, PVWorkersFit, PVObjectsFit, PVLocksFit
  PROVE  PVInv'
<1>1. PVTyped /\ UNCHANGED <<pvUp, pvResolving, pvPast, pvForget, pvPending, pvForgotten>>
  BY DEF PVInv, PVWorkerKeeps
<1>2. /\ pvUp' \in {"up", "closing", "down"} /\ (pvUp' # "down" => pvUp # "down")
      /\ pvPast' \subseteq PVIds /\ pvPending' \subseteq PVIds /\ pvResolving' \subseteq PVIds
  BY <1>1 DEF PVTyped
<1> QED BY <1>1, <1>2, PVFitKeeps

\* The steps of work that touch neither objects nor the kept lock.
LEMMA PVTransitionsKeep ==
  ASSUME PVInv, NEW id \in PVIds, PVValidate(id) \/ PVStarting(id) \/ PVHealth(id) \/ PVTick(id) \/ PVFail(id)
  PROVE  PVInv'
<1>1. PVTyped /\ PVWorkerKeeps /\ UNCHANGED <<pvObj, pvKept, pvHeld, pvData>> /\ PVWorks(id)
  BY DEF PVInv, PVValidate, PVStarting, PVHealth, PVTick, PVFail, PVWorks
<1>2. \A s \in {"VALIDATING", "STARTING", "READY", "EXPIRED", "FAILED"} : s \in PVStatus \ {"none"}
  BY DEF PVStatus, PVTerminal
<1>3. \A s \in {"materialize", "kept", "start", "ready", "fail", "stop"} : s \in PVPc \ {"none"}
  BY DEF PVPc
<1>4. PVRecordsFit /\ PVWorkersFit
  <2>1. CASE PVValidate(id)
    <3>1. PVTransition(id, "VALIDATING", "materialize", "stop")
      BY <2>1 DEF PVValidate
    <3> QED BY <1>1, <1>2, <1>3, <3>1, PVTransitionFits
  <2>2. CASE PVStarting(id)
    <3>1. PVGoes(id, "fail") \/ PVTransition(id, "STARTING", "kept", "fail") \/ PVTransition(id, "STARTING", "start", "fail")
      BY <2>2, Zenon DEF PVStarting
    <3>2. CASE PVGoes(id, "fail")
      BY <1>1, <1>3, <3>2, PVGoesFits
    <3>3. CASE PVTransition(id, "STARTING", "kept", "fail")
      BY <1>1, <1>2, <1>3, <3>3, PVTransitionFits
    <3>4. CASE PVTransition(id, "STARTING", "start", "fail")
      BY <1>1, <1>2, <1>3, <3>4, PVTransitionFits
    <3> QED BY <3>1, <3>2, <3>3, <3>4
  <2>3. CASE PVHealth(id)
    <3>1. PVGoes(id, "fail") \/ PVTransition(id, "READY", "ready", "fail")
      BY <2>3 DEF PVHealth
    <3>2. CASE PVGoes(id, "fail")
      BY <1>1, <1>3, <3>2, PVGoesFits
    <3>3. CASE PVTransition(id, "READY", "ready", "fail")
      BY <1>1, <1>2, <1>3, <3>3, PVTransitionFits
    <3> QED BY <3>1, <3>2, <3>3
  <2>4. CASE PVTick(id)
    <3>1. PVGoes(id, "fail") \/ PVGoes(id, "stop") \/ PVTransition(id, "EXPIRED", "stop", "stop")
      BY <2>4 DEF PVTick
    <3>2. CASE PVGoes(id, "fail")
      BY <1>1, <1>3, <3>2, PVGoesFits
    <3>3. CASE PVGoes(id, "stop")
      BY <1>1, <1>3, <3>3, PVGoesFits
    <3>4. CASE PVTransition(id, "EXPIRED", "stop", "stop")
      BY <1>1, <1>2, <1>3, <3>4, PVTransitionFits
    <3> QED BY <3>1, <3>2, <3>3, <3>4
  <2>5. CASE PVFail(id)
    <3>1. PVTransition(id, "EXPIRED", "stop", "stop") \/ PVTransition(id, "FAILED", "stop", "stop")
      BY <2>5, Zenon DEF PVFail
    <3>2. CASE PVTransition(id, "EXPIRED", "stop", "stop")
      BY <1>1, <1>2, <1>3, <3>2, PVTransitionFits
    <3>3. CASE PVTransition(id, "FAILED", "stop", "stop")
      BY <1>1, <1>2, <1>3, <3>3, PVTransitionFits
    <3> QED BY <3>1, <3>2, <3>3
  <2> QED BY <2>1, <2>2, <2>3, <2>4, <2>5
<1> QED BY <1>1, <1>4, PVUnchangedFits, PVWorkerStepKeeps

\* Containers and volumes of some previews are stopped.
LEMMA PVStoppedFits ==
  ASSUME PVTyped, NEW ids, pvData' \in BOOLEAN,
         pvObj' = PVStopped(ids)
  PROVE  PVObjectsFit
<1> DEFINE c(o) == [pvObj[o] EXCEPT !.containers = FALSE, !.volume = FALSE]
<1>1. \A o \in PVIds : /\ pvObj[o] \in PVObjects /\ c(o) \in PVObjects
                       /\ c(o).containers = FALSE /\ c(o).volume = FALSE /\ c(o).files = pvObj[o].files
  BY DEF PVTyped, PVObjects
<1>2. \A o \in PVIds : pvObj'[o] = IF o \in ids THEN c(o) ELSE pvObj[o]
  BY DEF PVStopped
<1>3. pvObj' \in [PVIds -> PVObjects]
  BY <1>1 DEF PVStopped
<1> HIDE DEF c
<1>4. \A o \in PVIds : pvObj'[o].volume => pvObj[o].volume
  BY <1>1, <1>2
<1>5. \A o \in PVIds : (pvObj'[o].containers => pvObj[o].containers) /\ (pvObj'[o].files => pvObj[o].files)
  BY <1>1, <1>2
<1> QED BY <1>3, <1>4, <1>5 DEF PVObjectsFit

\* The checkout: files, of the worker's own preview.
LEMMA PVMaterializeKeeps ==
  ASSUME PVInv, NEW id \in PVIds, PVMaterialize(id)
  PROVE  PVInv'
<1>1. PVTyped /\ PVWorkerKeeps /\ UNCHANGED <<pvKept, pvHeld, pvData>> /\ PVWorks(id)
  BY DEF PVInv, PVMaterialize, PVWorks
<1>2. PVGoes(id, "starting") \/ PVGoes(id, "fail")
  BY Zenon DEF PVMaterialize
<1>3. PVRecordsFit /\ PVWorkersFit
  <2>1. "starting" \in PVPc \ {"none"} /\ "fail" \in PVPc \ {"none"}
    BY DEF PVPc
  <2>2. CASE PVGoes(id, "starting")
    BY <1>1, <2>1, <2>2, PVGoesFits
  <2>3. CASE PVGoes(id, "fail")
    BY <1>1, <2>1, <2>3, PVGoesFits
  <2> QED BY <1>2, <2>2, <2>3
<1>4. pvObj' = pvObj \/ \E made \in BOOLEAN : pvObj' = [pvObj EXCEPT ![id].files = made]
  BY Zenon DEF PVMaterialize, PVCheckout
<1>5. PVObjectsFit
  <2>1. CASE pvObj' = pvObj
    BY <1>1, <2>1, PVUnchangedFits
  <2>2. ASSUME NEW made \in BOOLEAN, pvObj' = [pvObj EXCEPT ![id].files = made]  PROVE PVObjectsFit
    <3> DEFINE c == [pvObj[id] EXCEPT !.files = made]
    <3>1. c \in PVObjects /\ c.volume = pvObj[id].volume
      BY <1>1 DEF PVTyped, PVObjects
    <3>2. pvObj' = [pvObj EXCEPT ![id] = c]
      BY <2>2
    <3> HIDE DEF c
    <3>3. pvObj' \in [PVIds -> PVObjects] /\ pvObj'[id] = c /\ \A i \in PVIds : i # id => pvObj'[i] = pvObj[i]
      BY <1>1, <3>1, <3>2 DEF PVTyped
    <3>4. \A i \in PVIds : pvObj'[i].volume = pvObj[i].volume
      BY <3>1, <3>3
    <3>5. \A i \in PVIds : pvWorker[i].pc = "none" => pvObj'[i] = pvObj[i]
      BY <1>1, <3>3 DEF PVWorks
    <3>6. pvData' \in BOOLEAN
      BY <1>1 DEF PVTyped
    <3> QED BY <3>3, <3>4, <3>5, <3>6 DEF PVObjectsFit
  <2> QED BY <1>4, <2>1, <2>2
<1> QED BY <1>1, <1>3, <1>5, PVUnchangedFits, PVWorkerStepKeeps

\* The kept lock is taken, held while the others go, and given back.
LEMMA PVKeptKeeps ==
  ASSUME PVInv, NEW id \in PVIds, PVTakeKept(id) \/ PVRelease(id) \/ PVUnlock(id)
  PROVE  PVInv'
<1>1. PVTyped /\ PVWorkerKeeps /\ PVWorks(id)
  BY DEF PVInv, PVTakeKept, PVRelease, PVUnlock, PVWorks
<1>2. {"release", "unlock", "volume", "fail"} \subseteq PVPc \ {"none"}
  BY DEF PVPc
<1>3. CASE PVTakeKept(id)
  <2> DEFINE others == {o \in PVKeep \ {id} : PVLive(o)}
             recs == PVEnd(others, "STOPPED")
             w == PVCancel(others)
  <2>1. /\ pvKept' = id /\ pvHeld' = others /\ UNCHANGED <<pvObj, pvData>>
        /\ (IF pvBroken THEN UNCHANGED <<pvRec, pvBroken, pvFaults>> ELSE PVAppend(recs))
        /\ pvUnavail' = (pvUnavail \/ pvBroken') /\ pvWorker' = [w EXCEPT ![id].pc = "release"]
    BY <1>3, Zenon DEF PVTakeKept
  <2>2. others \subseteq PVIds
    BY PVBounds
  <2> HIDE DEF others
  <2>3. recs \in [PVIds -> PVStatus] /\ \A i \in PVIds : pvRec[i] # "none" => recs[i] # "none"
    BY <1>1, PVEndFits DEF PVTerminal
  <2>4. w \in [PVIds -> PVWorkerOf] /\ \A i \in PVIds : w[i].pc = pvWorker[i].pc
    BY <1>1, PVCancelFits
  <2> HIDE DEF recs, w
  <2>5. /\ (pvRec' = pvRec \/ pvRec' = recs) /\ pvRec' \in [PVIds -> PVStatus]
        /\ pvBroken' \in BOOLEAN /\ pvFaults' \in 0..PVMaxFaults
    <3>1. CASE pvBroken
      BY <1>1, <2>1, <3>1 DEF PVTyped
    <3>2. CASE ~pvBroken
      BY <1>1, <2>1, <2>3, <3>2, PVAppendFits
    <3> QED BY <3>1, <3>2
  <2>6. pvUnavail' \in BOOLEAN /\ (pvUnavail => pvUnavail')
    BY <1>1, <2>1 DEF PVTyped
  <2>7. PVRecordsFit
    BY <2>3, <2>5, <2>6 DEF PVRecordsFit
  <2>8. PVWorkersFit
    BY <1>1, <1>2, <2>1, <2>4, PVMovedFits DEF PVWorks
  <2>9. PVLocksFit
    BY <2>1, <2>2 DEF PVLocksFit
  <2> QED BY <1>1, <2>1, <2>7, <2>8, <2>9, PVUnchangedFits, PVWorkerStepKeeps
<1>4. CASE PVRelease(id)
  <2>1. pvHeld' = {} /\ UNCHANGED <<pvKept, pvData>>
    BY <1>4 DEF PVRelease
  <2>2. PVLocksFit
    BY <1>1, <2>1 DEF PVLocksFit, PVTyped
  <2>3. pvObj' = pvObj \/ pvObj' = PVStopped(pvHeld)
    BY <1>4, Zenon DEF PVRelease, PVStopped
  <2>4. PVObjectsFit
    <3>1. pvData' \in BOOLEAN
      BY <1>1, <2>1 DEF PVTyped
    <3> QED BY <1>1, <2>1, <2>3, <3>1, PVUnchangedFits, PVStoppedFits
  <2>5. \/ PVGoes(id, "unlock") \/ PVGoes(id, "volume")
        \/ PVFault /\ pvWorker' = [pvWorker EXCEPT ![id].pc = "unlock"] /\ UNCHANGED <<pvRec, pvBroken, pvUnavail>>
    BY <1>4, Zenon DEF PVRelease
  <2>6. PVRecordsFit /\ PVWorkersFit
    <3>1. CASE PVGoes(id, "unlock")
      BY <1>1, <1>2, <3>1, PVGoesFits
    <3>2. CASE PVGoes(id, "volume")
      BY <1>1, <1>2, <3>2, PVGoesFits
    <3>3. CASE PVFault /\ pvWorker' = [pvWorker EXCEPT ![id].pc = "unlock"] /\ UNCHANGED <<pvRec, pvBroken, pvUnavail>>
      <4>1. pvFaults' \in 0..PVMaxFaults
        BY <1>1, <3>3, PVFaultFits
      <4>2. PVRecordsFit
        BY <1>1, <3>3, <4>1 DEF PVRecordsFit, PVTyped
      <4>3. PVWorkersFit
        BY <1>1, <1>2, <3>3, PVMovedFits DEF PVTyped, PVWorks
      <4> QED BY <4>2, <4>3
    <3> QED BY <2>5, <3>1, <3>2, <3>3
  <2> QED BY <1>1, <2>2, <2>4, <2>6, PVWorkerStepKeeps
<1>5. CASE PVUnlock(id)
  <2>1. pvKept' = "free" /\ PVGoes(id, "fail") /\ UNCHANGED <<pvObj, pvHeld, pvData>>
    BY <1>5 DEF PVUnlock
  <2>2. PVLocksFit
    BY <1>1, <2>1 DEF PVLocksFit, PVTyped
  <2>3. PVRecordsFit /\ PVWorkersFit
    BY <1>1, <1>2, <2>1, PVGoesFits
  <2> QED BY <1>1, <2>1, <2>2, <2>3, PVUnchangedFits, PVWorkerStepKeeps
<1> QED BY <1>3, <1>4, <1>5

\* The containers: on the app's volume only when no other preview is on it.
LEMMA PVStartKeeps ==
  ASSUME PVInv, NEW id \in PVIds, PVStart(id)
  PROVE  PVInv'
<1> DEFINE kept == pvWorker[id].pc = "volume"
<1>1. PVTyped /\ PVWorkerKeeps /\ PVWorks(id) /\ UNCHANGED pvHeld /\ (pvKept' = "free" \/ pvKept' = pvKept)
  BY DEF PVInv, PVStart, PVWorks
<1>2. \/ UNCHANGED <<pvObj, pvData>> /\ PVGoes(id, "fail")
      \/ /\ ~(kept /\ ~PVVolumeFree) /\ PVGoes(id, "health") /\ pvData' = (pvData \/ kept)
         /\ pvObj' = [pvObj EXCEPT ![id].containers = TRUE, ![id].volume = kept]
  BY Zenon DEF PVStart, PVStartGroup
<1>3. {"health", "fail"} \subseteq PVPc \ {"none"}
  BY DEF PVPc
<1>4. PVLocksFit
  BY <1>1 DEF PVLocksFit, PVTyped
<1>5. CASE UNCHANGED <<pvObj, pvData>> /\ PVGoes(id, "fail")
  BY <1>1, <1>3, <1>4, <1>5, PVGoesFits, PVUnchangedFits, PVWorkerStepKeeps
<1>6. CASE /\ ~(kept /\ ~PVVolumeFree) /\ PVGoes(id, "health") /\ pvData' = (pvData \/ kept)
           /\ pvObj' = [pvObj EXCEPT ![id].containers = TRUE, ![id].volume = kept]
  <2>1. PVRecordsFit /\ PVWorkersFit
    BY <1>1, <1>3, <1>6, PVGoesFits
  <2>2. kept \in BOOLEAN /\ pvData' \in BOOLEAN
    BY <1>1, <1>6 DEF PVTyped
  <2>3. kept => \A i \in PVIds : ~pvObj[i].volume
    BY <1>6 DEF PVVolumeFree
  <2> HIDE DEF kept
  <2> DEFINE c == [pvObj[id] EXCEPT !.containers = TRUE, !.volume = kept]
  <2>4. c \in PVObjects /\ c.volume = kept /\ c.files = pvObj[id].files
    BY <1>1, <2>2 DEF PVTyped, PVObjects
  <2>5. pvObj' = [pvObj EXCEPT ![id] = c]
    BY <1>1, <1>6 DEF PVTyped
  <2> HIDE DEF c
  <2>6. pvObj' \in [PVIds -> PVObjects] /\ pvObj'[id] = c /\ \A i \in PVIds : i # id => pvObj'[i] = pvObj[i]
    BY <1>1, <2>4, <2>5 DEF PVTyped
  <2>7. UNCHANGED <<pvUp, pvResolving, pvPast, pvForget, pvPending, pvForgotten>>
    BY <1>1 DEF PVWorkerKeeps
  <2>8. PVTyped'
    BY <1>1, <1>4, <2>1, <2>2, <2>6, <2>7 DEF PVTyped, PVRecordsFit, PVWorkersFit, PVLocksFit
  <2>9. PVWorkerHasRecord'
    BY <2>1 DEF PVInv, PVWorkerHasRecord, PVWorks, PVRecordsFit, PVWorkersFit
  <2>10. PVIdleIsClean'
    <3> SUFFICES ASSUME pvUp' # "down", ~pvUnavail', NEW i \in PVIds, pvWorker'[i].pc = "none"
                 PROVE  ~pvObj'[i].containers /\ ~pvObj'[i].files /\ ~pvObj'[i].volume
      BY DEF PVIdleIsClean, PVWorks
    <3>1. pvUp # "down" /\ ~pvUnavail /\ pvWorker[i].pc = "none"
      BY <2>1, <2>7 DEF PVRecordsFit, PVWorkersFit
    <3>2. i # id /\ pvObj'[i] = pvObj[i]
      BY <1>1, <2>6, <3>1 DEF PVWorks
    <3> QED BY <3>1, <3>2 DEF PVInv, PVIdleIsClean, PVWorks
  <2>11. PVOneVolume'
    <3>1. CASE kept
      BY <2>3, <2>6, <3>1 DEF PVOneVolume
    <3>2. CASE ~kept
      <4>1. \A i \in PVIds : pvObj'[i].volume => pvObj[i].volume
        BY <2>2, <2>4, <2>6, <3>2
      <4> QED BY <4>1 DEF PVInv, PVOneVolume
    <3> QED BY <3>1, <3>2
  <2>12. PVForgetIsFinal'
    BY <2>1, <2>7 DEF PVInv, PVForgetIsFinal, PVWorks, PVWorkersFit
  <2> QED BY <2>8, <2>9, <2>10, <2>11, <2>12 DEF PVInv
<1> QED BY <1>2, <1>5, <1>6

\* The worker ends: its objects go, or the service is unavailable.
LEMMA PVCleanUpKeeps ==
  ASSUME PVInv, NEW id \in PVIds, PVCleanUp(id)
  PROVE  PVInv'
<1>1. /\ PVTyped /\ PVWorkerKeeps /\ pvWorker' = [pvWorker EXCEPT ![id] = PVGone] /\ UNCHANGED <<pvRec, pvBroken, pvKept, pvHeld, pvData>>
  BY DEF PVInv, PVCleanUp
<1>2. UNCHANGED <<pvUp, pvResolving, pvPast, pvForget, pvPending, pvForgotten>>
  BY <1>1 DEF PVWorkerKeeps
<1>3. PVGone \in PVWorkerOf /\ PVGone.pc = "none"
  BY DEF PVGone, PVWorkerOf, PVPc
<1>4. pvWorker' \in [PVIds -> PVWorkerOf] /\ pvWorker'[id].pc = "none" /\ \A i \in PVIds : i # id => pvWorker'[i] = pvWorker[i]
  BY <1>1, <1>3 DEF PVTyped
<1>5. \/ pvObj' = [pvObj EXCEPT ![id] = PVNothing] /\ UNCHANGED <<pvUnavail, pvFaults>>
      \/ /\ PVFault /\ pvUnavail' = TRUE
         /\ pvObj' = pvObj \/ pvObj' = [pvObj EXCEPT ![id].containers = FALSE, ![id].volume = FALSE]
  BY Zenon DEF PVCleanUp
<1>6. /\ pvObj' \in [PVIds -> PVObjects] /\ pvUnavail' \in BOOLEAN /\ pvFaults' \in 0..PVMaxFaults
      /\ (\A i \in PVIds : i # id => pvObj'[i] = pvObj[i])
      /\ (pvObj'[id].volume => pvObj[id].volume)
      /\ \/ pvUnavail' = TRUE
         \/ pvUnavail' = pvUnavail /\ ~pvObj'[id].containers /\ ~pvObj'[id].files /\ ~pvObj'[id].volume
  <2>1. CASE pvObj' = [pvObj EXCEPT ![id] = PVNothing] /\ UNCHANGED <<pvUnavail, pvFaults>>
    <3>1. PVNothing \in PVObjects /\ PVNothing.containers = FALSE /\ PVNothing.files = FALSE /\ PVNothing.volume = FALSE
      BY DEF PVNothing, PVObjects
    <3>2. pvObj' \in [PVIds -> PVObjects] /\ pvObj'[id] = PVNothing /\ \A i \in PVIds : i # id => pvObj'[i] = pvObj[i]
      BY <1>1, <2>1, <3>1 DEF PVTyped
    <3> QED BY <1>1, <2>1, <3>1, <3>2 DEF PVTyped
  <2>2. CASE PVFault /\ pvUnavail' = TRUE /\ (pvObj' = pvObj \/ pvObj' = [pvObj EXCEPT ![id].containers = FALSE, ![id].volume = FALSE])
    <3>1. pvFaults' \in 0..PVMaxFaults
      BY <1>1, <2>2, PVFaultFits
    <3>2. CASE pvObj' = pvObj
      BY <1>1, <2>2, <3>1, <3>2 DEF PVTyped
    <3>3. CASE pvObj' = [pvObj EXCEPT ![id].containers = FALSE, ![id].volume = FALSE]
      <4> DEFINE c == [pvObj[id] EXCEPT !.containers = FALSE, !.volume = FALSE]
      <4>1. c \in PVObjects /\ c.volume = FALSE
        BY <1>1 DEF PVTyped, PVObjects
      <4>2. pvObj' = [pvObj EXCEPT ![id] = c]
        BY <1>1, <3>3 DEF PVTyped
      <4> HIDE DEF c
      <4>3. pvObj' \in [PVIds -> PVObjects] /\ pvObj'[id] = c /\ \A i \in PVIds : i # id => pvObj'[i] = pvObj[i]
        BY <1>1, <4>1, <4>2 DEF PVTyped
      <4> QED BY <2>2, <3>1, <4>1, <4>3
    <3> QED BY <2>2, <3>2, <3>3
  <2> QED BY <1>5, <2>1, <2>2
<1>7. PVTyped'
  BY <1>1, <1>2, <1>4, <1>6 DEF PVTyped
<1>8. PVWorkerHasRecord'
  BY <1>1, <1>4 DEF PVInv, PVWorkerHasRecord, PVWorks
<1>9. PVIdleIsClean'
  <2> SUFFICES ASSUME pvUp' # "down", ~pvUnavail', NEW i \in PVIds, pvWorker'[i].pc = "none"
               PROVE  ~pvObj'[i].containers /\ ~pvObj'[i].files /\ ~pvObj'[i].volume
    BY DEF PVIdleIsClean, PVWorks
  <2>1. CASE i = id
    BY <1>6, <2>1
  <2>2. CASE i # id
    <3>1. pvUp # "down" /\ ~pvUnavail /\ pvWorker[i].pc = "none" /\ pvObj'[i] = pvObj[i]
      BY <1>2, <1>4, <1>6, <2>2
    <3> QED BY <3>1 DEF PVInv, PVIdleIsClean, PVWorks
  <2> QED BY <2>1, <2>2
<1>10. PVOneVolume'
  <2>1. \A i \in PVIds : pvObj'[i].volume => pvObj[i].volume
    BY <1>6
  <2> QED BY <2>1 DEF PVInv, PVOneVolume
<1>11. PVForgetIsFinal'
  BY <1>2, <1>4 DEF PVInv, PVForgetIsFinal, PVWorks
<1> QED BY <1>7, <1>8, <1>9, <1>10, <1>11 DEF PVInv

-----------------------------------------------------------------------------
(* The handlers. *)

\* A create resolves its source.
LEMMA PVCreateBeginKeeps ==
  ASSUME PVInv, NEW id \in PVIds, PVCreateBegin(id)
  PROVE  PVInv'
<1>1. /\ PVTyped /\ pvResolving' = pvResolving \cup {id}
      /\ UNCHANGED <<pvRec, pvBroken, pvUnavail, pvUp, pvWorker, pvObj, pvPast, pvKept, pvHeld, pvForget, pvPending, pvForgotten, pvData, pvFaults>>
  BY DEF PVInv, PVCreateBegin
<1>2. /\ pvUp' \in {"up", "closing", "down"} /\ (pvUp' # "down" => pvUp # "down")
      /\ pvPast' \subseteq PVIds /\ pvPending' \subseteq PVIds /\ pvResolving' \subseteq PVIds
  BY <1>1 DEF PVTyped
<1> QED BY <1>1, <1>2, PVUnchangedFits, PVFitKeeps

\* A create is admitted: only of a run that is not forgotten.
LEMMA PVCreateEndKeeps ==
  ASSUME PVInv, NEW id \in PVIds, PVCreateEnd(id)
  PROVE  PVInv'
<1>1. /\ PVTyped /\ pvResolving' = pvResolving \ {id}
      /\ UNCHANGED <<pvUnavail, pvUp, pvObj, pvPast, pvKept, pvHeld, pvForget, pvPending, pvForgotten, pvData>>
  BY DEF PVInv, PVCreateEnd
<1> DEFINE recs == [pvRec EXCEPT ![id] = "REQUESTED"]
           w == [pc |-> "validate", cancelled |-> FALSE]
<1>2. /\ pvUp' \in {"up", "closing", "down"} /\ (pvUp' # "down" => pvUp # "down")
      /\ pvPast' \subseteq PVIds /\ pvPending' \subseteq PVIds /\ pvResolving' \subseteq PVIds
  BY <1>1 DEF PVTyped
<1>3. CASE UNCHANGED <<pvRec, pvBroken, pvWorker, pvFaults>>
  BY <1>1, <1>2, <1>3, PVUnchangedFits, PVFitKeeps
<1>4. CASE PVMayAdmit(id) /\ PVAppend(recs) /\ pvWorker' = (IF pvBroken' THEN pvWorker ELSE [pvWorker EXCEPT ![id] = w])
  <2>1. recs \in [PVIds -> PVStatus] /\ \A i \in PVIds : pvRec[i] # "none" => recs[i] # "none"
    BY <1>1 DEF PVTyped, PVStatus
  <2>2. recs[id] # "none"
    BY <1>1 DEF PVTyped
  <2> HIDE DEF recs
  <2>3. /\ (pvRec' = pvRec \/ pvRec' = recs) /\ pvRec' \in [PVIds -> PVStatus]
        /\ pvBroken' \in BOOLEAN /\ pvFaults' \in 0..PVMaxFaults
    BY <1>1, <1>4, <2>1, PVAppendFits
  <2>4. PVRecordsFit
    BY <1>1, <2>1, <2>3 DEF PVRecordsFit, PVTyped
  <2>5. CASE pvBroken'
    <3>1. pvWorker' = pvWorker
      BY <1>4, <2>5
    <3> QED BY <1>1, <1>2, <2>4, <3>1, PVUnchangedFits, PVFitKeeps
  <2>6. CASE ~pvBroken'
    <3>1. pvWorker' = [pvWorker EXCEPT ![id] = w] /\ pvRec' = recs /\ ~pvForgotten
      BY <1>4, <2>6 DEF PVMayAdmit, PVMayCreate, PVAppend
    <3>2. w \in PVWorkerOf /\ w.pc # "none"
      BY DEF PVWorkerOf, PVPc
    <3> HIDE DEF w
    <3>3. pvWorker' \in [PVIds -> PVWorkerOf] /\ pvWorker'[id] = w /\ \A i \in PVIds : i # id => pvWorker'[i] = pvWorker[i]
      BY <1>1, <3>1, <3>2 DEF PVTyped
    <3>4. PVTyped'
      BY <1>1, <1>2, <2>3, <3>3 DEF PVTyped
    <3>5. PVWorkerHasRecord'
      BY <2>1, <2>2, <3>1, <3>3 DEF PVInv, PVWorkerHasRecord, PVWorks
    <3>6. PVIdleIsClean'
      BY <1>1, <3>2, <3>3 DEF PVInv, PVIdleIsClean, PVWorks
    <3>7. PVOneVolume'
      BY <1>1 DEF PVInv, PVOneVolume
    <3>8. pvForget.pc = "none"
      BY <3>1 DEF PVInv, PVForgetIsFinal
    <3>9. PVForgetIsFinal'
      BY <1>1, <3>8 DEF PVForgetIsFinal
    <3> QED BY <3>4, <3>5, <3>6, <3>7, <3>9 DEF PVInv
  <2> QED BY <2>5, <2>6
<1>5. \/ UNCHANGED <<pvRec, pvBroken, pvWorker, pvFaults>>
      \/ PVMayAdmit(id) /\ PVAppend(recs) /\ pvWorker' = (IF pvBroken' THEN pvWorker ELSE [pvWorker EXCEPT ![id] = w])
  BY Zenon DEF PVCreateEnd
<1> QED BY <1>3, <1>4, <1>5

\* Live previews end by one append.
LEMMA PVEndedFits ==
  ASSUME PVTyped, NEW ids, NEW status \in PVTerminal, PVAppend(PVEnd(ids, status)), pvUnavail' \in BOOLEAN, pvUnavail => pvUnavail'
  PROVE  PVRecordsFit
<1> DEFINE recs == PVEnd(ids, status)
<1>1. recs \in [PVIds -> PVStatus] /\ \A i \in PVIds : pvRec[i] # "none" => recs[i] # "none"
  BY PVEndFits
<1>2. PVAppend(recs)
  OBVIOUS
<1> HIDE DEF recs
<1>3. /\ (pvRec' = pvRec \/ pvRec' = recs) /\ pvRec' \in [PVIds -> PVStatus]
      /\ pvBroken' \in BOOLEAN /\ pvFaults' \in 0..PVMaxFaults
  BY <1>1, <1>2, PVAppendFits
<1> QED BY <1>1, <1>3 DEF PVRecordsFit

\* Workers are cancelled, or are as they were.
LEMMA PVCancelledFits ==
  ASSUME PVTyped, NEW ids, pvWorker' = pvWorker \/ pvWorker' = PVCancel(ids)
  PROVE  PVWorkersFit
<1>1. PVCancel(ids) \in [PVIds -> PVWorkerOf] /\ \A i \in PVIds : PVCancel(ids)[i].pc = pvWorker[i].pc
  BY PVCancelFits
<1>2. CASE pvWorker' = pvWorker
  BY <1>2, PVUnchangedFits
<1>3. CASE pvWorker' = PVCancel(ids)
  BY <1>1, <1>3 DEF PVWorkersFit
<1> QED BY <1>2, <1>3

\* StopPreview, the deadline and Close end previews and cancel workers.
LEMMA PVStopKeeps ==
  ASSUME PVInv, (\E id \in PVIds : PVStop(id) \/ PVDeadline(id)) \/ PVClose
  PROVE  PVInv'
<1>1. PVTyped /\ UNCHANGED <<pvUnavail, pvResolving, pvObj, pvKept, pvHeld, pvForget, pvPending, pvForgotten, pvData>>
  BY DEF PVInv, PVStop, PVDeadline, PVClose
<1>2. /\ pvUp' \in {"up", "closing", "down"} /\ (pvUp' # "down" => pvUp # "down")
      /\ pvPast' \subseteq PVIds /\ pvPending' \subseteq PVIds /\ pvResolving' \subseteq PVIds
  BY <1>1 DEF PVTyped, PVStop, PVDeadline, PVClose
<1>3. \E ids : pvWorker' = pvWorker \/ pvWorker' = PVCancel(ids)
  BY Zenon DEF PVStop, PVDeadline, PVClose
<1>4. PVWorkersFit
  BY <1>1, <1>3, PVCancelledFits
<1>5. {"EXPIRED", "STOPPED"} \subseteq PVTerminal /\ pvUnavail' \in BOOLEAN /\ (pvUnavail => pvUnavail')
  BY <1>1 DEF PVTerminal, PVTyped
<1>6. PVRecordsFit
  <2>1. ASSUME NEW id \in PVIds, PVStop(id)  PROVE PVRecordsFit
    <3>1. PVAppend(PVEnd({id}, "EXPIRED")) \/ PVAppend(PVEnd({id}, "STOPPED"))
      BY <2>1, Zenon DEF PVStop
    <3> QED BY <1>1, <1>5, <3>1, PVEndedFits
  <2>2. ASSUME NEW id \in PVIds, PVDeadline(id)  PROVE PVRecordsFit
    BY <1>1, <2>2, PVUnchangedFits DEF PVDeadline
  <2>3. CASE PVClose
    <3>1. UNCHANGED <<pvRec, pvBroken, pvFaults>> \/ PVAppend(PVEnd(PVIds, "STOPPED"))
      BY <2>3, Zenon DEF PVClose
    <3>2. CASE UNCHANGED <<pvRec, pvBroken, pvFaults>>
      BY <1>1, <3>2, PVUnchangedFits
    <3>3. CASE PVAppend(PVEnd(PVIds, "STOPPED"))
      BY <1>1, <1>5, <3>3, PVEndedFits
    <3> QED BY <3>1, <3>2, <3>3
  <2> QED BY <2>1, <2>2, <2>3
<1> QED BY <1>1, <1>2, <1>4, <1>6, PVUnchangedFits, PVFitKeeps

\* ForgetPreviewData and SweepKeptData.
LEMMA PVDataKeeps ==
  ASSUME PVInv, PVForgetData \/ PVDataForgotten \/ PVSweep
  PROVE  PVInv'
<1>1. PVTyped /\ UNCHANGED <<pvUp, pvResolving, pvPast, pvForget, pvPending, pvForgotten>>
  BY DEF PVInv, PVForgetData, PVDataForgotten, PVSweep
<1>2. /\ pvUp' \in {"up", "closing", "down"} /\ (pvUp' # "down" => pvUp # "down")
      /\ pvPast' \subseteq PVIds /\ pvPending' \subseteq PVIds /\ pvResolving' \subseteq PVIds
  BY <1>1 DEF PVTyped
<1>3. CASE PVForgetData
  <2> DEFINE live == {o \in PVIds : PVLive(o)}
  <2>1. /\ pvHeld' = live /\ PVAppend(PVEnd(live, "STOPPED")) /\ pvWorker' = PVCancel(live)
        /\ pvKept' = "data" /\ pvUnavail' = (pvUnavail \/ pvBroken') /\ UNCHANGED <<pvObj, pvData>>
    BY <1>3, Zenon DEF PVForgetData
  <2>2. PVLocksFit
    BY <2>1 DEF PVLocksFit
  <2> HIDE DEF live
  <2>3. pvUnavail' \in BOOLEAN /\ (pvUnavail => pvUnavail') /\ "STOPPED" \in PVTerminal
    BY <1>1, <2>1 DEF PVTyped, PVTerminal
  <2>4. PVRecordsFit /\ PVWorkersFit
    BY <1>1, <2>1, <2>3, PVEndedFits, PVCancelledFits
  <2> QED BY <1>1, <1>2, <2>1, <2>2, <2>4, PVUnchangedFits, PVFitKeeps
<1>4. CASE PVDataForgotten
  <2>1. pvKept' = "free" /\ pvHeld' = {} /\ UNCHANGED <<pvRec, pvBroken, pvUnavail, pvWorker, pvFaults>>
    BY <1>4 DEF PVDataForgotten
  <2>2. PVLocksFit
    BY <2>1 DEF PVLocksFit
  <2>3. \/ UNCHANGED <<pvObj, pvData>>
        \/ pvObj' = PVStopped(pvHeld) /\ \E v : pvData' = (pvData /\ v)
    BY <1>4, Zenon DEF PVDataForgotten, PVStopped
  <2>4. PVObjectsFit
    <3>1. CASE UNCHANGED <<pvObj, pvData>>
      BY <1>1, <3>1, PVUnchangedFits
    <3>2. CASE pvObj' = PVStopped(pvHeld) /\ \E v : pvData' = (pvData /\ v)
      BY <1>1, <3>2, PVStoppedFits
    <3> QED BY <2>3, <3>1, <3>2
  <2> QED BY <1>1, <1>2, <2>1, <2>2, <2>4, PVUnchangedFits, PVFitKeeps
<1>5. CASE PVSweep
  <2>1. pvData' = FALSE /\ UNCHANGED <<pvRec, pvBroken, pvUnavail, pvWorker, pvObj, pvKept, pvHeld, pvFaults>>
    BY <1>5 DEF PVSweep
  <2>2. PVObjectsFit
    BY <1>1, <2>1 DEF PVObjectsFit, PVTyped
  <2> QED BY <1>1, <1>2, <2>1, <2>2, PVUnchangedFits, PVFitKeeps
<1> QED BY <1>3, <1>4, <1>5

\* ForgetPreviews: it ends what lives, waits until nobody works, and cleans up.
LEMMA PVForgetKeeps ==
  ASSUME PVInv, PVForgetMark \/ PVForgetWait \/ PVForgetStop
  PROVE  PVInv'
<1> DEFINE F == [pc : {"none", "wait", "stop", "done"}, held : SUBSET PVIds]
<1>1. PVTyped /\ UNCHANGED <<pvUp, pvResolving, pvPast, pvKept, pvHeld, pvData>>
  BY DEF PVInv, PVForgetMark, PVForgetWait, PVForgetStop
<1>2. /\ pvUp' \in {"up", "closing", "down"} /\ (pvUp' # "down" => pvUp # "down")
      /\ pvPast' \subseteq PVIds /\ pvResolving' \subseteq PVIds /\ pvForget \in F /\ pvPending \subseteq PVIds
  BY <1>1 DEF PVTyped
<1>3. CASE PVForgetMark
  <2> DEFINE live == {i \in PVIds : PVLive(i)}
  <2>1. /\ pvForgotten' = TRUE /\ PVAppend(PVEnd(live, "STOPPED")) /\ UNCHANGED pvObj
        /\ \/ pvUnavail' = TRUE /\ UNCHANGED <<pvPending, pvForget, pvWorker>>
           \/ /\ pvPending' = pvPending \cup live /\ pvForget' = [pc |-> "wait", held |-> pvPending \cup live]
              /\ pvWorker' = PVCancel(PVIds) /\ UNCHANGED pvUnavail
    BY <1>3, Zenon DEF PVForgetMark
  <2>2. live \subseteq PVIds
    OBVIOUS
  <2> HIDE DEF live
  <2>a. pvUnavail' = TRUE \/ pvUnavail' = pvUnavail
    BY <2>1
  <2>3. pvUnavail' \in BOOLEAN /\ (pvUnavail => pvUnavail') /\ "STOPPED" \in PVTerminal
    BY <1>1, <2>a DEF PVTyped, PVTerminal
  <2>4. PVRecordsFit
    BY <1>1, <2>1, <2>3, PVEndedFits
  <2>5. PVWorkersFit
    BY <1>1, <2>1, PVCancelledFits
  <2>6. pvPending' \subseteq PVIds /\ pvForget' \in F /\ (pvForget' = pvForget \/ pvForget'.pc = "wait")
    BY <1>2, <2>1, <2>2
  <2>7. PVForgetIsFinal'
    <3>1. CASE pvForget' = pvForget
      BY <2>1, <2>5, <3>1 DEF PVInv, PVForgetIsFinal, PVWorkersFit, PVWorks
    <3>2. CASE pvForget'.pc = "wait"
      BY <2>1, <3>2 DEF PVForgetIsFinal
    <3> QED BY <2>6, <3>1, <3>2
  <2>8. pvForgotten' \in BOOLEAN
    BY <2>1
  <2> QED BY <1>1, <1>2, <2>1, <2>4, <2>5, <2>6, <2>7, <2>8, PVUnchangedFits, PVForgetFitKeeps
<1>4. CASE PVForgetWait
  <2> DEFINE busy == \E i \in PVIds : pvRec[i] # "none" /\ PVWorks(i)
             pc == IF busy THEN "none" ELSE "stop"
  <2>1. /\ pvForget.pc = "wait" /\ pvForget' = [pvForget EXCEPT !.pc = pc]
        /\ UNCHANGED <<pvRec, pvBroken, pvUnavail, pvWorker, pvObj, pvPending, pvForgotten, pvFaults>>
    BY <1>4, Zenon DEF PVForgetWait
  <2>2. pc \in {"none", "stop"} /\ (pc = "stop" => \A i \in PVIds : ~PVWorks(i))
    BY DEF PVInv, PVWorkerHasRecord
  <2> HIDE DEF pc
  <2>3. pvForget' \in F /\ pvForget'.pc = pc
    BY <1>2, <2>1, <2>2
  <2>4. pvForgotten
    BY <2>1 DEF PVInv, PVForgetIsFinal
  <2>5. PVForgetIsFinal'
    BY <2>1, <2>2, <2>3, <2>4 DEF PVForgetIsFinal, PVWorks
  <2>6. pvForgotten' \in BOOLEAN /\ pvPending' \subseteq PVIds
    BY <1>1, <2>1 DEF PVTyped
  <2> QED BY <1>1, <1>2, <2>1, <2>3, <2>5, <2>6, PVUnchangedFits, PVForgetFitKeeps
<1>5. CASE PVForgetStop
  <2>1. pvForget.pc = "stop" /\ UNCHANGED <<pvRec, pvBroken, pvUnavail, pvWorker, pvForgotten>>
    BY <1>5 DEF PVForgetStop
  <2>2. pvForgotten /\ \A i \in PVIds : ~PVWorks(i)
    BY <2>1 DEF PVInv, PVForgetIsFinal
  <2>3. pvForget' \in F => PVForgetIsFinal'
    BY <2>1, <2>2 DEF PVForgetIsFinal, PVWorks
  <2>4. PVWorkersFit /\ PVLocksFit /\ pvForgotten' \in BOOLEAN /\ pvData' \in BOOLEAN
    BY <1>1, <2>1, PVUnchangedFits DEF PVTyped
  <2>5. CASE pvForget.held = {}
    <3>1. /\ pvForget' = [pc |-> "done", held |-> {}] /\ UNCHANGED <<pvPending, pvFaults>>
          /\ pvObj' = [o \in PVIds |-> [pvObj[o] EXCEPT !.files = FALSE]]
      BY <1>5, <2>5, Zenon DEF PVForgetStop
    <3>2. pvForget' \in F
      BY <3>1
    <3> DEFINE c(o) == [pvObj[o] EXCEPT !.files = FALSE]
    <3>3. \A o \in PVIds : /\ c(o) \in PVObjects
                           /\ c(o).files = FALSE /\ c(o).containers = pvObj[o].containers /\ c(o).volume = pvObj[o].volume
      BY <1>1 DEF PVTyped, PVObjects
    <3>4. pvObj' \in [PVIds -> PVObjects] /\ \A o \in PVIds : pvObj'[o] = c(o)
      BY <3>1, <3>3
    <3> HIDE DEF c
    <3>5. PVObjectsFit
      BY <2>4, <3>3, <3>4 DEF PVObjectsFit
    <3> QED BY <1>1, <1>2, <2>1, <2>3, <2>4, <3>1, <3>2, <3>5, PVUnchangedFits, PVForgetFitKeeps
  <2>6. CASE pvForget.held # {}
    <3>1. PICK id \in pvForget.held :
            \/ /\ pvForget' = [pvForget EXCEPT !.held = @ \ {id}] /\ pvPending' = pvPending \ {id} /\ UNCHANGED pvFaults
               /\ pvObj' = [pvObj EXCEPT ![id].containers = FALSE, ![id].volume = FALSE]
            \/ PVFault /\ pvForget' = [pc |-> "none", held |-> {}] /\ UNCHANGED <<pvPending, pvObj>>
      BY <1>5, <2>6, Zenon DEF PVForgetStop
    <3>2. id \in PVIds /\ pvPending' \subseteq PVIds /\ pvForget' \in F
      BY <1>2, <3>1
    <3>3. PVRecordsFit
      <4>1. pvFaults' \in 0..PVMaxFaults
        BY <1>1, <3>1, PVFaultFits DEF PVTyped
      <4> QED BY <1>1, <2>1, <4>1 DEF PVRecordsFit, PVTyped
    <3>4. PVObjectsFit
      <4>1. CASE pvObj' = pvObj
        BY <1>1, <4>1, PVUnchangedFits
      <4>2. CASE pvObj' = [pvObj EXCEPT ![id].containers = FALSE, ![id].volume = FALSE]
        <5>1. pvObj' = PVStopped({id})
          BY <1>1, <3>2, <4>2 DEF PVTyped, PVStopped
        <5> QED BY <1>1, <2>4, <5>1, PVStoppedFits
      <4> QED BY <3>1, <4>1, <4>2
    <3> QED BY <1>1, <1>2, <2>1, <2>3, <2>4, <3>2, <3>3, <3>4, PVForgetFitKeeps
  <2> QED BY <2>5, <2>6
<1> QED BY <1>3, <1>4, <1>5

\* The process ends and comes back: nothing works, and what it finds it removes.
LEMMA PVProcessKeeps ==
  ASSUME PVInv, PVDown \/ PVRestart
  PROVE  PVInv'
<1>1. CASE PVDown
  <2>1. /\ PVTyped /\ pvUp' = "down" /\ UNCHANGED <<pvRec, pvUnavail, pvObj, pvPast, pvForgotten, pvData>>
        /\ pvWorker' = [i \in PVIds |-> PVGone] /\ pvResolving' = {} /\ pvKept' = "free" /\ pvHeld' = {} /\ pvPending' = {}
        /\ pvForget' = [pc |-> IF pvForget.pc = "done" THEN "done" ELSE "none", held |-> {}]
    BY <1>1 DEF PVInv, PVDown
  <2>2. PVGone \in PVWorkerOf /\ PVGone.pc = "none"
    BY DEF PVGone, PVWorkerOf, PVPc
  <2>3. pvWorker' \in [PVIds -> PVWorkerOf] /\ \A i \in PVIds : pvWorker'[i].pc = "none"
    BY <2>1, <2>2
  <2>4. (pvBroken' = pvBroken \/ pvBroken' = TRUE) /\ (pvFaults' = pvFaults \/ PVFault)
    BY <1>1 DEF PVDown
  <2>5. pvBroken' \in BOOLEAN /\ pvFaults' \in 0..PVMaxFaults
    BY <2>1, <2>4, PVFaultFits DEF PVTyped
  <2>6. /\ pvForget' \in [pc : {"none", "wait", "stop", "done"}, held : SUBSET PVIds]
        /\ pvForget'.pc # "none" => pvForget.pc = "done"
    BY <2>1
  <2>7. PVTyped'
    BY <2>1, <2>3, <2>5, <2>6 DEF PVTyped
  <2>8. PVWorkerHasRecord' /\ PVIdleIsClean'
    BY <2>1, <2>3 DEF PVWorkerHasRecord, PVIdleIsClean, PVWorks
  <2>9. PVOneVolume'
    BY <2>1 DEF PVInv, PVOneVolume
  <2>10. PVForgetIsFinal'
    BY <2>1, <2>3, <2>6 DEF PVInv, PVForgetIsFinal, PVWorks
  <2> QED BY <2>7, <2>8, <2>9, <2>10 DEF PVInv
<1>2. CASE PVRestart
  <2> DEFINE recs == [i \in PVIds |-> IF PVLive(i) THEN IF i \in pvPast THEN "EXPIRED" ELSE "FAILED" ELSE pvRec[i]]
  <2>1. /\ PVTyped /\ pvUp' = "up" /\ pvObj' = [i \in PVIds |-> PVNothing] /\ pvUnavail' = ~PVLoads
        /\ pvRec' = pvRec \/ pvRec' = recs
        /\ UNCHANGED <<pvBroken, pvResolving, pvWorker, pvPast, pvKept, pvHeld, pvForget, pvPending, pvForgotten, pvData, pvFaults>>
    BY <1>2, Zenon DEF PVInv, PVRestart
  <2>2. recs \in [PVIds -> PVStatus] /\ \A i \in PVIds : pvRec[i] # "none" => recs[i] # "none"
    BY <2>1 DEF PVTyped, PVStatus, PVTerminal
  <2> HIDE DEF recs
  <2>3. PVNothing \in PVObjects /\ PVNothing.containers = FALSE /\ PVNothing.files = FALSE /\ PVNothing.volume = FALSE
    BY DEF PVNothing, PVObjects
  <2>4. pvObj' \in [PVIds -> PVObjects] /\ \A i \in PVIds : ~pvObj'[i].containers /\ ~pvObj'[i].files /\ ~pvObj'[i].volume
    BY <2>1, <2>3
  <2>5. pvUnavail' \in BOOLEAN
    BY <2>1
  <2>6. PVTyped'
    BY <2>1, <2>2, <2>4, <2>5 DEF PVTyped
  <2>7. PVWorkerHasRecord'
    BY <2>1, <2>2 DEF PVInv, PVWorkerHasRecord, PVWorks
  <2>8. PVIdleIsClean' /\ PVOneVolume'
    BY <2>4 DEF PVIdleIsClean, PVOneVolume
  <2>9. PVForgetIsFinal'
    BY <2>1 DEF PVInv, PVForgetIsFinal, PVWorks
  <2> QED BY <2>6, <2>7, <2>8, <2>9 DEF PVInv
<1> QED BY <1>1, <1>2

-----------------------------------------------------------------------------
(* The theorems. *)

\* Before its first preview the service has nothing.
LEMMA PVInitHolds == PVInit => PVInv
<1> SUFFICES ASSUME PVInit PROVE PVInv
  OBVIOUS
<1>1. PVGone \in PVWorkerOf /\ PVGone.pc = "none"
  BY DEF PVGone, PVWorkerOf, PVPc
<1>2. PVNothing \in PVObjects /\ PVNothing.volume = FALSE /\ PVNothing.containers = FALSE /\ PVNothing.files = FALSE
  BY DEF PVNothing, PVObjects
<1>3. /\ pvRec \in [PVIds -> PVStatus] /\ pvWorker \in [PVIds -> PVWorkerOf] /\ pvObj \in [PVIds -> PVObjects]
      /\ \A i \in PVIds : pvWorker[i].pc = "none" /\ ~pvObj[i].containers /\ ~pvObj[i].files /\ ~pvObj[i].volume
  BY <1>1, <1>2 DEF PVInit, PVStatus
<1>4. pvForget \in [pc : {"none", "wait", "stop", "done"}, held : SUBSET PVIds] /\ pvForget.pc = "none"
  BY DEF PVInit
<1>a. pvBroken \in BOOLEAN /\ pvUnavail \in BOOLEAN /\ pvForgotten \in BOOLEAN /\ pvData \in BOOLEAN
  BY DEF PVInit
<1>b. /\ pvUp \in {"up", "closing", "down"} /\ pvKept \in PVIds \cup {"free", "data"} /\ pvFaults \in 0..PVMaxFaults
      /\ pvHeld \subseteq PVIds /\ pvPast \subseteq PVIds /\ pvPending \subseteq PVIds /\ pvResolving \subseteq PVIds
  BY PVBounds DEF PVInit
<1>5. PVTyped
  BY <1>3, <1>4, <1>a, <1>b DEF PVTyped
<1>6. PVWorkerHasRecord /\ PVIdleIsClean /\ PVOneVolume /\ PVForgetIsFinal
  BY <1>3, <1>4 DEF PVWorkerHasRecord, PVIdleIsClean, PVOneVolume, PVForgetIsFinal, PVWorks
<1> QED BY <1>5, <1>6 DEF PVInv

\* Every step of a worker, of a handler and of the process keeps the invariant.
LEMMA PVNextKeeps == PVInv /\ [PVNext]_pvVars => PVInv'
<1> SUFFICES ASSUME PVInv, [PVNext]_pvVars PROVE PVInv'
  OBVIOUS
<1>1. ASSUME NEW id \in PVIds, PVWork(id)  PROVE PVInv'
  <2>1. CASE PVValidate(id) \/ PVStarting(id) \/ PVHealth(id) \/ PVTick(id) \/ PVFail(id)
    BY <2>1, PVTransitionsKeep
  <2>2. CASE PVMaterialize(id)
    BY <2>2, PVMaterializeKeeps
  <2>3. CASE PVTakeKept(id) \/ PVRelease(id) \/ PVUnlock(id)
    BY <2>3, PVKeptKeeps
  <2>4. CASE PVStart(id)
    BY <2>4, PVStartKeeps
  <2>5. CASE PVCleanUp(id)
    BY <2>5, PVCleanUpKeeps
  <2> QED BY <1>1, <2>1, <2>2, <2>3, <2>4, <2>5 DEF PVWork
<1>2. ASSUME NEW id \in PVIds, PVCreateBegin(id)  PROVE PVInv'
  BY <1>2, PVCreateBeginKeeps
<1>3. ASSUME NEW id \in PVIds, PVCreateEnd(id)  PROVE PVInv'
  BY <1>3, PVCreateEndKeeps
<1>4. CASE (\E id \in PVIds : PVStop(id) \/ PVDeadline(id)) \/ PVClose
  BY <1>4, PVStopKeeps
<1>5. CASE PVForgetData \/ PVDataForgotten \/ PVSweep
  BY <1>5, PVDataKeeps
<1>6. CASE PVForgetMark \/ PVForgetWait \/ PVForgetStop
  BY <1>6, PVForgetKeeps
<1>7. CASE PVDown \/ PVRestart
  BY <1>7, PVProcessKeeps
<1>8. CASE UNCHANGED pvVars
  <2>1. UNCHANGED <<pvRec, pvBroken, pvUnavail, pvUp, pvResolving, pvWorker, pvObj, pvPast, pvKept, pvHeld, pvForget, pvPending, pvForgotten, pvData, pvFaults>>
    BY <1>8 DEF pvVars
  <2>2. PVTyped
    BY DEF PVInv
  <2>3. /\ pvUp' \in {"up", "closing", "down"} /\ (pvUp' # "down" => pvUp # "down")
        /\ pvPast' \subseteq PVIds /\ pvPending' \subseteq PVIds /\ pvResolving' \subseteq PVIds
    BY <2>1, <2>2 DEF PVTyped
  <2> QED BY <2>1, <2>2, <2>3, PVUnchangedFits, PVFitKeeps
<1> QED BY <1>1, <1>2, <1>3, <1>4, <1>5, <1>6, <1>7, <1>8, Zenon DEF PVNext

\* The service keeps the inductive invariant, whatever its handlers, its workers and its deaths do.
THEOREM PreviewsInvariant == PVSpec => []PVInv
<1>1. PVInit => PVInv
  BY PVInitHolds
<1>2. PVInv /\ [PVNext]_pvVars => PVInv'
  BY PVNextKeeps
<1> QED BY <1>1, <1>2, PTL DEF PVSpec

\* One database per volume, and once ForgetPreviews has answered nothing of the
\* run's previews is left or comes back.
THEOREM PreviewsAreSound == PVSpec => []PVSound
<1>1. PVInv => PVSound
  <2> SUFFICES ASSUME PVInv PROVE PVSound
    OBVIOUS
  <2>1. PVTyped
    BY DEF PVInv
  <2>2. PVTypeOK
    <3>1. \A id \in PVIds : pvRec[id] \in PVTerminal \cup {"none", "REQUESTED", "VALIDATING", "STARTING", "READY"}
      BY <2>1 DEF PVTyped, PVStatus
    <3>2. {pvBroken, pvUnavail, pvForgotten, pvData} \subseteq BOOLEAN
      BY <2>1 DEF PVTyped
    <3>3. pvHeld \cup pvPast \cup pvPending \cup pvResolving \subseteq PVIds
      BY <2>1 DEF PVTyped
    <3> QED BY <2>1, <3>1, <3>2, <3>3 DEF PVTyped, PVTypeOK
  <2>3. PVOneDatabase
    <3> DEFINE V == {id \in PVIds : pvObj[id].volume}
    <3>1. \A i, j \in V : i = j
      BY DEF PVInv, PVOneVolume
    <3> HIDE DEF V
    <3>2. CASE V = {}
      <4>1. Cardinality(V) = 0
        BY <3>2, FS_EmptySet
      <4> QED BY <4>1 DEF V, PVOneDatabase
    <3>3. ASSUME NEW i \in V  PROVE PVOneDatabase
      <4>1. V = {i}
        BY <3>1
      <4>2. Cardinality(V) = 1
        BY <4>1, FS_Singleton
      <4> QED BY <4>2 DEF V, PVOneDatabase
    <3> QED BY <3>2, <3>3
  <2>4. PVForgottenIsGone
    <3> SUFFICES ASSUME pvForget.pc = "done", pvUp # "down", ~pvUnavail, NEW id \in PVIds
                 PROVE  ~PVWorks(id) /\ pvObj[id] = PVNothing
      BY DEF PVForgottenIsGone
    <3>1. ~PVWorks(id)
      BY DEF PVInv, PVForgetIsFinal
    <3>2. ~pvObj[id].containers /\ ~pvObj[id].files /\ ~pvObj[id].volume
      BY <3>1 DEF PVInv, PVIdleIsClean
    <3>3. pvObj[id] \in PVObjects
      BY <2>1 DEF PVTyped
    <3>4. pvObj[id].containers = FALSE /\ pvObj[id].files = FALSE /\ pvObj[id].volume = FALSE
      BY <3>2, <3>3 DEF PVObjects
    <3>5. pvObj[id] = PVNothing
      BY <3>3, <3>4 DEF PVObjects, PVNothing
    <3> QED BY <3>1, <3>5
  <2> QED BY <2>2, <2>3, <2>4 DEF PVSound
<1> QED BY <1>1, PreviewsInvariant, PTL

-----------------------------------------------------------------------------
(* The catalog of runs. *)

\* Where a process holds the lock, the stages a prepared namespace goes through and
\* the records of the state.
RKHeld == {"remove", "reconcile", "publish", "body", "bind", "attempts", "identity", "full", "rename",
           "history", "checkpoint", "link", "unlink", "retire"}
RKPrepared == {"PREPARED_RUN", "PREPARED_FULL"}
RKNamed == {rkHistory[i] : i \in 1..Len(rkHistory)}
RKStageMade == [made |-> TRUE, attempts |-> FALSE, identity |-> "none"]
RKStageWhole == [made |-> TRUE, attempts |-> TRUE, identity |-> "whole"]

RKIssuing == {"attempts", "identity", "full", "rename", "history", "checkpoint"}
RKUnlisted == {"history", "checkpoint", "body", "link"}
RKAuthority == [state : {"none", "ESTABLISHED", "PREPARED_RUN", "PREPARED_FULL"}, run : RKRuns \cup {NoRKRun}]
RKStages == [made : BOOLEAN, attempts : BOOLEAN, identity : {"none", "part", "whole"}]
RKLeases == [gen : 0..RKGens, state : {"ACTIVE", "CLOSING", "RETIRED"}]
RKProcess == [pc : RKPC, op : RKOp, run : RKRuns \cup {NoRKRun}, by : RKProcs \cup {NoRKProc}, gen : 0..RKGens]

\* A flock is held by the process that is between its acquisition and its release.
RKLocksFit ==
  /\ \A p \in RKProcs : rkProc[p].pc \in RKHeld <=> rkFlock["catalog"] = p
  /\ \A p \in RKProcs : (rkProc[p].pc # "down" /\ rkProc[p].op = "open") <=> rkFlock["root"] = p

\* What the disk is at any time: a crash may follow any step.
RKDiskFits ==
  /\ ~RKIntegrity
  /\ ~rkStage.made => rkStage = NoRKStage
  /\ rkTail # "none" => rkAuth.state = "PREPARED_FULL"
  /\ rkAuth.state = "none" => rkStage = NoRKStage /\ rkDirs = {} /\ rkHistory = <<>>
  /\ rkAuth.state \notin RKPrepared => rkAuth.run = NoRKRun
  /\ rkAuth.state \in RKPrepared => rkAuth.run \in RKRuns /\ rkAuth.run \notin RKNamed
  /\ rkRoot = "ready" => rkMade = RKObjects /\ rkAuth.state # "none"
  /\ rkRoot = "none" => rkMade = 0
  /\ "root" \in rkCopies => rkHistory = <<>> /\ rkAuth.state \notin RKPrepared
  /\ RKNamed \subseteq rkDirs /\ rkDirs \subseteq RKNamed \cup {rkAuth.run}
  /\ IsFiniteSet(RKNamed) /\ Cardinality(RKNamed) = Len(rkHistory)

\* Where a process can be, with what it passed on the way there.
RKWay(p) ==
  LET s == rkProc[p] IN
  /\ s.pc = "down" => s = RKDown
  /\ s.pc # "down" => s.run \in RKRuns /\ rkRoot # "none"
  /\ s.pc \in {"pins", "migrate", "remove", "publish"} => s.op = "open"
  /\ s.pc = "body" => s.op # "open"
  /\ s.pc \in {"bind"} \cup RKIssuing => s.op = "run"
  /\ s.pc \in {"link", "unlink"} => s.op \in {"run", "attempt"}
  /\ s.pc = "retire" => s.op = "close"
  /\ s.op # "open" => rkRoot = "ready"
  /\ s.pc \notin {"down", "pins"} => rkMade = RKObjects
  /\ s.pc \notin {"down", "pins", "migrate", "remove"} => "root" \notin rkCopies
  /\ s.op \in {"run", "attempt"} => s.by \in RKProcs
  /\ s.op \in {"read attempt", "attempt", "own", "close"} => rkFile[s.run]["run.json"].at = "whole"
  /\ s.gen > 0 <=> s.op = "close"
  /\ s.op = "close" => rkLease[s.run] = [gen |-> s.gen, state |-> IF s.pc = "retire" THEN "CLOSING" ELSE "ACTIVE"]

\* What the holder of the lock has made of the disk so far.
RKPhase(p) ==
  LET s == rkProc[p] IN
  /\ s.pc \in {"publish", "body", "link", "unlink", "retire"} => rkAuth.state = "ESTABLISHED" /\ rkStage = NoRKStage
  /\ s.pc = "bind" => rkAuth.state = "ESTABLISHED" /\ rkStage = RKStageMade /\ s.run \notin rkDirs
  /\ s.pc \in RKIssuing => rkAuth.run = s.run
  /\ s.pc = "attempts" => rkAuth.state = "PREPARED_RUN" /\ rkStage = RKStageMade
  /\ s.pc = "identity" => rkAuth.state = "PREPARED_RUN" /\ rkStage \in {[RKStageWhole EXCEPT !.identity = i] : i \in {"none", "part"}}
  /\ s.pc = "full" => rkAuth.state = "PREPARED_RUN" /\ rkStage = RKStageWhole
  /\ s.pc = "rename" => rkAuth.state = "PREPARED_FULL" /\ rkStage = RKStageWhole /\ rkTail = "none"
  /\ s.pc = "history" => rkAuth.state = "PREPARED_FULL" /\ rkStage = NoRKStage /\ rkTail # "whole"
  /\ s.pc = "checkpoint" => rkAuth.state = "PREPARED_FULL" /\ rkStage = NoRKStage /\ rkTail = "whole"
  /\ s.pc = "link" => rkFile[s.run][RKFileOf(p)].at = "temp" /\ s.run \in rkDirs
  /\ s.pc = "unlink" => rkFile[s.run][RKFileOf(p)].at = "linked" /\ s.run \in rkDirs

\* The records, in the order a registration writes them.
RKFilesFit ==
  \A r \in RKRuns :
    /\ \A n \in RKFileNames : rkFile[r][n].at # "none" => rkFile[r][n].by \in RKProcs
    /\ rkFile[r]["attempt"].at # "none" => rkFile[r]["run.json"].at = "whole"
    /\ rkLease[r].gen > 0 => rkFile[r]["attempt"].at = "whole"

\* While nobody died, an issuance and a run without its record have their process.
RKListFits ==
  rkDead = 0 =>
    /\ rkAuth.state \in RKPrepared => \E p \in RKProcs : rkProc[p].pc \in RKIssuing
    /\ \A r \in RKRuns : ListRunsFails(r) =>
         \E p \in RKProcs : rkProc[p].run = r /\ rkProc[p].op = "run" /\ rkProc[p].pc \in RKUnlisted

\* A lease that is not retired has its process, or a death took that.
RKOwned == {rkProc[p].run : p \in {q \in RKProcs : rkProc[q].gen > 0}}
RKLost == RKActive \ RKOwned
RKOwnersFit ==
  /\ \A p, q \in RKProcs : rkProc[p].gen > 0 /\ rkProc[q].gen > 0 /\ rkProc[p].run = rkProc[q].run => p = q
  /\ IsFiniteSet(RKActive) /\ Cardinality(RKActive) <= RKOwners
  /\ Cardinality(RKLost) <= rkDead
  /\ \A r \in RKRuns : rkLease[r].state # "RETIRED" => rkLease[r].gen > 0

\* The inductive invariant of the catalog.
RKInv ==
  /\ RKTypeOK /\ RKLocksFit /\ RKDiskFits /\ RKFilesFit /\ RKRegisteredOnce /\ RKListFits /\ RKOwnersFit
  /\ \A p \in RKProcs : RKWay(p) /\ RKPhase(p)

\* What a step of p leaves to the others.
RKMonotone(p) ==
  /\ rkRoot # "none" => rkRoot' # "none"
  /\ rkRoot = "ready" => rkRoot' = "ready"
  /\ rkMade = RKObjects => rkMade' = RKObjects
  /\ "root" \notin rkCopies => "root" \notin rkCopies'
  /\ \A r \in RKRuns : rkFile[r]["run.json"].at = "whole" => rkFile'[r]["run.json"].at = "whole"
  /\ \A q \in RKProcs : q # p /\ rkProc[q].op = "close" => rkLease'[rkProc[q].run] = rkLease[rkProc[q].run]
RKMovesTo(p, w) == rkProc' = [rkProc EXCEPT ![p] = w]

-----------------------------------------------------------------------------
(* The catalog's processes and locks. *)

\* The parameters are numbers.
LEMMA RKBounds ==
  /\ RKOwners \in Nat /\ RKObjects \in Nat \ {0} /\ RKCrashes \in Nat /\ RKGens \in Nat
  /\ NoRKRun \notin RKRuns /\ NoRKProc \notin RKProcs
BY RKAssumption

\* One process moves.
LEMMA RKMoved ==
  ASSUME RKTypeOK, NEW p \in RKProcs, NEW w \in RKProcess, RKMovesTo(p, w)
  PROVE  rkProc' \in [RKProcs -> RKProcess] /\ rkProc'[p] = w /\ \A q \in RKProcs : q # p => rkProc'[q] = rkProc[q]
BY DEF RKTypeOK, RKMovesTo, RKProcess

\* The record of a process.
LEMMA RKProcTyped ==
  ASSUME RKTypeOK, NEW p \in RKProcs
  PROVE  rkProc[p] \in RKProcess
BY DEF RKTypeOK, RKProcess

\* A process goes to another place.
LEMMA RKGone ==
  ASSUME RKTypeOK, NEW p \in RKProcs, NEW pc \in RKPC, RKGo(p, pc)
  PROVE  \E w \in RKProcess : /\ RKMovesTo(p, w) /\ w.pc = pc /\ w.op = rkProc[p].op /\ w.run = rkProc[p].run
                              /\ w.by = rkProc[p].by /\ w.gen = rkProc[p].gen
<1> DEFINE w == [rkProc[p] EXCEPT !.pc = pc]
<1>1. rkProc[p] \in RKProcess
  BY RKProcTyped
<1>2. /\ w \in RKProcess /\ w.pc = pc /\ w.op = rkProc[p].op /\ w.run = rkProc[p].run
      /\ w.by = rkProc[p].by /\ w.gen = rkProc[p].gen
  BY <1>1 DEF RKProcess
<1>3. RKMovesTo(p, w)
  BY DEF RKGo, RKMovesTo
<1> QED BY <1>2, <1>3

\* A process ends.
LEMMA RKDownTyped ==
  /\ RKDown \in RKProcess /\ RKDown.pc = "down" /\ RKDown.op = "open" /\ RKDown.run = NoRKRun
  /\ RKDown.by = NoRKProc /\ RKDown.gen = 0
BY RKBounds DEF RKDown, RKProcess, RKPC, RKOp

\* One process holds the lock.
LEMMA RKHolder ==
  ASSUME RKInv, NEW p \in RKProcs, rkProc[p].pc \in RKHeld
  PROVE  /\ rkFlock["catalog"] = p
         /\ \A q \in RKProcs : q # p => rkProc[q].pc \notin RKHeld
BY DEF RKInv, RKLocksFit

\* While nobody died, what is issued and what is not listed is the holder's.
LEMMA RKHolderIssues ==
  ASSUME RKInv, NEW p \in RKProcs, rkProc[p].pc \in RKHeld, rkDead = 0
  PROVE  /\ rkAuth.state \in RKPrepared => rkProc[p].pc \in RKIssuing
         /\ \A r \in RKRuns : ListRunsFails(r) => rkProc[p].run = r /\ rkProc[p].op = "run" /\ rkProc[p].pc \in RKUnlisted
<1>1. RKIssuing \subseteq RKHeld /\ RKUnlisted \subseteq RKHeld
  BY DEF RKIssuing, RKUnlisted, RKHeld
<1>2. \A q \in RKProcs : q # p => rkProc[q].pc \notin RKHeld
  BY RKHolder
<1> QED BY <1>1, <1>2 DEF RKInv, RKListFits

\* Flocks that stay as they are.
LEMMA RKLocksStay ==
  ASSUME RKInv, NEW p \in RKProcs, NEW w \in RKProcess, RKMovesTo(p, w), UNCHANGED rkFlock,
         w.pc \in RKHeld <=> rkProc[p].pc \in RKHeld,
         (w.pc # "down" /\ w.op = "open") <=> (rkProc[p].pc # "down" /\ rkProc[p].op = "open")
  PROVE  RKLocksFit'
<1>1. RKTypeOK /\ RKLocksFit
  BY DEF RKInv
<1>2. rkProc'[p] = w /\ \A q \in RKProcs : q # p => rkProc'[q] = rkProc[q]
  BY <1>1, RKMoved
<1> QED BY <1>1, <1>2 DEF RKLocksFit

\* The catalog's lock is taken or given back.
LEMMA RKLockMoves ==
  ASSUME RKInv, NEW p \in RKProcs, NEW w \in RKProcess, RKMovesTo(p, w),
         (w.pc # "down" /\ w.op = "open") <=> (rkProc[p].pc # "down" /\ rkProc[p].op = "open"),
         \/ rkFlock["catalog"] = NoRKProc /\ rkFlock' = [rkFlock EXCEPT !["catalog"] = p] /\ w.pc \in RKHeld
         \/ rkProc[p].pc \in RKHeld /\ rkFlock' = [rkFlock EXCEPT !["catalog"] = NoRKProc] /\ w.pc \notin RKHeld
  PROVE  RKLocksFit' /\ rkFlock' \in [{"root", "catalog"} -> RKProcs \cup {NoRKProc}]
<1>1. RKTypeOK /\ RKLocksFit
  BY DEF RKInv
<1>2. rkProc'[p] = w /\ \A q \in RKProcs : q # p => rkProc'[q] = rkProc[q]
  BY <1>1, RKMoved
<1>3. rkFlock \in [{"root", "catalog"} -> RKProcs \cup {NoRKProc}]
  BY <1>1 DEF RKTypeOK
<1>4. rkFlock' \in [{"root", "catalog"} -> RKProcs \cup {NoRKProc}] /\ rkFlock'["root"] = rkFlock["root"]
  BY <1>3
<1>5. \A q \in RKProcs : rkProc'[q].pc \in RKHeld <=> rkFlock'["catalog"] = q
  <2>1. CASE rkFlock["catalog"] = NoRKProc /\ rkFlock' = [rkFlock EXCEPT !["catalog"] = p] /\ w.pc \in RKHeld
    BY <1>1, <1>2, <1>3, <2>1, RKBounds DEF RKLocksFit
  <2>2. CASE rkProc[p].pc \in RKHeld /\ rkFlock' = [rkFlock EXCEPT !["catalog"] = NoRKProc] /\ w.pc \notin RKHeld
    BY <1>1, <1>2, <1>3, <2>2, RKBounds DEF RKLocksFit
  <2> QED BY <2>1, <2>2
<1>6. \A q \in RKProcs : (rkProc'[q].pc # "down" /\ rkProc'[q].op = "open") <=> rkFlock'["root"] = q
  BY <1>1, <1>2, <1>4 DEF RKLocksFit
<1> QED BY <1>4, <1>5, <1>6 DEF RKLocksFit

\* A process drops what it holds.
LEMMA RKLocksDrop ==
  ASSUME RKInv, NEW p \in RKProcs, NEW w \in RKProcess, RKMovesTo(p, w), rkFlock' = RKDrop(p),
         w.pc \notin RKHeld, ~(w.pc # "down" /\ w.op = "open")
  PROVE  RKLocksFit' /\ rkFlock' \in [{"root", "catalog"} -> RKProcs \cup {NoRKProc}]
<1>1. RKTypeOK /\ RKLocksFit
  BY DEF RKInv
<1>2. rkProc'[p] = w /\ \A q \in RKProcs : q # p => rkProc'[q] = rkProc[q]
  BY <1>1, RKMoved
<1>3. rkFlock \in [{"root", "catalog"} -> RKProcs \cup {NoRKProc}]
  BY <1>1 DEF RKTypeOK
<1>4. /\ rkFlock' \in [{"root", "catalog"} -> RKProcs \cup {NoRKProc}]
      /\ \A f \in {"root", "catalog"} : rkFlock'[f] = IF rkFlock[f] = p THEN NoRKProc ELSE rkFlock[f]
  BY <1>3 DEF RKDrop
<1>5. \A f \in {"root", "catalog"}, q \in RKProcs : rkFlock'[f] = q <=> (q # p /\ rkFlock[f] = q)
  BY <1>4, RKBounds
<1> QED BY <1>1, <1>2, <1>4, <1>5 DEF RKLocksFit

\* A step of p leaves the others where they were.
LEMMA RKOthersKeep ==
  ASSUME RKInv, NEW p \in RKProcs, NEW w \in RKProcess, RKMovesTo(p, w), RKMonotone(p),
         rkProc[p].pc \in RKHeld \/ UNCHANGED <<rkAuth, rkStage, rkDirs, rkTail, rkFile>>,
         NEW q \in RKProcs, q # p
  PROVE  RKWay(q)' /\ RKPhase(q)'
<1>1. RKTypeOK /\ RKWay(q) /\ RKPhase(q)
  BY DEF RKInv
<1>2. rkProc'[q] = rkProc[q]
  BY <1>1, RKMoved
<1>3. RKWay(q)'
  <2>1. (rkProc[q].op \in {"read attempt", "attempt", "own", "close"} => rkFile'[rkProc[q].run]["run.json"].at = "whole")
    <3>1. rkProc[q].op # "open" => rkProc[q].pc # "down"
      BY <1>1, RKDownTyped DEF RKWay
    <3>2. rkProc[q].op # "open" => rkProc[q].run \in RKRuns
      BY <1>1, <3>1 DEF RKWay
    <3> QED BY <1>1, <3>2 DEF RKWay, RKMonotone
  <2>2. rkProc[q].op = "close" => rkLease'[rkProc[q].run] = rkLease[rkProc[q].run]
    BY DEF RKMonotone
  <2> QED BY <1>1, <1>2, <2>1, <2>2 DEF RKWay, RKMonotone
<1>4. RKPhase(q)'
  <2>1. CASE rkProc[p].pc \in RKHeld
    <3>1. rkProc[q].pc \notin RKHeld
      BY <2>1, RKHolder
    <3> QED BY <1>2, <3>1 DEF RKPhase, RKHeld, RKIssuing
  <2>2. CASE UNCHANGED <<rkAuth, rkStage, rkDirs, rkTail, rkFile>>
    BY <1>1, <1>2, <2>2 DEF RKPhase, RKFileOf
  <2> QED BY <2>1, <2>2
<1> QED BY <1>3, <1>4

\* A process stays where it is.
LEMMA RKStands ==
  ASSUME RKTypeOK, NEW p \in RKProcs, UNCHANGED rkProc
  PROVE  RKMovesTo(p, rkProc[p]) /\ rkProc[p] \in RKProcess
<1>1. rkProc \in [RKProcs -> RKProcess]
  BY DEF RKTypeOK, RKProcess
<1>2. [rkProc EXCEPT ![p] = rkProc[p]] = rkProc
  BY <1>1
<1> QED BY <1>1, <1>2 DEF RKMovesTo

\* The parts of the invariant, put together again.
LEMMA RKTogether ==
  ASSUME RKInv, NEW p \in RKProcs, NEW w \in RKProcess, RKMovesTo(p, w), RKMonotone(p),
         rkProc[p].pc \in RKHeld \/ UNCHANGED <<rkAuth, rkStage, rkDirs, rkTail, rkFile>>,
         RKTypeOK', RKLocksFit', RKDiskFits', RKFilesFit', RKRegisteredOnce', RKListFits', RKOwnersFit',
         RKWay(p)', RKPhase(p)'
  PROVE  RKInv'
<1>1. \A q \in RKProcs : q # p => RKWay(q)' /\ RKPhase(q)'
  BY RKOthersKeep
<1> QED BY <1>1 DEF RKInv

\* The owners of a step that touches no lease.
LEMMA RKOwnersStay ==
  ASSUME RKInv, NEW p \in RKProcs, NEW w \in RKProcess, RKMovesTo(p, w), UNCHANGED <<rkLease, rkDead>>,
         w.gen = rkProc[p].gen, w.gen > 0 => w.run = rkProc[p].run
  PROVE  RKOwnersFit'
<1>1. RKTypeOK /\ RKOwnersFit
  BY DEF RKInv
<1>2. rkProc'[p] = w /\ \A q \in RKProcs : q # p => rkProc'[q] = rkProc[q]
  BY <1>1, RKMoved
<1>3. \A q \in RKProcs : rkProc'[q].gen = rkProc[q].gen /\ (rkProc[q].gen > 0 => rkProc'[q].run = rkProc[q].run)
  BY <1>2
<1>4. RKOwned' = RKOwned
  BY <1>3 DEF RKOwned
<1>5. RKActive' = RKActive
  BY DEF RKActive
<1>6. RKLost' = RKLost
  BY <1>4, <1>5 DEF RKLost
<1> QED BY <1>1, <1>3, <1>5, <1>6 DEF RKOwnersFit

\* The list, when the step is of the holder of the lock.
LEMMA RKListMoves ==
  ASSUME RKInv, NEW p \in RKProcs, NEW w \in RKProcess, RKMovesTo(p, w), UNCHANGED rkDead,
         rkDead = 0 => /\ rkAuth'.state \in RKPrepared => w.pc \in RKIssuing
                       /\ \A r \in RKRuns : ListRunsFails(r)' => w.run = r /\ w.op = "run" /\ w.pc \in RKUnlisted
  PROVE  RKListFits'
<1>1. rkProc'[p] = w
  BY RKMoved DEF RKInv
<1> QED BY <1>1 DEF RKListFits

\* The list, when it and the authority stay as they are.
LEMMA RKListStays ==
  ASSUME RKInv, NEW p \in RKProcs, NEW w \in RKProcess, RKMovesTo(p, w), UNCHANGED <<rkDead, rkAuth, rkDirs, rkFile>>,
         rkProc[p].pc \notin RKIssuing,
         rkProc[p].pc \in RKUnlisted /\ rkProc[p].op = "run" => ~ListRunsFails(rkProc[p].run)
  PROVE  RKListFits'
<1>1. rkProc'[p] = w /\ \A q \in RKProcs : q # p => rkProc'[q] = rkProc[q]
  BY RKMoved DEF RKInv
<1>2. \A r \in RKRuns : ListRunsFails(r)' <=> ListRunsFails(r)
  BY DEF ListRunsFails
<1> QED BY <1>1, <1>2 DEF RKListFits, RKInv

\* Where the reconciliation and the issuance of a namespace are.
RKIssuer == {"reconcile", "body", "bind"} \cup RKIssuing

\* A step of the holder that changes names only.
LEMMA RKNamesStep ==
  ASSUME RKInv, NEW p \in RKProcs, NEW w \in RKProcess, RKMovesTo(p, w),
         rkProc[p].pc \in RKIssuer, w.pc \in RKIssuer, w.op = rkProc[p].op, w.run = rkProc[p].run,
         w.by = rkProc[p].by, w.gen = rkProc[p].gen, w.pc # "reconcile" => w.op = "run",
         UNCHANGED <<rkRoot, rkMade, rkFile, rkLease, rkAcked, rkFlock, rkDead>>,
         rkCopies' \subseteq {"root", "runs"}, "root" \in rkCopies' => "root" \in rkCopies,
         rkDirs \subseteq rkDirs', rkAuth' \in RKAuthority, rkStage' \in RKStages, rkDirs' \subseteq RKRuns,
         rkHistory' \in Seq(RKRuns), rkTail' \in {"none", "part", "whole"},
         RKDiskFits', RKPhase(p)',
         rkDead = 0 => /\ rkAuth'.state \in RKPrepared => w.pc \in RKIssuing
                       /\ \A r \in RKRuns : ListRunsFails(r)' => w.run = r /\ w.op = "run" /\ w.pc \in RKUnlisted
  PROVE  RKInv'
<1>1. RKTypeOK /\ RKWay(p)
  BY DEF RKInv
<1>2. rkProc' \in [RKProcs -> RKProcess] /\ rkProc'[p] = w
  BY <1>1, RKMoved
<1>3. rkProc[p].pc \in RKHeld /\ w.pc \in RKHeld
  BY DEF RKIssuer, RKIssuing, RKHeld
<1>4. RKMonotone(p)
  BY DEF RKMonotone
<1>5. RKTypeOK'
  BY <1>1, <1>2 DEF RKTypeOK, RKProcess, RKAuthority, RKStages
<1>6. RKLocksFit'
  <2>1. w.pc # "down" /\ rkProc[p].pc # "down"
    BY <1>3 DEF RKHeld
  <2> QED BY <1>3, <2>1, RKLocksStay
<1>7. RKFilesFit'
  BY DEF RKInv, RKFilesFit
<1>8. RKRegisteredOnce'
  BY DEF RKInv, RKRegisteredOnce
<1>9. RKListFits'
  BY RKListMoves
<1>10. RKOwnersFit'
  BY RKOwnersStay
<1>11. RKWay(p)'
  <2>1. /\ w.pc \notin {"down", "pins", "migrate", "remove", "publish", "link", "unlink", "retire"}
        /\ rkProc[p].pc \notin {"down", "pins", "migrate", "remove", "publish", "link", "unlink", "retire"}
    BY DEF RKIssuer, RKIssuing
  <2>2. w.pc \in {"body", "bind"} \cup RKIssuing => w.op = "run"
    BY DEF RKIssuing
  <2> QED BY <1>1, <1>2, <2>1, <2>2 DEF RKWay
<1> QED BY <1>3, <1>4, <1>5, <1>6, <1>7, <1>8, <1>9, <1>10, <1>11, RKTogether

-----------------------------------------------------------------------------
(* The reconciliation and the issuance of a namespace. *)

\* While nobody died there is nothing to reconcile.
LEMMA RKNothingLeft ==
  ASSUME RKInv, NEW p \in RKProcs, rkProc[p].pc = "reconcile", rkDead = 0
  PROVE  rkAuth.state \notin RKPrepared /\ \A r \in RKRuns : ~ListRunsFails(r)
<1>1. "reconcile" \in RKHeld /\ "reconcile" \notin RKIssuing /\ "reconcile" \notin RKUnlisted
  BY DEF RKHeld, RKIssuing, RKUnlisted
<1> QED BY <1>1, RKHolderIssues

\* A step of the reconciliation.
LEMMA RKReconciles ==
  ASSUME RKInv, NEW p \in RKProcs, rkProc[p].pc = "reconcile",
         UNCHANGED <<rkRoot, rkMade, rkFile, rkLease, rkAcked, rkFlock, rkProc, rkDead>>,
         rkCopies' \subseteq {"root", "runs"}, "root" \in rkCopies' => "root" \in rkCopies,
         rkDirs \subseteq rkDirs', rkAuth' \in RKAuthority, rkStage' \in RKStages, rkDirs' \subseteq RKRuns,
         rkHistory' \in Seq(RKRuns), rkTail' \in {"none", "part", "whole"},
         rkAuth.state \notin RKPrepared => UNCHANGED rkDirs /\ rkAuth'.state \notin RKPrepared,
         RKDiskFits'
  PROVE  RKInv'
<1>1. RKMovesTo(p, rkProc[p]) /\ rkProc[p] \in RKProcess
  BY RKStands DEF RKInv
<1>2. rkProc[p].pc \in RKIssuer
  BY DEF RKIssuer
<1>3. RKPhase(p)'
  BY DEF RKPhase, RKIssuing
<1>4. rkDead = 0 => rkAuth'.state \notin RKPrepared /\ \A r \in RKRuns : ~ListRunsFails(r)'
  BY RKNothingLeft DEF ListRunsFails
<1> QED BY <1>1, <1>2, <1>3, <1>4, RKNamesStep

\* bootstrapCatalogRunAuthority keeps the invariant.
LEMMA RKBootstrapKeeps ==
  ASSUME RKInv, NEW p \in RKProcs, bootstrapCatalogRunAuthority(p)
  PROVE  RKInv'
<1>1. /\ rkProc[p].pc = "reconcile" /\ rkAuth.state = "none" /\ rkRoot = "init"
      /\ rkAuth' = [state |-> "ESTABLISHED", run |-> NoRKRun] /\ rkCopies' = {"runs"}
      /\ UNCHANGED <<rkRoot, rkMade, rkStage, rkDirs, rkHistory, rkTail, rkFile, rkLease, rkAcked, rkFlock, rkProc, rkDead>>
  BY DEF bootstrapCatalogRunAuthority, RKAt
<1>2. RKTypeOK /\ RKDiskFits
  BY DEF RKInv
<1>3. /\ rkStage \in RKStages /\ rkDirs \subseteq RKRuns /\ rkHistory \in Seq(RKRuns) /\ rkTail \in {"none", "part", "whole"}
      /\ rkAuth \in RKAuthority
  BY <1>2 DEF RKTypeOK, RKAuthority, RKStages
<1>4. rkAuth' \in RKAuthority /\ rkAuth'.state = "ESTABLISHED" /\ rkAuth'.run = NoRKRun /\ "ESTABLISHED" \notin RKPrepared
  BY <1>1 DEF RKAuthority, RKPrepared
<1>5. RKNamed' = RKNamed
  BY <1>1 DEF RKNamed
<1>6. RKDiskFits'
  <2>1. ~RKIntegrity'
    BY <1>1, <1>2, <1>3, <1>4 DEF RKDiskFits, RKIntegrity, NoRKStage
  <2>2. "none" \notin RKPrepared
    BY DEF RKPrepared
  <2> QED BY <1>1, <1>2, <1>4, <1>5, <2>1, <2>2 DEF RKDiskFits
<1> QED BY <1>1, <1>3, <1>4, <1>6, RKReconciles

\* removeUnboundRunNamespaceStage keeps the invariant.
LEMMA RKRemoveKeeps ==
  ASSUME RKInv, NEW p \in RKProcs, removeUnboundRunNamespaceStage(p)
  PROVE  RKInv'
<1>1. /\ rkProc[p].pc = "reconcile" /\ rkAuth.state = "ESTABLISHED" /\ rkStage' = NoRKStage
      /\ UNCHANGED <<rkRoot, rkMade, rkCopies, rkAuth, rkDirs, rkHistory, rkTail, rkFile, rkLease, rkAcked, rkFlock, rkProc, rkDead>>
  BY DEF removeUnboundRunNamespaceStage, RKAt
<1>2. RKTypeOK /\ RKDiskFits
  BY DEF RKInv
<1>3. /\ rkCopies \subseteq {"root", "runs"} /\ rkDirs \subseteq RKRuns /\ rkHistory \in Seq(RKRuns)
      /\ rkTail \in {"none", "part", "whole"} /\ rkAuth \in RKAuthority
  BY <1>2 DEF RKTypeOK, RKAuthority
<1>4. /\ rkStage' \in RKStages /\ rkStage'.made = FALSE /\ rkStage'.attempts = FALSE /\ rkStage'.identity = "none"
      /\ "ESTABLISHED" \notin RKPrepared
  BY <1>1 DEF RKStages, NoRKStage, RKPrepared
<1>5. RKNamed' = RKNamed
  BY <1>1 DEF RKNamed
<1>6. RKDiskFits'
  <2>1. ~RKIntegrity'
    BY <1>1, <1>2, <1>4 DEF RKDiskFits, RKIntegrity
  <2> QED BY <1>1, <1>2, <1>4, <1>5, <2>1 DEF RKDiskFits
<1> QED BY <1>1, <1>3, <1>4, <1>6, RKReconciles

\* rollbackPreparedRunNamespace keeps the invariant.
LEMMA RKRollbackKeeps ==
  ASSUME RKInv, NEW p \in RKProcs, rollbackPreparedRunNamespace(p)
  PROVE  RKInv'
<1>1. /\ rkProc[p].pc = "reconcile" /\ rkAuth.state = "PREPARED_RUN"
      /\ \/ rkStage' \in cleanupPartiallyPreparedRunNamespace(rkStage) /\ UNCHANGED rkAuth
         \/ rkStage = [NoRKStage EXCEPT !.made = TRUE] /\ rkStage' = NoRKStage /\ UNCHANGED rkAuth
         \/ ~rkStage.made /\ rkAuth' = [state |-> "ESTABLISHED", run |-> NoRKRun] /\ UNCHANGED rkStage
      /\ UNCHANGED <<rkRoot, rkMade, rkCopies, rkDirs, rkHistory, rkTail, rkFile, rkLease, rkAcked, rkFlock, rkProc, rkDead>>
  BY DEF rollbackPreparedRunNamespace, RKAt
<1>2. RKTypeOK /\ RKDiskFits
  BY DEF RKInv
<1>3. /\ rkCopies \subseteq {"root", "runs"} /\ rkDirs \subseteq RKRuns /\ rkHistory \in Seq(RKRuns)
      /\ rkTail \in {"none", "part", "whole"} /\ rkAuth \in RKAuthority /\ rkStage \in RKStages
  BY <1>2 DEF RKTypeOK, RKAuthority, RKStages
<1>4. rkTail = "none" /\ rkAuth.run \notin rkDirs /\ rkStage.made \in BOOLEAN
  <2>1. rkStage.made \in BOOLEAN
    BY <1>3 DEF RKStages
  <2> QED BY <1>1, <1>2, <2>1 DEF RKDiskFits, RKIntegrity
<1>5. RKNamed' = RKNamed /\ "PREPARED_RUN" \in RKPrepared /\ "ESTABLISHED" \notin RKPrepared
  BY <1>1 DEF RKNamed, RKPrepared
<1>6. CASE ~rkStage.made /\ rkAuth' = [state |-> "ESTABLISHED", run |-> NoRKRun] /\ UNCHANGED rkStage
  <2>1. rkStage = NoRKStage /\ rkStage.attempts = FALSE /\ rkStage.identity = "none" /\ rkStage.made = FALSE
    BY <1>2, <1>6 DEF RKDiskFits, NoRKStage
  <2>2. rkAuth' \in RKAuthority /\ rkAuth'.state = "ESTABLISHED" /\ rkAuth'.run = NoRKRun
    BY <1>6 DEF RKAuthority
  <2>3. ~RKIntegrity'
    BY <1>1, <1>4, <1>6, <2>1, <2>2 DEF RKIntegrity
  <2>4. rkDirs \subseteq RKNamed
    BY <1>2, <1>4 DEF RKDiskFits
  <2>5. RKDiskFits'
    BY <1>1, <1>2, <1>4, <1>5, <1>6, <2>1, <2>2, <2>3, <2>4 DEF RKDiskFits
  <2> QED BY <1>1, <1>3, <1>5, <1>6, <2>2, <2>5, RKReconciles
<1>7. CASE UNCHANGED rkAuth /\ rkStage' \in RKStages /\ (~rkStage'.made => rkStage' = NoRKStage)
  <2>1. ~RKIntegrity'
    BY <1>1, <1>4, <1>7 DEF RKIntegrity
  <2>2. RKDiskFits'
    BY <1>1, <1>2, <1>4, <1>5, <1>7, <2>1 DEF RKDiskFits
  <2> QED BY <1>1, <1>3, <1>5, <1>7, <2>2, RKReconciles
<1>8. rkStage' \in cleanupPartiallyPreparedRunNamespace(rkStage) => rkStage' \in RKStages /\ (~rkStage'.made => rkStage' = NoRKStage)
  <2> SUFFICES ASSUME rkStage' \in cleanupPartiallyPreparedRunNamespace(rkStage)
               PROVE  rkStage' \in RKStages /\ (~rkStage'.made => rkStage' = NoRKStage)
    OBVIOUS
  <2>1. \/ rkStage' = [rkStage EXCEPT !.identity = "none"] /\ rkStage' # rkStage
        \/ rkStage' = [rkStage EXCEPT !.attempts = FALSE] /\ rkStage' # rkStage
    BY DEF cleanupPartiallyPreparedRunNamespace
  <2>2. rkStage' \in RKStages /\ rkStage'.made = rkStage.made
    BY <1>3, <2>1 DEF RKStages
  <2>3. ~rkStage.made => rkStage = NoRKStage
    BY <1>2 DEF RKDiskFits
  <2>4. ~rkStage.made => rkStage' = rkStage
    <3>1. \A s, t \in RKStages : s.made = t.made /\ s.attempts = t.attempts /\ s.identity = t.identity => s = t
      BY DEF RKStages
    <3>2. rkStage = NoRKStage => rkStage.attempts = FALSE /\ rkStage.identity = "none"
      BY DEF NoRKStage
    <3>3. rkStage = NoRKStage => rkStage'.attempts = rkStage.attempts /\ rkStage'.identity = rkStage.identity
      BY <1>3, <2>1, <3>2 DEF RKStages
    <3> QED BY <1>3, <2>2, <2>3, <3>1, <3>3
  <2> QED BY <2>2, <2>3, <2>4
<1>9. NoRKStage \in RKStages
  BY DEF NoRKStage, RKStages
<1> QED BY <1>1, <1>6, <1>7, <1>8, <1>9

\* What is appended to the history.
LEMMA RKAppended ==
  ASSUME RKInv, NEW r \in RKRuns, rkHistory' = Append(rkHistory, r), r \notin RKNamed
  PROVE  /\ rkHistory' \in Seq(RKRuns) /\ rkHistory' # <<>> /\ RKNamed' = RKNamed \cup {r}
         /\ IsFiniteSet(RKNamed') /\ Cardinality(RKNamed') = Len(rkHistory')
<1>1. rkHistory \in Seq(RKRuns)
  BY DEF RKInv, RKTypeOK
<1>2. IsFiniteSet(RKNamed) /\ Cardinality(RKNamed) = Len(rkHistory)
  BY DEF RKInv, RKDiskFits
<1>3. /\ rkHistory' \in Seq(RKRuns) /\ Len(rkHistory') = Len(rkHistory) + 1 /\ Len(rkHistory) \in Nat
      /\ \A i \in 1..Len(rkHistory) : rkHistory'[i] = rkHistory[i]
      /\ rkHistory'[Len(rkHistory) + 1] = r
  BY <1>1
<1>4. rkHistory' # <<>>
  BY <1>3
<1>5. RKNamed' = RKNamed \cup {r}
  <2>1. RKNamed' = {rkHistory'[i] : i \in 1..Len(rkHistory')}
    BY DEF RKNamed
  <2>2. \A i \in 1..Len(rkHistory') : rkHistory'[i] \in RKNamed \cup {r}
    BY <1>3 DEF RKNamed
  <2>3. \A i \in 1..Len(rkHistory) : i \in 1..Len(rkHistory')
    BY <1>3
  <2>4. RKNamed \subseteq RKNamed'
    BY <1>3, <2>1, <2>3 DEF RKNamed
  <2>5. Len(rkHistory) + 1 \in 1..Len(rkHistory')
    BY <1>3
  <2>6. r \in RKNamed'
    BY <1>3, <2>1, <2>5
  <2> QED BY <2>1, <2>2, <2>4, <2>6
<1>6. IsFiniteSet(RKNamed \cup {r}) /\ Cardinality(RKNamed \cup {r}) = Cardinality(RKNamed) + 1
  BY <1>2, FS_AddElement
<1> QED BY <1>2, <1>3, <1>4, <1>5, <1>6

\* completePreparedRunNamespace keeps the invariant.
LEMMA RKCompleteKeeps ==
  ASSUME RKInv, NEW p \in RKProcs, completePreparedRunNamespace(p)
  PROVE  RKInv'
<1>1. /\ rkProc[p].pc = "reconcile" /\ rkAuth.state = "PREPARED_FULL"
      /\ \/ rkStage.made /\ rkStage' = NoRKStage /\ rkDirs' = rkDirs \cup {rkAuth.run} /\ UNCHANGED <<rkTail, rkHistory, rkAuth>>
         \/ /\ rkAuth.run \in rkDirs /\ rkTail' \in {"part", "whole"}
            /\ UNCHANGED <<rkStage, rkDirs, rkHistory, rkAuth>>
         \/ /\ rkAuth.run \in rkDirs /\ rkTail' = "none" /\ rkHistory' = Append(rkHistory, rkAuth.run)
            /\ rkAuth' = [state |-> "ESTABLISHED", run |-> NoRKRun] /\ UNCHANGED <<rkStage, rkDirs>>
      /\ UNCHANGED <<rkRoot, rkMade, rkCopies, rkFile, rkLease, rkAcked, rkFlock, rkProc, rkDead>>
  BY DEF completePreparedRunNamespace, RKAt
<1>2. RKTypeOK /\ RKDiskFits
  BY DEF RKInv
<1>3. /\ rkCopies \subseteq {"root", "runs"} /\ rkDirs \subseteq RKRuns /\ rkHistory \in Seq(RKRuns)
      /\ rkTail \in {"none", "part", "whole"} /\ rkAuth \in RKAuthority /\ rkStage \in RKStages
  BY <1>2 DEF RKTypeOK, RKAuthority, RKStages
<1>4. "PREPARED_FULL" \in RKPrepared /\ "ESTABLISHED" \notin RKPrepared
  BY DEF RKPrepared
<1>5. rkAuth.run \in RKRuns /\ rkAuth.run \notin RKNamed /\ "root" \notin rkCopies
  BY <1>1, <1>2, <1>4 DEF RKDiskFits
<1>6. NoRKStage \in RKStages /\ NoRKStage.made = FALSE /\ NoRKStage.attempts = FALSE /\ NoRKStage.identity = "none"
  BY DEF NoRKStage, RKStages
<1>7. rkStage.made \in BOOLEAN
  BY <1>3 DEF RKStages
<1>8. rkAuth.run \in rkDirs => rkStage = NoRKStage
  BY <1>1, <1>2, <1>7 DEF RKDiskFits, RKIntegrity
<1>9. CASE rkStage.made /\ rkStage' = NoRKStage /\ rkDirs' = rkDirs \cup {rkAuth.run} /\ UNCHANGED <<rkTail, rkHistory, rkAuth>>
  <2>1. RKNamed' = RKNamed
    BY <1>9 DEF RKNamed
  <2>2. ~RKIntegrity'
    BY <1>1, <1>6, <1>9 DEF RKIntegrity
  <2>3. RKDiskFits'
    BY <1>1, <1>2, <1>4, <1>5, <1>9, <2>1, <2>2 DEF RKDiskFits
  <2> QED BY <1>1, <1>3, <1>4, <1>5, <1>6, <1>9, <2>3, RKReconciles
<1>10. CASE rkAuth.run \in rkDirs /\ rkTail' \in {"part", "whole"} /\ UNCHANGED <<rkStage, rkDirs, rkHistory, rkAuth>>
  <2>1. RKNamed' = RKNamed
    BY <1>10 DEF RKNamed
  <2>2. ~RKIntegrity'
    BY <1>1, <1>6, <1>8, <1>10 DEF RKIntegrity
  <2>3. RKDiskFits'
    BY <1>1, <1>2, <1>4, <1>5, <1>10, <2>1, <2>2 DEF RKDiskFits
  <2> QED BY <1>1, <1>3, <1>4, <1>10, <2>3, RKReconciles
<1>11. CASE /\ rkAuth.run \in rkDirs /\ rkTail' = "none" /\ rkHistory' = Append(rkHistory, rkAuth.run)
            /\ rkAuth' = [state |-> "ESTABLISHED", run |-> NoRKRun] /\ UNCHANGED <<rkStage, rkDirs>>
  <2>1. /\ rkHistory' \in Seq(RKRuns) /\ RKNamed' = RKNamed \cup {rkAuth.run}
        /\ IsFiniteSet(RKNamed') /\ Cardinality(RKNamed') = Len(rkHistory')
    BY <1>5, <1>11, RKAppended
  <2>2. rkAuth' \in RKAuthority /\ rkAuth'.state = "ESTABLISHED" /\ rkAuth'.run = NoRKRun
    BY <1>11 DEF RKAuthority
  <2>3. ~RKIntegrity'
    BY <1>6, <1>8, <1>11, <2>2 DEF RKIntegrity
  <2>4. RKDiskFits'
    BY <1>1, <1>2, <1>4, <1>5, <1>8, <1>11, <2>1, <2>2, <2>3 DEF RKDiskFits
  <2> QED BY <1>1, <1>3, <1>4, <1>11, <2>1, <2>2, <2>4, RKReconciles
<1> QED BY <1>1, <1>9, <1>10, <1>11

\* stageRunNamespace keeps the invariant.
LEMMA RKStageKeeps ==
  ASSUME RKInv, NEW p \in RKProcs, stageRunNamespace(p)
  PROVE  RKInv'
<1>1. /\ rkProc[p].pc = "body" /\ rkProc[p].op = "run" /\ rkProc[p].run \notin rkDirs
      /\ rkStage' = [NoRKStage EXCEPT !.made = TRUE] /\ RKGo(p, "bind")
      /\ UNCHANGED <<rkRoot, rkMade, rkCopies, rkAuth, rkDirs, rkHistory, rkTail, rkFile, rkLease, rkAcked, rkFlock, rkDead>>
  BY DEF stageRunNamespace, RKAt
<1>2. RKTypeOK /\ RKDiskFits /\ RKPhase(p)
  BY DEF RKInv
<1>3. /\ rkCopies \subseteq {"root", "runs"} /\ rkDirs \subseteq RKRuns /\ rkHistory \in Seq(RKRuns)
      /\ rkTail \in {"none", "part", "whole"} /\ rkAuth \in RKAuthority
  BY <1>2 DEF RKTypeOK, RKAuthority
<1>4. PICK w \in RKProcess : /\ RKMovesTo(p, w) /\ w.pc = "bind" /\ w.op = rkProc[p].op /\ w.run = rkProc[p].run
                             /\ w.by = rkProc[p].by /\ w.gen = rkProc[p].gen
  BY <1>1, <1>2, RKGone DEF RKPC
<1>5. rkProc'[p] = w
  BY <1>2, <1>4, RKMoved
<1>6. rkAuth.state = "ESTABLISHED" /\ "ESTABLISHED" \notin RKPrepared
  BY <1>1, <1>2 DEF RKPhase, RKPrepared
<1>7. rkStage' = RKStageMade /\ rkStage' \in RKStages /\ rkStage'.made = TRUE /\ rkStage'.attempts = FALSE /\ rkStage'.identity = "none"
  BY <1>1 DEF NoRKStage, RKStageMade, RKStages
<1>8. RKDiskFits'
  <2>1. RKNamed' = RKNamed
    BY <1>1 DEF RKNamed
  <2>2. ~RKIntegrity'
    BY <1>1, <1>2, <1>6, <1>7 DEF RKDiskFits, RKIntegrity
  <2> QED BY <1>1, <1>2, <1>6, <1>7, <2>1, <2>2 DEF RKDiskFits
<1>9. RKPhase(p)'
  BY <1>1, <1>4, <1>5, <1>6, <1>7 DEF RKPhase, RKIssuing
<1>10. rkDead = 0 => rkAuth'.state \notin RKPrepared /\ \A r \in RKRuns : ~ListRunsFails(r)'
  <2>1. "body" \in RKHeld
    BY DEF RKHeld
  <2>2. rkDead = 0 => \A r \in RKRuns : ListRunsFails(r) => rkProc[p].run = r
    BY <1>1, <2>1, RKHolderIssues
  <2> QED BY <1>1, <1>6, <2>2 DEF ListRunsFails
<1>11. rkProc[p].pc \in RKIssuer /\ w.pc \in RKIssuer
  BY <1>1, <1>4 DEF RKIssuer
<1> QED BY <1>1, <1>3, <1>4, <1>7, <1>8, <1>9, <1>10, <1>11, RKNamesStep

\* prepareRun keeps the invariant.
LEMMA RKPrepareRunKeeps ==
  ASSUME RKInv, NEW p \in RKProcs, prepareRun(p)
  PROVE  RKInv'
<1>1. /\ rkProc[p].pc = "bind" /\ rkAuth' = [state |-> "PREPARED_RUN", run |-> rkProc[p].run] /\ RKGo(p, "attempts")
      /\ UNCHANGED <<rkRoot, rkMade, rkCopies, rkStage, rkDirs, rkHistory, rkTail, rkFile, rkLease, rkAcked, rkFlock, rkDead>>
  BY DEF prepareRun, RKAt
<1>2. RKTypeOK /\ RKDiskFits /\ RKPhase(p) /\ RKWay(p)
  BY DEF RKInv
<1>3. /\ rkCopies \subseteq {"root", "runs"} /\ rkDirs \subseteq RKRuns /\ rkHistory \in Seq(RKRuns)
      /\ rkTail \in {"none", "part", "whole"} /\ rkAuth \in RKAuthority /\ rkStage \in RKStages
  BY <1>2 DEF RKTypeOK, RKAuthority, RKStages
<1>4. PICK w \in RKProcess : /\ RKMovesTo(p, w) /\ w.pc = "attempts" /\ w.op = rkProc[p].op /\ w.run = rkProc[p].run
                             /\ w.by = rkProc[p].by /\ w.gen = rkProc[p].gen
  BY <1>1, <1>2, RKGone DEF RKPC
<1>5. rkProc'[p] = w
  BY <1>2, <1>4, RKMoved
<1>6. /\ rkAuth.state = "ESTABLISHED" /\ "ESTABLISHED" \notin RKPrepared /\ "PREPARED_RUN" \in RKPrepared
      /\ rkStage = RKStageMade /\ rkProc[p].run \notin rkDirs
  BY <1>1, <1>2 DEF RKPhase, RKPrepared
<1>7. rkProc[p].op = "run" /\ rkProc[p].run \in RKRuns /\ "root" \notin rkCopies
  BY <1>1, <1>2 DEF RKWay
<1>8. rkAuth' \in RKAuthority /\ rkAuth'.state = "PREPARED_RUN" /\ rkAuth'.run = rkProc[p].run
  BY <1>1, <1>7 DEF RKAuthority
<1>9. rkStage.made = TRUE /\ rkTail = "none" /\ rkAuth.run = NoRKRun
  BY <1>2, <1>6 DEF RKStageMade, RKDiskFits
<1>10. rkDirs \subseteq RKNamed
  BY <1>2, <1>3, <1>9, RKBounds DEF RKDiskFits
<1>11. RKDiskFits'
  <2>1. RKNamed' = RKNamed
    BY <1>1 DEF RKNamed
  <2>2. ~RKIntegrity'
    BY <1>1, <1>6, <1>8, <1>9 DEF RKIntegrity
  <2>3. rkAuth'.run \notin RKNamed
    BY <1>2, <1>6, <1>8 DEF RKDiskFits
  <2> QED BY <1>1, <1>2, <1>6, <1>7, <1>8, <1>9, <1>10, <2>1, <2>2, <2>3 DEF RKDiskFits
<1>12. RKPhase(p)'
  BY <1>1, <1>4, <1>5, <1>6, <1>8 DEF RKPhase
<1>13. rkDead = 0 => \A r \in RKRuns : ~ListRunsFails(r)'
  <2>1. "bind" \in RKHeld /\ "bind" \notin RKUnlisted
    BY DEF RKHeld, RKUnlisted
  <2>2. rkDead = 0 => \A r \in RKRuns : ~ListRunsFails(r)
    BY <1>1, <2>1, RKHolderIssues
  <2> QED BY <1>1, <2>2 DEF ListRunsFails
<1>14. rkProc[p].pc \in RKIssuer /\ w.pc \in RKIssuer /\ w.pc \in RKIssuing
  BY <1>1, <1>4 DEF RKIssuer, RKIssuing
<1> QED BY <1>1, <1>3, <1>4, <1>7, <1>8, <1>11, <1>12, <1>13, <1>14, RKNamesStep

\* A step of an issuance whose run the authority still names.
LEMMA RKIssuanceStep ==
  ASSUME RKInv, NEW p \in RKProcs, rkProc[p].pc \in RKIssuing, NEW pc \in RKIssuing, RKGo(p, pc),
         UNCHANGED <<rkRoot, rkMade, rkCopies, rkHistory, rkFile, rkLease, rkAcked, rkFlock, rkDead>>,
         rkAuth' \in RKAuthority, rkAuth'.run = rkAuth.run, rkStage' \in RKStages, rkTail' \in {"none", "part", "whole"},
         \/ UNCHANGED rkDirs /\ (pc \in RKUnlisted <=> rkProc[p].pc \in RKUnlisted)
         \/ rkDirs' = rkDirs \cup {rkProc[p].run} /\ pc \in RKUnlisted,
         rkAuth'.state \in RKPrepared,
         ~RKIntegrity', ~rkStage'.made => rkStage' = NoRKStage, rkTail' # "none" => rkAuth'.state = "PREPARED_FULL",
         \A w \in RKProcess : (w = rkProc'[p] /\ w.pc = pc /\ w.run = rkProc[p].run /\ w.op = "run") => RKPhase(p)'
  PROVE  RKInv'
<1>1. RKTypeOK /\ RKDiskFits /\ RKPhase(p) /\ RKWay(p)
  BY DEF RKInv
<1>2. /\ rkCopies \subseteq {"root", "runs"} /\ rkDirs \subseteq RKRuns /\ rkHistory \in Seq(RKRuns)
  BY <1>1 DEF RKTypeOK
<1>3. PICK w \in RKProcess : /\ RKMovesTo(p, w) /\ w.pc = pc /\ w.op = rkProc[p].op /\ w.run = rkProc[p].run
                             /\ w.by = rkProc[p].by /\ w.gen = rkProc[p].gen
  BY <1>1, RKGone DEF RKPC, RKIssuing
<1>4. rkProc'[p] = w
  BY <1>1, <1>3, RKMoved
<1>5. rkProc[p].op = "run" /\ rkProc[p].run \in RKRuns /\ rkAuth.run = rkProc[p].run /\ "root" \notin rkCopies
  BY <1>1 DEF RKWay, RKPhase, RKIssuing
<1>6. rkAuth.state \in RKPrepared
  BY <1>1 DEF RKPhase, RKIssuing, RKPrepared
<1>7. RKPhase(p)'
  BY <1>3, <1>4, <1>5
<1>8. RKNamed' = RKNamed
  BY DEF RKNamed
<1>9. rkDirs \subseteq rkDirs' /\ rkDirs' \subseteq rkDirs \cup {rkAuth.run}
  BY <1>5
<1>10. RKDiskFits'
  <2>1. "none" \notin RKPrepared
    BY DEF RKPrepared
  <2> QED BY <1>1, <1>5, <1>6, <1>8, <1>9, <2>1 DEF RKDiskFits
<1>11. rkDead = 0 => \A r \in RKRuns : ListRunsFails(r)' => w.run = r /\ w.pc \in RKUnlisted
  <2>1. rkProc[p].pc \in RKHeld
    BY DEF RKHeld, RKIssuing
  <2>2. rkDead = 0 => \A r \in RKRuns : ListRunsFails(r) => rkProc[p].run = r /\ rkProc[p].pc \in RKUnlisted
    BY <2>1, RKHolderIssues
  <2>3. \A r \in RKRuns : ListRunsFails(r)' => ListRunsFails(r) \/ (r \in rkDirs' /\ r \notin rkDirs)
    BY DEF ListRunsFails
  <2> QED BY <1>3, <2>2, <2>3
<1>12. rkProc[p].pc \in RKIssuer /\ w.pc \in RKIssuer
  BY <1>3 DEF RKIssuer
<1> QED BY <1>2, <1>3, <1>5, <1>7, <1>9, <1>10, <1>11, <1>12, RKNamesStep

\* A process that stays goes where it is.
LEMMA RKStandsGoes ==
  ASSUME RKTypeOK, NEW p \in RKProcs, UNCHANGED rkProc
  PROVE  RKGo(p, rkProc[p].pc)
<1> DEFINE w == [rkProc[p] EXCEPT !.pc = rkProc[p].pc]
<1>1. rkProc[p] \in RKProcess /\ rkProc \in [RKProcs -> RKProcess]
  BY DEF RKTypeOK, RKProcess
<1>2. \A s, t \in RKProcess : s.pc = t.pc /\ s.op = t.op /\ s.run = t.run /\ s.by = t.by /\ s.gen = t.gen => s = t
  BY DEF RKProcess
<1>3. /\ w \in RKProcess /\ w.pc = rkProc[p].pc /\ w.op = rkProc[p].op /\ w.run = rkProc[p].run
      /\ w.by = rkProc[p].by /\ w.gen = rkProc[p].gen
  BY <1>1 DEF RKProcess
<1>4. w = rkProc[p]
  <2> HIDE DEF w
  <2> QED BY <1>1, <1>2, <1>3
<1>5. [rkProc EXCEPT ![p] = rkProc[p]] = rkProc
  BY <1>1
<1>6. [rkProc EXCEPT ![p] = w] = rkProc
  <2> HIDE DEF w
  <2> QED BY <1>4, <1>5
<1> QED BY <1>6 DEF RKGo

\* makeAttempts keeps the invariant.
LEMMA RKMakeAttemptsKeeps ==
  ASSUME RKInv, NEW p \in RKProcs, makeAttempts(p)
  PROVE  RKInv'
<1>1. /\ rkProc[p].pc = "attempts" /\ rkStage' = [rkStage EXCEPT !.attempts = TRUE] /\ RKGo(p, "identity")
      /\ UNCHANGED <<rkRoot, rkMade, rkCopies, rkAuth, rkDirs, rkHistory, rkTail, rkFile, rkLease, rkAcked, rkFlock, rkDead>>
  BY DEF makeAttempts, RKAt
<1>2. RKTypeOK /\ RKDiskFits /\ RKPhase(p)
  BY DEF RKInv
<1>3. /\ rkAuth \in RKAuthority /\ rkTail \in {"none", "part", "whole"}
      /\ rkAuth.state = "PREPARED_RUN" /\ rkStage = RKStageMade /\ rkAuth.run = rkProc[p].run
  BY <1>1, <1>2 DEF RKTypeOK, RKAuthority, RKPhase, RKIssuing
<1>4. rkStage' = [RKStageWhole EXCEPT !.identity = "none"]
  <2> DEFINE made == [RKStageWhole EXCEPT !.identity = "none"]
  <2>1. \A s, t \in RKStages : s.made = t.made /\ s.attempts = t.attempts /\ s.identity = t.identity => s = t
    BY DEF RKStages
  <2>2. rkStage' \in RKStages /\ rkStage'.made = TRUE /\ rkStage'.attempts = TRUE /\ rkStage'.identity = "none"
    BY <1>1, <1>3 DEF RKStageMade, RKStages
  <2>3. made \in RKStages /\ made.made = TRUE /\ made.attempts = TRUE /\ made.identity = "none"
    BY DEF RKStageWhole, RKStages
  <2> HIDE DEF made
  <2>4. rkStage' = made
    BY <2>1, <2>2, <2>3
  <2> QED BY <2>4 DEF made
<1>5. rkStage' \in RKStages /\ rkStage'.made = TRUE
  BY <1>4 DEF RKStageWhole, RKStages
<1>6. ~RKIntegrity'
  BY <1>1, <1>2, <1>3 DEF RKDiskFits, RKIntegrity
<1>7. "PREPARED_RUN" \in RKPrepared /\ rkProc[p].pc \in RKIssuing /\ "identity" \in RKIssuing
      /\ rkProc[p].pc \notin RKUnlisted /\ "identity" \notin RKUnlisted
  BY <1>1 DEF RKPrepared, RKIssuing, RKUnlisted
<1>8. rkTail = "none"
  BY <1>2, <1>3 DEF RKDiskFits
<1>9. \A w \in RKProcess : (w = rkProc'[p] /\ w.pc = "identity" /\ w.run = rkProc[p].run /\ w.op = "run") => RKPhase(p)'
  BY <1>1, <1>3, <1>4 DEF RKPhase
<1> QED BY <1>1, <1>3, <1>5, <1>6, <1>7, <1>8, <1>9, RKIssuanceStep

\* writePreparedRunIdentity keeps the invariant.
LEMMA RKIdentityKeeps ==
  ASSUME RKInv, NEW p \in RKProcs, writePreparedRunIdentity(p)
  PROVE  RKInv'
<1>1. /\ rkProc[p].pc = "identity" /\ rkStage' = [rkStage EXCEPT !.identity = IF @ = "none" THEN "part" ELSE "whole"]
      /\ IF rkStage.identity = "part" THEN RKGo(p, "full") ELSE UNCHANGED rkProc
      /\ UNCHANGED <<rkRoot, rkMade, rkCopies, rkAuth, rkDirs, rkHistory, rkTail, rkFile, rkLease, rkAcked, rkFlock, rkDead>>
  BY DEF writePreparedRunIdentity, RKAt
<1>2. RKTypeOK /\ RKDiskFits /\ RKPhase(p)
  BY DEF RKInv
<1>3. /\ rkAuth \in RKAuthority /\ rkTail \in {"none", "part", "whole"}
      /\ rkAuth.state = "PREPARED_RUN" /\ rkAuth.run = rkProc[p].run
      /\ rkStage \in {[RKStageWhole EXCEPT !.identity = i] : i \in {"none", "part"}}
  BY <1>1, <1>2 DEF RKTypeOK, RKAuthority, RKPhase, RKIssuing
<1>4. ~RKIntegrity' /\ rkTail = "none"
  BY <1>1, <1>2, <1>3 DEF RKDiskFits, RKIntegrity
<1>5. /\ "PREPARED_RUN" \in RKPrepared /\ rkProc[p].pc \in RKIssuing /\ "identity" \in RKIssuing /\ "full" \in RKIssuing
      /\ rkProc[p].pc \notin RKUnlisted /\ "identity" \notin RKUnlisted /\ "full" \notin RKUnlisted
  BY <1>1 DEF RKPrepared, RKIssuing, RKUnlisted
<1>6. CASE rkStage = [RKStageWhole EXCEPT !.identity = "part"]
  <2>1. rkStage.identity = "part"
    BY <1>6 DEF RKStageWhole
  <2>2. RKGo(p, "full")
    BY <1>1, <2>1
  <2>3. rkStage' = RKStageWhole
    BY <1>1, <1>6 DEF RKStageWhole
  <2>4. rkStage' \in RKStages /\ rkStage'.made = TRUE
    BY <2>3 DEF RKStageWhole, RKStages
  <2>5. \A w \in RKProcess : (w = rkProc'[p] /\ w.pc = "full" /\ w.run = rkProc[p].run /\ w.op = "run") => RKPhase(p)'
    BY <1>1, <1>3, <2>3 DEF RKPhase
  <2> QED BY <1>1, <1>3, <1>4, <1>5, <2>2, <2>4, <2>5, RKIssuanceStep
<1>7. CASE rkStage = [RKStageWhole EXCEPT !.identity = "none"]
  <2>1. rkStage.identity = "none"
    BY <1>7 DEF RKStageWhole
  <2>2. RKGo(p, "identity")
    BY <1>1, <1>2, <2>1, RKStandsGoes
  <2>3. rkStage' = [RKStageWhole EXCEPT !.identity = "part"]
    BY <1>1, <1>7 DEF RKStageWhole
  <2>4. rkStage' \in RKStages /\ rkStage'.made = TRUE
    BY <2>3 DEF RKStageWhole, RKStages
  <2>5. \A w \in RKProcess : (w = rkProc'[p] /\ w.pc = "identity" /\ w.run = rkProc[p].run /\ w.op = "run") => RKPhase(p)'
    BY <1>1, <1>3, <2>3 DEF RKPhase
  <2> QED BY <1>1, <1>3, <1>4, <1>5, <2>2, <2>4, <2>5, RKIssuanceStep
<1> QED BY <1>3, <1>6, <1>7

\* prepareFull keeps the invariant.
LEMMA RKPrepareFullKeeps ==
  ASSUME RKInv, NEW p \in RKProcs, prepareFull(p)
  PROVE  RKInv'
<1>1. /\ rkProc[p].pc = "full" /\ rkAuth' = [rkAuth EXCEPT !.state = "PREPARED_FULL"] /\ RKGo(p, "rename")
      /\ UNCHANGED <<rkRoot, rkMade, rkCopies, rkStage, rkDirs, rkHistory, rkTail, rkFile, rkLease, rkAcked, rkFlock, rkDead>>
  BY DEF prepareFull, RKAt
<1>2. RKTypeOK /\ RKDiskFits /\ RKPhase(p)
  BY DEF RKInv
<1>3. /\ rkAuth \in RKAuthority /\ rkTail \in {"none", "part", "whole"} /\ rkStage \in RKStages
      /\ rkAuth.state = "PREPARED_RUN" /\ rkAuth.run = rkProc[p].run /\ rkStage = RKStageWhole
  BY <1>1, <1>2 DEF RKTypeOK, RKAuthority, RKStages, RKPhase, RKIssuing
<1>4. rkAuth' \in RKAuthority /\ rkAuth'.state = "PREPARED_FULL" /\ rkAuth'.run = rkAuth.run
  BY <1>1, <1>3 DEF RKAuthority
<1>5. rkAuth.run \notin rkDirs /\ rkTail = "none"
  BY <1>2, <1>3 DEF RKDiskFits, RKIntegrity
<1>6. rkStage.made = TRUE /\ rkStage.attempts = TRUE /\ rkStage.identity = "whole"
  BY <1>3 DEF RKStageWhole
<1>7. ~RKIntegrity'
  BY <1>1, <1>4, <1>5, <1>6 DEF RKIntegrity, verifyPreparedRunNamespace
<1>8. /\ "PREPARED_FULL" \in RKPrepared /\ rkProc[p].pc \in RKIssuing /\ "rename" \in RKIssuing
      /\ rkProc[p].pc \notin RKUnlisted /\ "rename" \notin RKUnlisted
  BY <1>1 DEF RKPrepared, RKIssuing, RKUnlisted
<1>9. \A w \in RKProcess : (w = rkProc'[p] /\ w.pc = "rename" /\ w.run = rkProc[p].run /\ w.op = "run") => RKPhase(p)'
  BY <1>1, <1>3, <1>4, <1>5 DEF RKPhase
<1> QED BY <1>1, <1>3, <1>4, <1>5, <1>6, <1>7, <1>8, <1>9, RKIssuanceStep

\* publishRunDirectory keeps the invariant.
LEMMA RKRenameKeeps ==
  ASSUME RKInv, NEW p \in RKProcs, publishRunDirectory(p)
  PROVE  RKInv'
<1>1. /\ rkProc[p].pc = "rename" /\ rkStage' = NoRKStage /\ rkDirs' = rkDirs \cup {rkProc[p].run} /\ RKGo(p, "history")
      /\ UNCHANGED <<rkRoot, rkMade, rkCopies, rkAuth, rkHistory, rkTail, rkFile, rkLease, rkAcked, rkFlock, rkDead>>
  BY DEF publishRunDirectory, RKAt
<1>2. RKTypeOK /\ RKDiskFits /\ RKPhase(p)
  BY DEF RKInv
<1>3. /\ rkAuth \in RKAuthority /\ rkTail \in {"none", "part", "whole"}
      /\ rkAuth.state = "PREPARED_FULL" /\ rkAuth.run = rkProc[p].run /\ rkStage = RKStageWhole
  BY <1>1, <1>2 DEF RKTypeOK, RKAuthority, RKPhase, RKIssuing
<1>4. rkStage' \in RKStages /\ rkStage'.made = FALSE
  BY <1>1 DEF NoRKStage, RKStages
<1>5. ~RKIntegrity'
  BY <1>1, <1>3, <1>4 DEF RKIntegrity
<1>6. /\ "PREPARED_FULL" \in RKPrepared /\ rkProc[p].pc \in RKIssuing /\ "history" \in RKIssuing /\ "history" \in RKUnlisted
  BY <1>1 DEF RKPrepared, RKIssuing, RKUnlisted
<1>7. rkTail # "whole"
  BY <1>1, <1>2 DEF RKPhase
<1>8. \A w \in RKProcess : (w = rkProc'[p] /\ w.pc = "history" /\ w.run = rkProc[p].run /\ w.op = "run") => RKPhase(p)'
  BY <1>1, <1>3, <1>7 DEF RKPhase
<1> QED BY <1>1, <1>3, <1>4, <1>5, <1>6, <1>8, RKIssuanceStep

\* appendRunGeneration keeps the invariant.
LEMMA RKHistoryKeeps ==
  ASSUME RKInv, NEW p \in RKProcs, appendRunGeneration(p)
  PROVE  RKInv'
<1>1. /\ rkProc[p].pc = "history" /\ rkTail' = IF rkTail = "none" THEN "part" ELSE "whole"
      /\ IF rkTail = "part" THEN RKGo(p, "checkpoint") ELSE UNCHANGED rkProc
      /\ UNCHANGED <<rkRoot, rkMade, rkCopies, rkAuth, rkStage, rkDirs, rkHistory, rkFile, rkLease, rkAcked, rkFlock, rkDead>>
  BY DEF appendRunGeneration, RKAt
<1>2. RKTypeOK /\ RKDiskFits /\ RKPhase(p)
  BY DEF RKInv
<1>3. /\ rkAuth \in RKAuthority /\ rkTail \in {"none", "part"} /\ rkStage \in RKStages
      /\ rkAuth.state = "PREPARED_FULL" /\ rkAuth.run = rkProc[p].run /\ rkStage = NoRKStage
  BY <1>1, <1>2 DEF RKTypeOK, RKAuthority, RKStages, RKPhase, RKIssuing
<1>4. ~RKIntegrity'
  BY <1>1, <1>2, <1>3 DEF RKDiskFits, RKIntegrity
<1>5. /\ "PREPARED_FULL" \in RKPrepared /\ rkProc[p].pc \in RKIssuing /\ "history" \in RKIssuing /\ "history" \in RKUnlisted
      /\ "checkpoint" \in RKIssuing /\ "checkpoint" \in RKUnlisted
  BY <1>1 DEF RKPrepared, RKIssuing, RKUnlisted
<1>6. CASE rkTail = "part"
  <2>1. rkTail' = "whole" /\ RKGo(p, "checkpoint")
    BY <1>1, <1>6
  <2>2. \A w \in RKProcess : (w = rkProc'[p] /\ w.pc = "checkpoint" /\ w.run = rkProc[p].run /\ w.op = "run") => RKPhase(p)'
    BY <1>1, <1>3, <2>1 DEF RKPhase
  <2> QED BY <1>1, <1>3, <1>4, <1>5, <2>1, <2>2, RKIssuanceStep
<1>7. CASE rkTail = "none"
  <2>1. rkTail' = "part" /\ RKGo(p, "history")
    BY <1>1, <1>2, <1>7, RKStandsGoes
  <2>2. \A w \in RKProcess : (w = rkProc'[p] /\ w.pc = "history" /\ w.run = rkProc[p].run /\ w.op = "run") => RKPhase(p)'
    BY <1>1, <1>3, <2>1 DEF RKPhase
  <2> QED BY <1>1, <1>3, <1>4, <1>5, <2>1, <2>2, RKIssuanceStep
<1> QED BY <1>3, <1>6, <1>7

\* checkpointRunGeneration keeps the invariant.
LEMMA RKCheckpointKeeps ==
  ASSUME RKInv, NEW p \in RKProcs, checkpointRunGeneration(p)
  PROVE  RKInv'
<1>1. /\ rkProc[p].pc = "checkpoint" /\ rkHistory' = Append(rkHistory, rkProc[p].run) /\ rkTail' = "none"
      /\ rkAuth' = [state |-> "ESTABLISHED", run |-> NoRKRun] /\ RKGo(p, "body")
      /\ UNCHANGED <<rkRoot, rkMade, rkCopies, rkStage, rkDirs, rkFile, rkLease, rkAcked, rkFlock, rkDead>>
  BY DEF checkpointRunGeneration, RKAt
<1>2. RKTypeOK /\ RKDiskFits /\ RKPhase(p) /\ RKWay(p)
  BY DEF RKInv
<1>3. /\ rkCopies \subseteq {"root", "runs"} /\ rkDirs \subseteq RKRuns /\ rkStage \in RKStages
      /\ rkAuth.state = "PREPARED_FULL" /\ rkAuth.run = rkProc[p].run /\ rkStage = NoRKStage /\ rkTail = "whole"
  BY <1>1, <1>2 DEF RKTypeOK, RKStages, RKPhase, RKIssuing
<1>4. rkProc[p].op = "run" /\ rkProc[p].run \in RKRuns /\ "root" \notin rkCopies
  BY <1>1, <1>2 DEF RKWay, RKIssuing
<1>5. rkAuth.run \in rkDirs /\ rkStage.made = FALSE /\ rkStage.attempts = FALSE /\ rkStage.identity = "none"
  <2>1. rkStage.made = FALSE /\ rkStage.attempts = FALSE /\ rkStage.identity = "none"
    BY <1>3 DEF NoRKStage
  <2>2. rkStage.made \in BOOLEAN /\ ~rkStage.made
    BY <2>1
  <2>3. rkAuth.run \in rkDirs
    BY <1>2, <1>3, <2>2 DEF RKDiskFits, RKIntegrity
  <2> QED BY <2>1, <2>3
<1>6. "PREPARED_FULL" \in RKPrepared /\ "ESTABLISHED" \notin RKPrepared
  BY DEF RKPrepared
<1>7. rkAuth.run \notin RKNamed
  BY <1>2, <1>3, <1>6 DEF RKDiskFits
<1>8. /\ rkHistory' \in Seq(RKRuns) /\ RKNamed' = RKNamed \cup {rkAuth.run}
      /\ IsFiniteSet(RKNamed') /\ Cardinality(RKNamed') = Len(rkHistory')
  BY <1>1, <1>3, <1>4, <1>7, RKAppended
<1>9. rkAuth' \in RKAuthority /\ rkAuth'.state = "ESTABLISHED" /\ rkAuth'.run = NoRKRun
  BY <1>1 DEF RKAuthority
<1>10. RKDiskFits'
  <2>1. ~RKIntegrity'
    BY <1>1, <1>5, <1>9 DEF RKIntegrity
  <2> QED BY <1>1, <1>2, <1>3, <1>4, <1>5, <1>6, <1>8, <1>9, <2>1 DEF RKDiskFits
<1>11. PICK w \in RKProcess : /\ RKMovesTo(p, w) /\ w.pc = "body" /\ w.op = rkProc[p].op /\ w.run = rkProc[p].run
                             /\ w.by = rkProc[p].by /\ w.gen = rkProc[p].gen
  BY <1>1, <1>2, RKGone DEF RKPC
<1>12. rkProc'[p] = w
  BY <1>2, <1>11, RKMoved
<1>13. RKPhase(p)'
  BY <1>1, <1>3, <1>9, <1>11, <1>12 DEF RKPhase, RKIssuing
<1>14. /\ rkProc[p].pc \in RKIssuer /\ w.pc \in RKIssuer /\ w.pc \in RKUnlisted /\ rkProc[p].pc \in RKHeld
  BY <1>1, <1>11 DEF RKIssuer, RKUnlisted, RKIssuing, RKHeld
<1>15. rkDead = 0 => \A r \in RKRuns : ListRunsFails(r)' => w.run = r
  <2>1. rkDead = 0 => \A r \in RKRuns : ListRunsFails(r) => rkProc[p].run = r
    BY <1>14, RKHolderIssues
  <2> QED BY <1>1, <1>11, <2>1 DEF ListRunsFails
<1> QED BY <1>1, <1>3, <1>4, <1>6, <1>8, <1>9, <1>10, <1>11, <1>13, <1>14, <1>15, RKNamesStep

-----------------------------------------------------------------------------
(* Opening, the locks, errors and deaths. *)

\* A death takes at most the lease of its own run.
LEMMA RKOneLost ==
  ASSUME RKInv, NEW p \in RKProcs, RKMovesTo(p, RKDown), UNCHANGED rkLease, rkDead' = rkDead + 1
  PROVE  RKOwnersFit'
<1>1. RKTypeOK /\ RKOwnersFit
  BY DEF RKInv
<1>2. rkProc'[p] = RKDown /\ (\A q \in RKProcs : q # p => rkProc'[q] = rkProc[q]) /\ RKDown.gen = 0
  BY <1>1, RKMoved, RKDownTyped
<1>3. RKActive' = RKActive
  BY DEF RKActive
<1>4. \A r \in RKOwned : r # rkProc[p].run => r \in RKOwned'
  BY <1>2 DEF RKOwned
<1>5. RKLost' \subseteq RKLost \cup {rkProc[p].run}
  BY <1>3, <1>4 DEF RKLost
<1>6. IsFiniteSet(RKActive) /\ RKLost \subseteq RKActive
  BY <1>1 DEF RKOwnersFit, RKLost
<1>7. IsFiniteSet(RKLost)
  BY <1>6, FS_Subset
<1>8. /\ IsFiniteSet(RKLost \cup {rkProc[p].run})
      /\ Cardinality(RKLost \cup {rkProc[p].run}) = IF rkProc[p].run \in RKLost THEN Cardinality(RKLost) ELSE Cardinality(RKLost) + 1
  BY <1>7, FS_AddElement
<1>9. Cardinality(RKLost') <= Cardinality(RKLost \cup {rkProc[p].run}) /\ IsFiniteSet(RKLost')
  BY <1>5, <1>8, FS_Subset
<1>10. Cardinality(RKLost) \in Nat /\ Cardinality(RKLost') \in Nat /\ rkDead \in Nat /\ Cardinality(RKLost) <= rkDead
  BY <1>1, <1>7, <1>9, FS_CardinalityType, RKBounds DEF RKTypeOK, RKOwnersFit
<1>11. Cardinality(RKLost') <= rkDead'
  BY <1>8, <1>9, <1>10
<1>12. \A q \in RKProcs : rkProc'[q].gen > 0 => q # p
  BY <1>2
<1> QED BY <1>1, <1>2, <1>3, <1>11, <1>12 DEF RKOwnersFit

\* What a process that ends leaves.
LEMMA RKEnds ==
  ASSUME RKInv, NEW p \in RKProcs, RKMovesTo(p, RKDown), rkFlock' = RKDrop(p), UNCHANGED <<rkDisk, rkAcked>>,
         \/ rkDead' \in 1..RKCrashes /\ rkDead' = rkDead + 1
         \/ /\ UNCHANGED rkDead /\ rkProc[p].gen = 0 /\ rkProc[p].pc \notin RKIssuing
            /\ rkProc[p].pc \in RKUnlisted /\ rkProc[p].op = "run" => ~ListRunsFails(rkProc[p].run)
  PROVE  RKInv'
<1>1. RKTypeOK
  BY DEF RKInv
<1>2. UNCHANGED <<rkRoot, rkMade, rkCopies, rkAuth, rkStage, rkDirs, rkHistory, rkTail, rkFile, rkLease>>
  BY DEF rkDisk, rkNames
<1>3. rkProc' \in [RKProcs -> RKProcess] /\ rkProc'[p] = RKDown
  BY <1>1, RKMoved, RKDownTyped
<1>4. RKMonotone(p)
  BY <1>2 DEF RKMonotone
<1>5. "down" \notin RKHeld
  BY DEF RKHeld
<1>6. RKLocksFit' /\ rkFlock' \in [{"root", "catalog"} -> RKProcs \cup {NoRKProc}]
  BY <1>5, RKDownTyped, RKLocksDrop
<1>7. RKTypeOK'
  <2>1. rkDead' \in 0..RKCrashes
    BY <1>1, RKBounds DEF RKTypeOK
  <2> QED BY <1>1, <1>2, <1>3, <1>6, <2>1 DEF RKTypeOK, RKProcess
<1>8. RKDiskFits'
  <2>1. RKNamed' = RKNamed
    BY <1>2 DEF RKNamed
  <2>2. RKDiskFits
    BY DEF RKInv
  <2>3. ~RKIntegrity'
    BY <1>2, <2>2 DEF RKDiskFits, RKIntegrity
  <2> QED BY <1>2, <2>1, <2>2, <2>3 DEF RKDiskFits
<1>9. RKFilesFit' /\ RKRegisteredOnce'
  BY <1>2 DEF RKInv, RKFilesFit, RKRegisteredOnce
<1>10. RKListFits'
  <2>1. CASE rkDead' \in 1..RKCrashes
    BY <2>1 DEF RKListFits
  <2>2. CASE /\ UNCHANGED rkDead /\ rkProc[p].gen = 0 /\ rkProc[p].pc \notin RKIssuing
             /\ rkProc[p].pc \in RKUnlisted /\ rkProc[p].op = "run" => ~ListRunsFails(rkProc[p].run)
    BY <1>2, <2>2, RKDownTyped, RKListStays
  <2> QED BY <2>1, <2>2
<1>11. RKOwnersFit'
  <2>1. CASE rkDead' = rkDead + 1
    BY <1>2, <2>1, RKOneLost
  <2>2. CASE UNCHANGED rkDead /\ rkProc[p].gen = 0
    BY <1>2, <2>2, RKDownTyped, RKOwnersStay
  <2> QED BY <2>1, <2>2
<1>12. RKWay(p)' /\ RKPhase(p)'
  <2>1. RKPhase(p)'
    BY <1>3, RKDownTyped DEF RKPhase, RKIssuing
  <2>2. RKWay(p)'
    BY <1>3, RKDownTyped DEF RKWay, RKIssuing
  <2> QED BY <2>1, <2>2
<1> QED BY <1>2, <1>4, <1>6, <1>7, <1>8, <1>9, <1>10, <1>11, <1>12, RKDownTyped, RKTogether

\* An error that ends a registration.
LEMMA RKFailKeeps ==
  ASSUME RKInv, NEW p \in RKProcs, RKFail(p), rkProc[p].op # "close", rkProc[p].pc \notin RKIssuing,
         rkProc[p].pc \in RKUnlisted /\ rkProc[p].op = "run" => ~ListRunsFails(rkProc[p].run)
  PROVE  RKInv'
<1>1. RKMovesTo(p, RKDown) /\ rkFlock' = RKDrop(p) /\ UNCHANGED <<rkDisk, rkAcked, rkDead>>
  BY DEF RKFail, RKMovesTo
<1>2. rkProc[p].gen = 0
  <2>1. RKWay(p) /\ rkProc[p] \in RKProcess
    BY RKProcTyped DEF RKInv
  <2>2. rkProc[p].gen \in 0..RKGens
    BY <2>1 DEF RKProcess
  <2>3. ~(rkProc[p].gen > 0)
    BY <2>1 DEF RKWay
  <2> QED BY <2>2, <2>3, RKBounds
<1> QED BY <1>1, <1>2, RKEnds

\* The death of a process keeps the invariant.
LEMMA RKCrashKeeps ==
  ASSUME RKInv, NEW p \in RKProcs, RKCrash(p)
  PROVE  RKInv'
<1>1. RKMovesTo(p, RKDown) /\ rkFlock' = RKDrop(p) /\ UNCHANGED <<rkDisk, rkAcked>> /\ rkDead < RKCrashes /\ rkDead' = rkDead + 1
  BY DEF RKCrash, RKMovesTo
<1>2. rkDead \in 0..RKCrashes
  BY DEF RKInv, RKTypeOK
<1>3. rkDead' \in 1..RKCrashes
  BY <1>1, <1>2, RKBounds
<1> QED BY <1>1, <1>3, RKEnds

\* Open keeps the invariant.
LEMMA RKOpenKeeps ==
  ASSUME RKInv, NEW p \in RKProcs, NEW r \in RKRuns, Open(p, r)
  PROVE  RKInv'
<1> DEFINE w == [RKDown EXCEPT !.pc = "pins", !.run = r]
<1>1. /\ rkProc[p].pc = "down" /\ rkFlock["root"] = NoRKProc /\ RKMovesTo(p, w)
      /\ rkRoot' = (IF rkRoot = "none" THEN "init" ELSE rkRoot) /\ rkFlock' = [rkFlock EXCEPT !["root"] = p]
      /\ UNCHANGED <<rkMade, rkCopies, rkAuth, rkStage, rkDirs, rkHistory, rkTail, rkFile, rkLease, rkAcked, rkDead>>
  BY DEF Open, RKAt, RKMovesTo, rkNames
<1>2. w \in RKProcess /\ w.pc = "pins" /\ w.op = "open" /\ w.run = r /\ w.gen = 0
  <2>1. "pins" \in RKPC
    BY DEF RKPC
  <2> QED BY <2>1, RKDownTyped DEF RKProcess
<1> HIDE DEF w
<1>3. RKTypeOK /\ RKLocksFit /\ RKDiskFits /\ RKWay(p)
  BY DEF RKInv
<1>4. rkProc' \in [RKProcs -> RKProcess] /\ rkProc'[p] = w /\ \A q \in RKProcs : q # p => rkProc'[q] = rkProc[q]
  BY <1>1, <1>2, <1>3, RKMoved
<1>5. rkRoot \in {"none", "init", "ready"}
  BY <1>3 DEF RKTypeOK
<1>6. RKMonotone(p)
  BY <1>1, <1>5 DEF RKMonotone
<1>7. rkFlock \in [{"root", "catalog"} -> RKProcs \cup {NoRKProc}]
  BY <1>3 DEF RKTypeOK
<1>8. /\ rkFlock' \in [{"root", "catalog"} -> RKProcs \cup {NoRKProc}]
      /\ rkFlock'["root"] = p /\ rkFlock'["catalog"] = rkFlock["catalog"]
  BY <1>1, <1>7
<1>9. RKLocksFit'
  <2>1. w.pc \notin RKHeld /\ rkProc[p].pc \notin RKHeld
    BY <1>1, <1>2 DEF RKHeld
  <2>2. \A q \in RKProcs : rkFlock["root"] # q
    BY <1>1, RKBounds
  <2>3. \A q \in RKProcs : rkProc'[q].pc \in RKHeld <=> rkFlock'["catalog"] = q
    BY <1>3, <1>4, <1>8, <2>1 DEF RKLocksFit
  <2>4. \A q \in RKProcs : (rkProc'[q].pc # "down" /\ rkProc'[q].op = "open") <=> rkFlock'["root"] = q
    BY <1>2, <1>3, <1>4, <1>8, <2>2 DEF RKLocksFit
  <2> QED BY <2>3, <2>4 DEF RKLocksFit
<1>10. RKTypeOK'
  BY <1>1, <1>3, <1>4, <1>5, <1>8 DEF RKTypeOK, RKProcess
<1>11. RKDiskFits'
  <2>1. RKNamed' = RKNamed
    BY <1>1 DEF RKNamed
  <2>2. ~RKIntegrity'
    BY <1>1, <1>3 DEF RKDiskFits, RKIntegrity
  <2> QED BY <1>1, <1>3, <1>5, <2>1, <2>2 DEF RKDiskFits
<1>12. RKFilesFit' /\ RKRegisteredOnce'
  BY <1>1 DEF RKInv, RKFilesFit, RKRegisteredOnce
<1>13. rkProc[p] = RKDown
  BY <1>1, <1>3 DEF RKWay
<1>14. RKListFits'
  <2>1. rkProc[p].pc \notin RKIssuing /\ rkProc[p].pc \notin RKUnlisted
    BY <1>1 DEF RKIssuing, RKUnlisted
  <2> QED BY <1>1, <1>2, <2>1, RKListStays
<1>15. RKOwnersFit'
  BY <1>1, <1>2, <1>13, RKDownTyped, RKOwnersStay
<1>16. RKPhase(p)'
  BY <1>2, <1>4 DEF RKPhase, RKIssuing
<1>17. RKWay(p)'
  <2>1. ~(w.gen > 0) /\ rkRoot' # "none"
    BY <1>1, <1>2, <1>5
  <2> QED BY <1>2, <1>4, <2>1 DEF RKWay, RKIssuing
<1> QED BY <1>1, <1>2, <1>6, <1>9, <1>10, <1>11, <1>12, <1>14, <1>15, <1>16, <1>17, RKTogether

\* A step of Open and of the locks: it touches no name, no record and no lease.
LEMMA RKControlStep ==
  ASSUME RKInv, NEW p \in RKProcs, NEW w \in RKProcess, RKMovesTo(p, w),
         w.op = rkProc[p].op, w.run = rkProc[p].run, w.by = rkProc[p].by, w.gen = rkProc[p].gen,
         UNCHANGED <<rkAuth, rkStage, rkDirs, rkHistory, rkTail, rkFile, rkLease, rkAcked, rkDead, rkRoot>>,
         rkMade' \in 0..RKObjects, rkMade = RKObjects => rkMade' = RKObjects, rkCopies' \subseteq {"root", "runs"},
         "root" \in rkCopies' => "root" \in rkCopies, rkRoot = "none" => rkMade' = 0,
         RKLocksFit', rkFlock' \in [{"root", "catalog"} -> RKProcs \cup {NoRKProc}],
         rkProc[p].pc \notin RKIssuing, rkProc[p].pc \notin RKUnlisted,
         RKWay(p)', RKPhase(p)'
  PROVE  RKInv'
<1>1. RKTypeOK
  BY DEF RKInv
<1>2. rkProc' \in [RKProcs -> RKProcess] /\ rkProc'[p] = w
  BY <1>1, RKMoved
<1>3. RKMonotone(p)
  BY DEF RKMonotone
<1>4. RKTypeOK'
  BY <1>1, <1>2 DEF RKTypeOK, RKProcess
<1>5. RKDiskFits'
  <2>1. RKNamed' = RKNamed
    BY DEF RKNamed
  <2>2. RKDiskFits
    BY DEF RKInv
  <2>3. ~RKIntegrity'
    BY <2>2 DEF RKDiskFits, RKIntegrity
  <2> QED BY <2>1, <2>2, <2>3 DEF RKDiskFits
<1>6. RKFilesFit' /\ RKRegisteredOnce'
  BY DEF RKInv, RKFilesFit, RKRegisteredOnce
<1>7. RKListFits'
  BY RKListStays
<1>8. RKOwnersFit'
  BY RKOwnersStay
<1> QED BY <1>3, <1>4, <1>5, <1>6, <1>7, <1>8, RKTogether

\* openCatalogPins keeps the invariant.
LEMMA RKPinsKeeps ==
  ASSUME RKInv, NEW p \in RKProcs, openCatalogPins(p)
  PROVE  RKInv'
<1>1. RKTypeOK /\ RKLocksFit /\ RKWay(p) /\ RKPhase(p)
  BY DEF RKInv
<1>2. rkProc[p].pc = "pins" /\ rkProc[p].op = "open"
  BY <1>1 DEF openCatalogPins, RKAt, RKWay
<1>3. rkProc[p].pc \notin RKIssuing /\ rkProc[p].pc \notin RKUnlisted /\ rkProc[p].pc \notin RKHeld
  BY <1>2 DEF RKIssuing, RKUnlisted, RKHeld
<1>4. rkMade \in 0..RKObjects /\ rkCopies \subseteq {"root", "runs"} /\ rkFlock \in [{"root", "catalog"} -> RKProcs \cup {NoRKProc}]
  BY <1>1 DEF RKTypeOK
<1>5. CASE RKFail(p)
  BY <1>2, <1>3, <1>5, RKFailKeeps
<1>6. CASE /\ rkMade < RKObjects /\ rkRoot = "init" /\ rkMade' = rkMade + 1
           /\ UNCHANGED <<rkRoot, rkCopies, rkNames, rkFile, rkLease, rkAcked, rkFlock, rkProc, rkDead>>
  <2>1. RKMovesTo(p, rkProc[p]) /\ rkProc[p] \in RKProcess
    BY <1>1, <1>6, RKStands
  <2>2. UNCHANGED <<rkAuth, rkStage, rkDirs, rkHistory, rkTail>>
    BY <1>6 DEF rkNames
  <2>3. rkMade' \in 0..RKObjects /\ rkMade # RKObjects
    BY <1>4, <1>6, RKBounds
  <2>4. RKLocksFit'
    BY <1>1, <1>6 DEF RKLocksFit
  <2>5. RKWay(p)'
    BY <1>1, <1>2, <1>6, <2>2 DEF RKWay, RKIssuing
  <2>6. RKPhase(p)'
    BY <1>2, <1>6 DEF RKPhase, RKIssuing
  <2>7. rkRoot # "none"
    BY <1>6
  <2> QED BY <1>3, <1>4, <1>6, <2>1, <2>2, <2>3, <2>4, <2>5, <2>6, <2>7, RKControlStep
<1>7. CASE /\ rkMade = RKObjects /\ RKGo(p, "migrate")
           /\ UNCHANGED <<rkDisk, rkAcked, rkFlock, rkDead>>
  <2>1. PICK w \in RKProcess : /\ RKMovesTo(p, w) /\ w.pc = "migrate" /\ w.op = rkProc[p].op /\ w.run = rkProc[p].run
                               /\ w.by = rkProc[p].by /\ w.gen = rkProc[p].gen
    BY <1>1, <1>7, RKGone DEF RKPC
  <2>2. UNCHANGED <<rkRoot, rkMade, rkCopies, rkAuth, rkStage, rkDirs, rkHistory, rkTail, rkFile, rkLease>>
    BY <1>7 DEF rkDisk, rkNames
  <2>3. rkProc'[p] = w
    BY <1>1, <2>1, RKMoved
  <2>4. w.pc \notin RKHeld
    BY <2>1 DEF RKHeld
  <2>5. RKLocksFit'
    BY <1>2, <1>3, <1>7, <2>1, <2>4, RKLocksStay
  <2>6. RKPhase(p)'
    BY <2>1, <2>3 DEF RKPhase, RKIssuing
  <2>7. RKWay(p)'
    BY <1>1, <1>2, <1>7, <2>1, <2>2, <2>3 DEF RKWay, RKIssuing
  <2>8. rkRoot # "none"
    BY <1>1, <1>2 DEF RKWay
  <2> QED BY <1>3, <1>4, <1>7, <2>1, <2>2, <2>5, <2>6, <2>7, <2>8, RKControlStep
<1> QED BY <1>5, <1>6, <1>7 DEF openCatalogPins

\* migrateCatalogRunAuthority keeps the invariant.
LEMMA RKMigrateKeeps ==
  ASSUME RKInv, NEW p \in RKProcs, migrateCatalogRunAuthority(p)
  PROVE  RKInv'
<1>1. RKTypeOK /\ RKLocksFit /\ RKWay(p) /\ RKPhase(p)
  BY DEF RKInv
<1>2. rkMade \in 0..RKObjects /\ rkCopies \subseteq {"root", "runs"} /\ rkFlock \in [{"root", "catalog"} -> RKProcs \cup {NoRKProc}]
  BY <1>1 DEF RKTypeOK
<1>3. CASE /\ RKAt(p, "migrate") /\ rkFlock["catalog"] = NoRKProc
           /\ rkFlock' = [rkFlock EXCEPT !["catalog"] = p]
           /\ rkCopies' = IF "root" \in rkCopies THEN {"root", "runs"} ELSE rkCopies
           /\ RKGo(p, "remove")
           /\ UNCHANGED <<rkRoot, rkMade, rkNames, rkFile, rkLease, rkAcked, rkDead>>
  <2>1. PICK w \in RKProcess : /\ RKMovesTo(p, w) /\ w.pc = "remove" /\ w.op = rkProc[p].op /\ w.run = rkProc[p].run
                               /\ w.by = rkProc[p].by /\ w.gen = rkProc[p].gen
    BY <1>1, <1>3, RKGone DEF RKPC
  <2>2. UNCHANGED <<rkAuth, rkStage, rkDirs, rkHistory, rkTail>>
    BY <1>3 DEF rkNames
  <2>3. rkProc'[p] = w
    BY <1>1, <2>1, RKMoved
  <2>4. rkProc[p].pc = "migrate" /\ rkProc[p].op = "open" /\ rkMade = RKObjects /\ rkRoot # "none"
    BY <1>1, <1>3 DEF RKAt, RKWay
  <2>5. w.pc \in RKHeld /\ rkProc[p].pc \notin RKIssuing /\ rkProc[p].pc \notin RKUnlisted
    BY <2>1, <2>4 DEF RKHeld, RKIssuing, RKUnlisted
  <2>6. RKLocksFit' /\ rkFlock' \in [{"root", "catalog"} -> RKProcs \cup {NoRKProc}]
    BY <1>3, <2>1, <2>4, <2>5, RKLockMoves
  <2>7. RKPhase(p)'
    BY <2>1, <2>3 DEF RKPhase, RKIssuing
  <2>8. RKWay(p)'
    BY <1>1, <1>3, <2>1, <2>3, <2>4 DEF RKWay, RKIssuing
  <2>9. rkCopies' \subseteq {"root", "runs"} /\ ("root" \in rkCopies' => "root" \in rkCopies)
    BY <1>2, <1>3
  <2> QED BY <1>2, <1>3, <2>1, <2>2, <2>4, <2>5, <2>6, <2>7, <2>8, <2>9, RKControlStep
<1>4. CASE /\ RKAt(p, "remove")
           /\ rkCopies' = rkCopies \ {"root"}
           /\ rkFlock' = [rkFlock EXCEPT !["catalog"] = NoRKProc] /\ RKGo(p, "lock")
           /\ UNCHANGED <<rkRoot, rkMade, rkNames, rkFile, rkLease, rkAcked, rkDead>>
  <2>1. PICK w \in RKProcess : /\ RKMovesTo(p, w) /\ w.pc = "lock" /\ w.op = rkProc[p].op /\ w.run = rkProc[p].run
                               /\ w.by = rkProc[p].by /\ w.gen = rkProc[p].gen
    BY <1>1, <1>4, RKGone DEF RKPC
  <2>2. UNCHANGED <<rkAuth, rkStage, rkDirs, rkHistory, rkTail>>
    BY <1>4 DEF rkNames
  <2>3. rkProc'[p] = w
    BY <1>1, <2>1, RKMoved
  <2>4. rkProc[p].pc = "remove" /\ rkProc[p].op = "open" /\ rkMade = RKObjects /\ rkRoot # "none"
    BY <1>1, <1>4 DEF RKAt, RKWay
  <2>5. w.pc \notin RKHeld /\ rkProc[p].pc \in RKHeld /\ rkProc[p].pc \notin RKIssuing /\ rkProc[p].pc \notin RKUnlisted
    BY <2>1, <2>4 DEF RKHeld, RKIssuing, RKUnlisted
  <2>6. RKLocksFit' /\ rkFlock' \in [{"root", "catalog"} -> RKProcs \cup {NoRKProc}]
    BY <1>4, <2>1, <2>4, <2>5, RKLockMoves
  <2>7. RKPhase(p)'
    BY <2>1, <2>3 DEF RKPhase, RKIssuing
  <2>8. RKWay(p)'
    BY <1>1, <1>4, <2>1, <2>3, <2>4 DEF RKWay, RKIssuing
  <2>9. rkCopies' \subseteq {"root", "runs"} /\ "root" \notin rkCopies'
    BY <1>2, <1>4
  <2> QED BY <1>2, <1>4, <2>1, <2>2, <2>4, <2>5, <2>6, <2>7, <2>8, <2>9, RKControlStep
<1> QED BY <1>3, <1>4 DEF migrateCatalogRunAuthority

\* acquireLock keeps the invariant.
LEMMA RKAcquireKeeps ==
  ASSUME RKInv, NEW p \in RKProcs, acquireLock(p)
  PROVE  RKInv'
<1>1. RKTypeOK /\ RKWay(p)
  BY DEF RKInv
<1>2. /\ rkProc[p].pc = "lock" /\ rkFlock["catalog"] = NoRKProc /\ rkFlock' = [rkFlock EXCEPT !["catalog"] = p]
      /\ RKGo(p, "reconcile") /\ UNCHANGED <<rkRoot, rkMade, rkCopies, rkAuth, rkStage, rkDirs, rkHistory, rkTail, rkFile, rkLease, rkAcked, rkDead>>
  BY DEF acquireLock, RKAt, rkDisk, rkNames
<1>3. rkMade \in 0..RKObjects /\ rkCopies \subseteq {"root", "runs"}
  BY <1>1 DEF RKTypeOK
<1>4. PICK w \in RKProcess : /\ RKMovesTo(p, w) /\ w.pc = "reconcile" /\ w.op = rkProc[p].op /\ w.run = rkProc[p].run
                             /\ w.by = rkProc[p].by /\ w.gen = rkProc[p].gen
  BY <1>1, <1>2, RKGone DEF RKPC
<1>5. rkProc'[p] = w
  BY <1>1, <1>4, RKMoved
<1>6. w.pc \in RKHeld /\ rkProc[p].pc \notin RKIssuing /\ rkProc[p].pc \notin RKUnlisted
  BY <1>2, <1>4 DEF RKHeld, RKIssuing, RKUnlisted
<1>7. RKLocksFit' /\ rkFlock' \in [{"root", "catalog"} -> RKProcs \cup {NoRKProc}]
  BY <1>2, <1>4, <1>6, RKLockMoves
<1>8. RKPhase(p)'
  BY <1>4, <1>5 DEF RKPhase, RKIssuing
<1>9. RKWay(p)'
  BY <1>1, <1>2, <1>4, <1>5 DEF RKWay, RKIssuing
<1>10. rkRoot # "none"
  BY <1>1, <1>2 DEF RKWay
<1> QED BY <1>2, <1>3, <1>4, <1>6, <1>7, <1>8, <1>9, <1>10, RKControlStep

\* The end of the reconciliation keeps the invariant; its error is not reached.
LEMMA RKReconcileKeeps ==
  ASSUME RKInv, NEW p \in RKProcs, reconcileRunNamespaceIssuance(p)
  PROVE  RKInv'
<1>1. RKTypeOK /\ RKWay(p) /\ RKDiskFits
  BY DEF RKInv
<1>2. rkProc[p].pc = "reconcile" /\ rkMade = RKObjects /\ rkRoot # "none"
  BY <1>1 DEF reconcileRunNamespaceIssuance, RKAt, RKWay
<1>3. ~(RKIntegrity \/ (rkAuth.state = "none" /\ rkRoot = "ready"))
  BY <1>1 DEF RKDiskFits
<1> DEFINE pc == IF rkProc[p].op = "open" THEN "publish" ELSE "body"
<1>4. /\ rkAuth.state = "ESTABLISHED" /\ ~rkStage.made /\ RKGo(p, pc)
      /\ UNCHANGED <<rkRoot, rkMade, rkCopies, rkAuth, rkStage, rkDirs, rkHistory, rkTail, rkFile, rkLease, rkAcked, rkFlock, rkDead>>
  BY <1>3 DEF reconcileRunNamespaceIssuance, rkDisk, rkNames
<1>5. pc \in RKPC /\ pc \in RKHeld /\ pc # "down" /\ (rkProc[p].op = "open" => pc = "publish") /\ (rkProc[p].op # "open" => pc = "body")
  BY DEF RKPC, RKHeld
<1> HIDE DEF pc
<1>6. PICK w \in RKProcess : /\ RKMovesTo(p, w) /\ w.pc = pc /\ w.op = rkProc[p].op /\ w.run = rkProc[p].run
                             /\ w.by = rkProc[p].by /\ w.gen = rkProc[p].gen
  BY <1>1, <1>4, <1>5, RKGone
<1>7. rkProc'[p] = w
  BY <1>1, <1>6, RKMoved
<1>8. rkProc[p].pc \in RKHeld /\ rkProc[p].pc \notin RKIssuing /\ rkProc[p].pc \notin RKUnlisted
  BY <1>2 DEF RKHeld, RKIssuing, RKUnlisted
<1>9. RKLocksFit'
  BY <1>2, <1>4, <1>5, <1>6, <1>8, RKLocksStay
<1>10. rkStage = NoRKStage
  BY <1>1, <1>4 DEF RKDiskFits
<1>11. RKPhase(p)'
  <2>1. pc \in {"publish", "body"}
    BY <1>5
  <2> QED BY <1>4, <1>6, <1>7, <1>10, <2>1 DEF RKPhase, RKIssuing
<1>12. RKWay(p)'
  BY <1>1, <1>2, <1>4, <1>5, <1>6, <1>7 DEF RKWay, RKIssuing
<1>13. /\ rkMade \in 0..RKObjects /\ rkCopies \subseteq {"root", "runs"}
       /\ rkFlock \in [{"root", "catalog"} -> RKProcs \cup {NoRKProc}]
  BY <1>1 DEF RKTypeOK
<1> QED BY <1>2, <1>4, <1>6, <1>8, <1>9, <1>11, <1>12, <1>13, RKControlStep

\* publishCatalogRootGeneration keeps the invariant.
LEMMA RKPublishKeeps ==
  ASSUME RKInv, NEW p \in RKProcs, publishCatalogRootGeneration(p)
  PROVE  RKInv'
<1> DEFINE w == [rkProc[p] EXCEPT !.pc = "lock", !.op = "read"]
<1>1. RKTypeOK /\ RKWay(p) /\ RKPhase(p) /\ RKDiskFits
  BY DEF RKInv
<1>2. rkProc[p] \in RKProcess
  BY <1>1, RKProcTyped
<1>3. /\ rkProc[p].pc = "publish" /\ rkRoot' = "ready" /\ rkFlock' = RKDrop(p) /\ RKMovesTo(p, w)
      /\ UNCHANGED <<rkMade, rkCopies, rkAuth, rkStage, rkDirs, rkHistory, rkTail, rkFile, rkLease, rkAcked, rkDead>>
  BY DEF publishCatalogRootGeneration, RKAt, RKNextOp, RKMovesTo, rkNames
<1>4. w \in RKProcess /\ w.pc = "lock" /\ w.op = "read" /\ w.run = rkProc[p].run /\ w.gen = rkProc[p].gen
  BY <1>2 DEF RKProcess, RKPC, RKOp
<1> HIDE DEF w
<1>5. rkProc' \in [RKProcs -> RKProcess] /\ rkProc'[p] = w
  BY <1>1, <1>3, <1>4, RKMoved
<1>6. rkProc[p].op = "open" /\ rkMade = RKObjects /\ "root" \notin rkCopies /\ rkProc[p].run \in RKRuns /\ ~(rkProc[p].gen > 0)
  BY <1>1, <1>3 DEF RKWay
<1>7. rkAuth.state = "ESTABLISHED"
  BY <1>1, <1>3 DEF RKPhase
<1>8. rkProc[p].pc \in RKHeld /\ rkProc[p].pc \notin RKIssuing /\ rkProc[p].pc \notin RKUnlisted /\ w.pc \notin RKHeld
  BY <1>3, <1>4 DEF RKHeld, RKIssuing, RKUnlisted
<1>9. RKMonotone(p)
  BY <1>3 DEF RKMonotone
<1>10. RKLocksFit' /\ rkFlock' \in [{"root", "catalog"} -> RKProcs \cup {NoRKProc}]
  BY <1>3, <1>4, <1>8, RKLocksDrop
<1>11. RKTypeOK'
  BY <1>1, <1>3, <1>5, <1>10 DEF RKTypeOK, RKProcess
<1>12. RKDiskFits'
  <2>1. RKNamed' = RKNamed
    BY <1>3 DEF RKNamed
  <2>2. ~RKIntegrity'
    BY <1>1, <1>3 DEF RKDiskFits, RKIntegrity
  <2> QED BY <1>1, <1>3, <1>6, <1>7, <2>1, <2>2 DEF RKDiskFits
<1>13. RKFilesFit' /\ RKRegisteredOnce'
  BY <1>3 DEF RKInv, RKFilesFit, RKRegisteredOnce
<1>14. RKListFits'
  BY <1>3, <1>4, <1>8, RKListStays
<1>15. RKOwnersFit'
  BY <1>3, <1>4, RKOwnersStay
<1>16. RKPhase(p)'
  BY <1>4, <1>5 DEF RKPhase, RKIssuing
<1>17. RKWay(p)'
  BY <1>3, <1>4, <1>5, <1>6 DEF RKWay, RKIssuing
<1> QED BY <1>3, <1>4, <1>8, <1>9, <1>10, <1>11, <1>12, <1>13, <1>14, <1>15, <1>16, <1>17, RKTogether

-----------------------------------------------------------------------------
(* The records of a run and of its attempt. *)

\* A record is written.
RKWrites(r, n, f) == rkFile' = [rkFile EXCEPT ![r][n] = f]

\* A whole record stays as it is.
RKWholeStays == \A r \in RKRuns, n \in RKFileNames : rkFile[r][n].at = "whole" => rkFile'[r][n] = rkFile[r][n]

\* What a write of one record leaves.
LEMMA RKWritten ==
  ASSUME RKTypeOK, NEW r \in RKRuns, NEW n \in RKFileNames, NEW f \in RKFile, RKWrites(r, n, f)
  PROVE  /\ rkFile' \in [RKRuns -> [RKFileNames -> RKFile]] /\ rkFile'[r][n] = f
         /\ \A q \in RKRuns, m \in RKFileNames : q # r \/ m # n => rkFile'[q][m] = rkFile[q][m]
<1> DEFINE c == [rkFile[r] EXCEPT ![n] = f]
<1>1. rkFile \in [RKRuns -> [RKFileNames -> RKFile]]
  BY DEF RKTypeOK
<1>2. rkFile' = [rkFile EXCEPT ![r] = c]
  BY DEF RKWrites
<1>3. c \in [RKFileNames -> RKFile] /\ c[n] = f /\ \A m \in RKFileNames : m # n => c[m] = rkFile[r][m]
  BY <1>1
<1> HIDE DEF c
<1>4. rkFile' \in [RKRuns -> [RKFileNames -> RKFile]] /\ rkFile'[r] = c /\ \A q \in RKRuns : q # r => rkFile'[q] = rkFile[q]
  BY <1>1, <1>2, <1>3
<1> QED BY <1>3, <1>4

\* A write that changes no whole record keeps the records in order.
LEMMA RKWriteFits ==
  ASSUME RKInv, NEW r \in RKRuns, NEW n \in RKFileNames, NEW f \in RKFile, RKWrites(r, n, f), UNCHANGED rkLease,
         rkFile[r][n].at = "whole" => f = rkFile[r][n], f.at # "none" => f.by \in RKProcs,
         n = "attempt" /\ f.at # "none" => rkFile[r]["run.json"].at = "whole"
  PROVE  RKFilesFit' /\ RKWholeStays
<1>1. RKTypeOK /\ RKFilesFit
  BY DEF RKInv
<1>2. /\ rkFile'[r][n] = f
      /\ \A q \in RKRuns, m \in RKFileNames : q # r \/ m # n => rkFile'[q][m] = rkFile[q][m]
  BY <1>1, RKWritten
<1>3. RKWholeStays
  BY <1>2 DEF RKWholeStays
<1>4. "run.json" \in RKFileNames /\ "attempt" \in RKFileNames /\ n \in {"run.json", "attempt"}
  BY DEF RKFileNames
<1>5. \A q \in RKRuns : \A m \in RKFileNames : rkFile'[q][m].at # "none" => rkFile'[q][m].by \in RKProcs
  BY <1>1, <1>2 DEF RKFilesFit
<1>6. \A q \in RKRuns : rkFile'[q]["attempt"].at # "none" => rkFile'[q]["run.json"].at = "whole"
  <2> SUFFICES ASSUME NEW q \in RKRuns, rkFile'[q]["attempt"].at # "none"
               PROVE  rkFile'[q]["run.json"].at = "whole"
    OBVIOUS
  <2>1. rkFile[q]["run.json"].at = "whole"
    BY <1>1, <1>2, <1>4 DEF RKFilesFit
  <2> QED BY <1>3, <1>4, <2>1 DEF RKWholeStays
<1>7. \A q \in RKRuns : rkLease'[q].gen > 0 => rkFile'[q]["attempt"].at = "whole"
  <2>1. \A q \in RKRuns : rkLease[q].gen > 0 => rkFile[q]["attempt"].at = "whole"
    BY <1>1 DEF RKFilesFit
  <2> QED BY <1>3, <1>4, <2>1 DEF RKWholeStays
<1> QED BY <1>3, <1>5, <1>6, <1>7 DEF RKFilesFit

\* A step of the holder on the records.
LEMMA RKFileStep ==
  ASSUME RKInv, NEW p \in RKProcs, NEW w \in RKProcess, RKMovesTo(p, w), rkProc[p].pc \in {"body", "link", "unlink"},
         w.run = rkProc[p].run, w.gen = rkProc[p].gen,
         UNCHANGED <<rkRoot, rkMade, rkCopies, rkAuth, rkStage, rkDirs, rkHistory, rkTail, rkLease, rkDead>>,
         rkFile' \in [RKRuns -> [RKFileNames -> RKFile]], RKFilesFit', RKWholeStays,
         rkAcked' \subseteq RKRuns \X RKProcs, RKRegisteredOnce',
         RKLocksFit', rkFlock' \in [{"root", "catalog"} -> RKProcs \cup {NoRKProc}],
         RKWay(p)', RKPhase(p)',
         rkDead = 0 => \A q \in RKRuns : ListRunsFails(q)' => w.run = q /\ w.op = "run" /\ w.pc \in RKUnlisted
  PROVE  RKInv'
<1>1. RKTypeOK /\ RKPhase(p)
  BY DEF RKInv
<1>2. rkProc' \in [RKProcs -> RKProcess] /\ rkProc'[p] = w
  BY <1>1, RKMoved
<1>3. rkProc[p].pc \in RKHeld /\ "run.json" \in RKFileNames
  BY DEF RKHeld, RKFileNames
<1>4. RKMonotone(p)
  BY <1>3 DEF RKMonotone, RKWholeStays
<1>5. RKTypeOK'
  BY <1>1, <1>2 DEF RKTypeOK, RKProcess
<1>6. RKDiskFits'
  <2>1. RKNamed' = RKNamed
    BY DEF RKNamed
  <2>2. RKDiskFits
    BY DEF RKInv
  <2>3. ~RKIntegrity'
    BY <2>2 DEF RKDiskFits, RKIntegrity
  <2> QED BY <2>1, <2>2, <2>3 DEF RKDiskFits
<1>7. rkAuth'.state \notin RKPrepared
  BY <1>1 DEF RKPhase, RKPrepared
<1>8. RKListFits'
  BY <1>7, RKListMoves
<1>9. RKOwnersFit'
  BY RKOwnersStay
<1> QED BY <1>3, <1>4, <1>5, <1>6, <1>8, <1>9, RKTogether

\* What a registration was acknowledged stays.
LEMMA RKAckedStays ==
  ASSUME RKInv, RKWholeStays, UNCHANGED <<rkAcked, rkDirs>>
  PROVE  RKRegisteredOnce'
<1>1. RKTypeOK /\ RKRegisteredOnce
  BY DEF RKInv
<1>2. \A a \in rkAcked : a[1] \in RKRuns
  BY <1>1 DEF RKTypeOK
<1>3. "run.json" \in RKFileNames
  BY DEF RKFileNames
<1>4. \A a \in rkAcked : rkFile[a[1]]["run.json"] = [at |-> "whole", by |-> a[2]] /\ a[1] \in rkDirs
  BY <1>1 DEF RKRegisteredOnce
<1>5. \A a \in rkAcked : rkFile'[a[1]]["run.json"] = rkFile[a[1]]["run.json"]
  <2> SUFFICES ASSUME NEW a \in rkAcked
               PROVE  rkFile'[a[1]]["run.json"] = rkFile[a[1]]["run.json"]
    OBVIOUS
  <2>1. rkFile[a[1]]["run.json"].at = "whole"
    <3>1. rkFile[a[1]]["run.json"] = [at |-> "whole", by |-> a[2]]
      BY <1>4
    <3>2. [at |-> "whole", by |-> a[2]].at = "whole"
      OBVIOUS
    <3> QED BY <3>1, <3>2
  <2> QED BY <1>2, <1>3, <2>1 DEF RKWholeStays
<1> QED BY <1>4, <1>5 DEF RKRegisteredOnce

\* What recoverTemporaryArtifacts makes of a record.
LEMMA RKRecoveredFits ==
  ASSUME RKInv, NEW r \in RKRuns, NEW n \in RKFileNames
  PROVE  /\ RKRecovered(rkFile[r][n]) \in RKFile
         /\ RKRecovered(rkFile[r][n]).at \in {"none", "whole"}
         /\ rkFile[r][n].at = "whole" => RKRecovered(rkFile[r][n]) = rkFile[r][n]
         /\ RKRecovered(rkFile[r][n]).at = "whole" <=> rkFile[r][n].at \in {"linked", "whole"}
         /\ RKRecovered(rkFile[r][n]).at # "none" => RKRecovered(rkFile[r][n]).by \in RKProcs
<1>1. rkFile[r][n] \in RKFile
  BY DEF RKInv, RKTypeOK
<1>2. rkFile[r][n].at # "none" => rkFile[r][n].by \in RKProcs
  BY DEF RKInv, RKFilesFit
<1>3. rkFile[r][n].at \in {"none", "temp", "linked", "whole"}
  BY <1>1 DEF RKFile
<1>4. CASE rkFile[r][n].at = "temp"
  BY <1>4 DEF RKRecovered, NoRKFile, RKFile
<1>5. CASE rkFile[r][n].at = "linked"
  BY <1>1, <1>2, <1>5 DEF RKRecovered, RKFile
<1>6. CASE rkFile[r][n].at \in {"none", "whole"}
  BY <1>1, <1>2, <1>6 DEF RKRecovered
<1> QED BY <1>3, <1>4, <1>5, <1>6

\* readRegistration keeps the invariant.
LEMMA RKReadKeeps ==
  ASSUME RKInv, NEW p \in RKProcs, readRegistration(p)
  PROVE  RKInv'
<1> DEFINE r == rkProc[p].run
           n == RKFileOf(p)
           f == RKRecovered(rkFile[r][n])
           by == IF f.at = "whole" THEN f.by ELSE p
           op == IF rkProc[p].op = "read" THEN "run" ELSE "attempt"
           w == [rkProc[p] EXCEPT !.pc = "lock", !.op = op, !.by = by]
<1>1. RKTypeOK /\ RKWay(p) /\ RKPhase(p)
  BY DEF RKInv
<1>2. rkProc[p] \in RKProcess
  BY <1>1, RKProcTyped
<1>3. /\ rkProc[p].pc = "body" /\ rkProc[p].op \in {"read", "read attempt"}
      /\ (r \in rkDirs /\ RKWrites(r, n, f)) \/ UNCHANGED rkFile
      /\ RKMovesTo(p, w) /\ rkFlock' = [rkFlock EXCEPT !["catalog"] = NoRKProc]
      /\ UNCHANGED <<rkRoot, rkMade, rkCopies, rkAuth, rkStage, rkDirs, rkHistory, rkTail, rkLease, rkAcked, rkDead>>
  BY DEF readRegistration, RKAt, RKRead, RKWrites, RKMovesTo, RKUnlock, rkNames
<1>4. r \in RKRuns /\ n \in RKFileNames /\ rkRoot = "ready" /\ rkMade = RKObjects /\ "root" \notin rkCopies /\ ~(rkProc[p].gen > 0)
  BY <1>1, <1>3 DEF RKWay, RKFileOf, RKFileNames
<1>5. /\ f \in RKFile /\ f.at \in {"none", "whole"} /\ (rkFile[r][n].at = "whole" => f = rkFile[r][n])
      /\ (f.at = "whole" <=> rkFile[r][n].at \in {"linked", "whole"}) /\ (f.at # "none" => f.by \in RKProcs)
  <2> HIDE DEF r, n
  <2> QED BY <1>4, RKRecoveredFits
<1>6. by \in RKProcs /\ op \in {"run", "attempt"} /\ (op = "attempt" => rkProc[p].op = "read attempt")
  <2> HIDE DEF f
  <2> QED BY <1>3, <1>5
<1>7. w \in RKProcess /\ w.pc = "lock" /\ w.op = op /\ w.by = by /\ w.run = r /\ w.gen = rkProc[p].gen
  <2> HIDE DEF by, op
  <2> QED BY <1>2, <1>6 DEF RKProcess, RKPC, RKOp
<1>8. rkProc[p].op # "run" /\ (n = "attempt" => rkProc[p].op = "read attempt")
  BY <1>3 DEF RKFileOf
<1> HIDE DEF w, by, op, f, n, r
<1>9. rkProc'[p] = w
  BY <1>1, <1>3, <1>7, RKMoved
<1>10. rkProc[p].op = "read attempt" => rkFile[r]["run.json"].at = "whole"
  BY <1>1 DEF RKWay, r
<1>11. rkFile' \in [RKRuns -> [RKFileNames -> RKFile]] /\ RKFilesFit' /\ RKWholeStays
  <2>1. CASE RKWrites(r, n, f)
    BY <1>1, <1>3, <1>4, <1>5, <1>8, <1>10, <2>1, RKWritten, RKWriteFits
  <2>2. CASE UNCHANGED rkFile
    BY <1>1, <1>3, <2>2 DEF RKTypeOK, RKInv, RKFilesFit, RKWholeStays
  <2> QED BY <1>3, <2>1, <2>2
<1>12. RKRegisteredOnce'
  BY <1>3, <1>11, RKAckedStays
<1>13. rkProc[p].pc \in RKHeld /\ w.pc \notin RKHeld
  BY <1>3, <1>7 DEF RKHeld
<1>14. RKLocksFit' /\ rkFlock' \in [{"root", "catalog"} -> RKProcs \cup {NoRKProc}]
  BY <1>3, <1>6, <1>7, <1>13, RKLockMoves
<1>15. RKPhase(p)'
  BY <1>7, <1>9 DEF RKPhase, RKIssuing
<1>16. RKWay(p)'
  <2>1. w.op = "attempt" => rkFile'[w.run]["run.json"].at = "whole"
    <3>1. "run.json" \in RKFileNames
      BY DEF RKFileNames
    <3> QED BY <1>4, <1>6, <1>7, <1>10, <1>11, <3>1 DEF RKWholeStays
  <2>2. w.op \in {"run", "attempt"} /\ w.by \in RKProcs /\ w.run \in RKRuns /\ ~(w.gen > 0)
    BY <1>4, <1>6, <1>7
  <2> QED BY <1>3, <1>4, <1>7, <1>9, <2>1, <2>2 DEF RKWay, RKIssuing
<1>17. rkDead = 0 => \A q \in RKRuns : ~ListRunsFails(q)'
  <2>1. rkDead = 0 => \A q \in RKRuns : ~ListRunsFails(q)
    BY <1>8, <1>13, RKHolderIssues
  <2>2. \A q \in RKRuns : rkFile[q]["run.json"].at \in {"linked", "whole"} => rkFile'[q]["run.json"].at \in {"linked", "whole"}
    <3>1. "run.json" \in RKFileNames
      BY DEF RKFileNames
    <3>2. CASE RKWrites(r, n, f)
      <4>1. /\ rkFile'[r][n] = f
            /\ \A q \in RKRuns, m \in RKFileNames : q # r \/ m # n => rkFile'[q][m] = rkFile[q][m]
        BY <1>1, <1>4, <1>5, <3>2, RKWritten
      <4> QED BY <1>5, <3>1, <4>1
    <3> QED BY <1>3, <3>2
  <2> QED BY <1>3, <2>1, <2>2 DEF ListRunsFails
<1> QED BY <1>3, <1>7, <1>11, <1>12, <1>14, <1>15, <1>16, <1>17, RKFileStep DEF r, RKInv, RKTypeOK

\* publishRecord keeps the invariant.
LEMMA RKRecordKeeps ==
  ASSUME RKInv, NEW p \in RKProcs, publishRecord(p)
  PROVE  RKInv'
<1> DEFINE r == rkProc[p].run
           n == RKFileOf(p)
           at == IF RKAt(p, "link") THEN "linked" ELSE "whole"
           f == [rkFile[r][n] EXCEPT !.at = at]
           pc == IF RKAt(p, "link") THEN "unlink" ELSE "body"
<1>1. RKTypeOK /\ RKWay(p) /\ RKPhase(p)
  BY DEF RKInv
<1>2. /\ rkProc[p].pc \in {"link", "unlink"} /\ RKWrites(r, n, f) /\ RKGo(p, pc)
      /\ UNCHANGED <<rkRoot, rkMade, rkCopies, rkAuth, rkStage, rkDirs, rkHistory, rkTail, rkLease, rkAcked, rkFlock, rkDead>>
  BY DEF publishRecord, RKAt, RKWrites, rkNames
<1>3. /\ r \in RKRuns /\ n \in RKFileNames /\ rkRoot = "ready" /\ rkMade = RKObjects /\ "root" \notin rkCopies
      /\ ~(rkProc[p].gen > 0) /\ rkProc[p].op \in {"run", "attempt"} /\ rkProc[p].by \in RKProcs
      /\ (rkProc[p].op = "attempt" => rkFile[r]["run.json"].at = "whole")
  BY <1>1, <1>2 DEF RKWay, RKFileOf, RKFileNames
<1>4. /\ (n = "attempt" <=> rkProc[p].op = "attempt") /\ (n = "run.json" <=> rkProc[p].op = "run")
  BY <1>3 DEF RKFileOf
<1>5. /\ (rkProc[p].pc = "link" => at = "linked" /\ pc = "unlink") /\ (rkProc[p].pc = "unlink" => at = "whole" /\ pc = "body")
      /\ pc \in RKPC /\ pc \in RKHeld /\ rkProc[p].pc \in RKHeld /\ pc \in {"unlink", "body"} /\ at \in {"linked", "whole"}
  BY <1>2 DEF RKAt, RKPC, RKHeld
<1>6. rkFile[r][n].at \in {"temp", "linked"} /\ r \in rkDirs /\ rkAuth.state = "ESTABLISHED" /\ rkStage = NoRKStage
  BY <1>1, <1>2 DEF RKPhase
<1>7. rkFile[r][n] \in RKFile /\ rkFile[r][n].by \in RKProcs
  <2> HIDE DEF r, n
  <2>1. rkFile[r][n] \in RKFile
    BY <1>1, <1>3 DEF RKTypeOK
  <2>2. rkFile[r][n].by \in RKProcs
    BY <1>3, <1>6 DEF RKInv, RKFilesFit
  <2> QED BY <2>1, <2>2
<1>8. f \in RKFile /\ f.at = at /\ f.by = rkFile[r][n].by
  <2> HIDE DEF at, r, n
  <2> QED BY <1>5, <1>7 DEF RKFile
<1>9. PICK w \in RKProcess : /\ RKMovesTo(p, w) /\ w.pc = pc /\ w.op = rkProc[p].op /\ w.run = rkProc[p].run
                             /\ w.by = rkProc[p].by /\ w.gen = rkProc[p].gen
  <2> HIDE DEF pc
  <2> QED BY <1>1, <1>2, <1>5, RKGone
<1> HIDE DEF f, at, pc, n
<1>10. rkProc'[p] = w
  BY <1>1, <1>9, RKMoved
<1>11. /\ rkFile' \in [RKRuns -> [RKFileNames -> RKFile]] /\ RKFilesFit' /\ RKWholeStays /\ rkFile'[r][n] = f
       /\ \A q \in RKRuns, m \in RKFileNames : q # r \/ m # n => rkFile'[q][m] = rkFile[q][m]
  <2> HIDE DEF r
  <2>1. rkFile[r][n].at # "whole" /\ (n = "attempt" => rkFile[r]["run.json"].at = "whole") /\ f.by \in RKProcs
    BY <1>3, <1>4, <1>6, <1>7, <1>8
  <2> QED BY <1>1, <1>2, <1>3, <1>8, <2>1, RKWritten, RKWriteFits
<1>12. RKRegisteredOnce'
  BY <1>2, <1>11, RKAckedStays
<1>13. RKLocksFit'
  <2>1. w.pc # "down" /\ rkProc[p].pc # "down"
    BY <1>2, <1>5, <1>9
  <2> QED BY <1>2, <1>5, <1>9, <2>1, RKLocksStay
<1>14. RKPhase(p)'
  <2>1. w.pc = "unlink" => rkFile'[w.run][n].at = "linked"
    BY <1>2, <1>5, <1>8, <1>9, <1>11
  <2>2. RKFileOf(p)' = n
    BY <1>9, <1>10 DEF RKFileOf, n
  <2>3. w.pc \in {"unlink", "body"} /\ w.run \in rkDirs
    BY <1>5, <1>6, <1>9
  <2> QED BY <1>2, <1>6, <1>10, <2>1, <2>2, <2>3 DEF RKPhase, RKIssuing
<1>15. RKWay(p)'
  <2>1. w.op = "attempt" => rkFile'[w.run]["run.json"].at = "whole"
    <3>1. "run.json" \in RKFileNames
      BY DEF RKFileNames
    <3> QED BY <1>3, <1>9, <1>11, <3>1 DEF RKWholeStays
  <2>2. /\ w.op \in {"run", "attempt"} /\ w.by \in RKProcs /\ w.run \in RKRuns /\ ~(w.gen > 0)
        /\ w.pc \in {"unlink", "body"}
    BY <1>3, <1>5, <1>9
  <2> QED BY <1>2, <1>3, <1>10, <2>1, <2>2 DEF RKWay, RKIssuing
<1>16. rkDead = 0 => \A q \in RKRuns : ~ListRunsFails(q)'
  <2>1. rkDead = 0 => \A q \in RKRuns : ListRunsFails(q) => rkProc[p].run = q /\ rkProc[p].op = "run"
    BY <1>5, RKHolderIssues
  <2>2. "run.json" \in RKFileNames
    BY DEF RKFileNames
  <2>3. rkProc[p].op = "run" => rkFile'[r]["run.json"].at \in {"linked", "whole"}
    BY <1>4, <1>5, <1>8, <1>11
  <2>4. \A q \in RKRuns : ListRunsFails(q)' => q # r \/ rkProc[p].op # "run"
    BY <2>3 DEF ListRunsFails
  <2>5. \A q \in RKRuns : (q # r \/ rkProc[p].op # "run") /\ ListRunsFails(q)' => ListRunsFails(q)
    BY <1>2, <1>3, <1>4, <1>11, <2>2 DEF ListRunsFails
  <2> QED BY <1>2, <2>1, <2>4, <2>5
<1> QED BY <1>2, <1>9, <1>11, <1>12, <1>13, <1>14, <1>15, <1>16, RKFileStep DEF RKInv, RKTypeOK

\* createOrByteVerify keeps the invariant.
LEMMA RKVerifyKeeps ==
  ASSUME RKInv, NEW p \in RKProcs, createOrByteVerify(p)
  PROVE  RKInv'
<1> DEFINE r == rkProc[p].run
           n == RKFileOf(p)
           f == RKRecovered(rkFile[r][n])
           Fails == \/ r \notin rkDirs /\ n = "attempt"
                    \/ r \in rkDirs /\ f.at = "whole"
                    \/ n = "attempt"
           Acks == /\ r \in rkDirs /\ f.at = "whole" /\ f.by = rkProc[p].by
                   /\ RKWrites(r, n, f) /\ RKUnlock(p)
                   /\ rkProc' = [rkProc EXCEPT ![p].pc = "lock", ![p].by = NoRKProc,
                                               ![p].op = IF n = "run.json" THEN "read attempt" ELSE "own"]
                   /\ rkAcked' = IF n = "run.json" THEN rkAcked \cup {<<r, rkProc[p].by>>} ELSE rkAcked
                   /\ UNCHANGED <<rkRoot, rkMade, rkCopies, rkNames, rkLease, rkDead>>
           Creates == /\ r \in rkDirs /\ f.at = "none"
                      /\ RKWrites(r, n, [at |-> "temp", by |-> rkProc[p].by]) /\ RKGo(p, "link")
                      /\ UNCHANGED <<rkRoot, rkMade, rkCopies, rkNames, rkLease, rkAcked, rkFlock, rkDead>>
<1>1. RKTypeOK /\ RKWay(p) /\ RKPhase(p)
  BY DEF RKInv
<1>2. rkProc[p] \in RKProcess
  BY <1>1, RKProcTyped
<1>3. /\ rkProc[p].pc = "body" /\ rkProc[p].op \in {"run", "attempt"}
      /\ (Fails /\ RKFail(p)) \/ Acks \/ Creates
  BY Zenon DEF createOrByteVerify, RKAt, RKRead, RKWrites
<1>4. /\ r \in RKRuns /\ n \in RKFileNames /\ rkRoot = "ready" /\ rkMade = RKObjects /\ "root" \notin rkCopies
      /\ ~(rkProc[p].gen > 0) /\ rkProc[p].by \in RKProcs
      /\ (rkProc[p].op = "attempt" => rkFile[r]["run.json"].at = "whole")
  BY <1>1, <1>3 DEF RKWay, RKFileOf, RKFileNames
<1>5. /\ (n = "attempt" <=> rkProc[p].op = "attempt") /\ (n = "run.json" <=> rkProc[p].op = "run")
  BY <1>3 DEF RKFileOf
<1>6. /\ f \in RKFile /\ f.at \in {"none", "whole"} /\ (rkFile[r][n].at = "whole" => f = rkFile[r][n])
      /\ (f.at = "whole" <=> rkFile[r][n].at \in {"linked", "whole"}) /\ (f.at # "none" => f.by \in RKProcs)
  <2> HIDE DEF r, n
  <2> QED BY <1>4, RKRecoveredFits
<1>7. rkAuth.state = "ESTABLISHED" /\ rkStage = NoRKStage
  BY <1>1, <1>3 DEF RKPhase
<1>8. rkProc[p].pc \in RKHeld /\ rkProc[p].pc \notin RKIssuing /\ "run.json" \in RKFileNames
  BY <1>3 DEF RKHeld, RKIssuing, RKFileNames
<1>9. rkDead = 0 => \A q \in RKRuns : ListRunsFails(q) => r = q /\ rkProc[p].op = "run"
  BY <1>8, RKHolderIssues
<1>10. CASE Fails /\ RKFail(p)
  <2>1. rkProc[p].op = "run" => rkFile[r]["run.json"].at \in {"linked", "whole"}
    <3> HIDE DEF f, n, r
    <3> QED BY <1>5, <1>6, <1>10
  <2>2. rkProc[p].op = "run" => ~ListRunsFails(r)
    BY <2>1 DEF ListRunsFails
  <2> QED BY <1>3, <1>8, <1>10, <2>2, RKFailKeeps
<1>11. CASE Acks
  <2> DEFINE op == IF n = "run.json" THEN "read attempt" ELSE "own"
             w == [rkProc[p] EXCEPT !.pc = "lock", !.by = NoRKProc, !.op = op]
  <2>1. /\ r \in rkDirs /\ f.at = "whole" /\ f.by = rkProc[p].by /\ RKWrites(r, n, f)
        /\ rkFlock' = [rkFlock EXCEPT !["catalog"] = NoRKProc] /\ RKMovesTo(p, w)
        /\ rkAcked' = (IF n = "run.json" THEN rkAcked \cup {<<r, rkProc[p].by>>} ELSE rkAcked)
        /\ UNCHANGED <<rkRoot, rkMade, rkCopies, rkAuth, rkStage, rkDirs, rkHistory, rkTail, rkLease, rkDead>>
    BY <1>11 DEF RKUnlock, RKMovesTo, rkNames
  <2>2. op \in {"read attempt", "own"} /\ (op = "own" => n = "attempt") /\ op \in RKOp
    BY <1>4 DEF RKFileNames, RKOp
  <2>3. w \in RKProcess /\ w.pc = "lock" /\ w.op = op /\ w.run = r /\ w.gen = rkProc[p].gen
    <3> HIDE DEF op
    <3> QED BY <1>2, <2>2 DEF RKProcess, RKPC
  <2> HIDE DEF w, op, f, n
  <2>4. rkProc'[p] = w
    BY <1>1, <2>1, <2>3, RKMoved
  <2>5. /\ rkFile' \in [RKRuns -> [RKFileNames -> RKFile]] /\ RKFilesFit' /\ RKWholeStays /\ rkFile'[r][n] = f
        /\ \A q \in RKRuns, m \in RKFileNames : q # r \/ m # n => rkFile'[q][m] = rkFile[q][m]
    <3> HIDE DEF r
    <3>1. (n = "attempt" => rkFile[r]["run.json"].at = "whole") /\ f.by \in RKProcs
      BY <1>4, <1>5, <2>1
    <3> QED BY <1>1, <1>4, <1>6, <2>1, <3>1, RKWritten, RKWriteFits
  <2>6. rkFile'[r]["run.json"].at = "whole"
    BY <1>4, <1>5, <1>8, <2>1, <2>5 DEF RKWholeStays, RKFileNames
  <2>7. rkAcked' \subseteq RKRuns \X RKProcs
    BY <1>1, <1>4, <2>1 DEF RKTypeOK
  <2>8. RKRegisteredOnce'
    <3>1. \A a \in rkAcked : rkFile'[a[1]]["run.json"] = [at |-> "whole", by |-> a[2]] /\ a[1] \in rkDirs
      <4>1. RKRegisteredOnce
        BY DEF RKInv
      <4>2. \A a \in rkAcked : a[1] \in RKRuns /\ rkFile[a[1]]["run.json"] = [at |-> "whole", by |-> a[2]] /\ a[1] \in rkDirs
        BY <1>1, <4>1 DEF RKTypeOK, RKRegisteredOnce
      <4> SUFFICES ASSUME NEW a \in rkAcked
                   PROVE  rkFile'[a[1]]["run.json"] = [at |-> "whole", by |-> a[2]] /\ a[1] \in rkDirs
        OBVIOUS
      <4>3. a[1] \in RKRuns /\ rkFile[a[1]]["run.json"] = [at |-> "whole", by |-> a[2]] /\ a[1] \in rkDirs
        BY <4>2
      <4>4. rkFile[a[1]]["run.json"].at = "whole"
        BY <4>3
      <4> QED BY <1>8, <2>5, <4>3, <4>4 DEF RKWholeStays
    <3>2. f = [at |-> "whole", by |-> rkProc[p].by]
      BY <1>6, <2>1 DEF RKFile
    <3>3. n = "run.json" => rkFile'[r]["run.json"] = [at |-> "whole", by |-> rkProc[p].by]
      BY <2>5, <3>2
    <3> DEFINE b == <<r, rkProc[p].by>>
    <3>4. b[1] = r /\ b[2] = rkProc[p].by
      OBVIOUS
    <3>5. rkAcked' = rkAcked \/ (n = "run.json" /\ rkAcked' = rkAcked \cup {b})
      BY <2>1
    <3> HIDE DEF b, r
    <3>6. \A a \in rkAcked' : a \in rkAcked \/ (n = "run.json" /\ a = b)
      BY <3>5
    <3>7. n = "run.json" => rkFile'[b[1]]["run.json"] = [at |-> "whole", by |-> b[2]] /\ b[1] \in rkDirs
      BY <2>1, <3>3, <3>4
    <3> QED BY <2>1, <3>1, <3>6, <3>7 DEF RKRegisteredOnce
  <2>9. w.pc \notin RKHeld
    BY <2>3 DEF RKHeld
  <2>10. RKLocksFit' /\ rkFlock' \in [{"root", "catalog"} -> RKProcs \cup {NoRKProc}]
    BY <1>3, <1>8, <2>1, <2>2, <2>3, <2>9, RKLockMoves
  <2>11. RKPhase(p)'
    BY <2>3, <2>4 DEF RKPhase, RKIssuing
  <2>12. RKWay(p)'
    <3>1. w.op \in {"read attempt", "own"} /\ w.run \in RKRuns /\ ~(w.gen > 0) /\ rkFile'[w.run]["run.json"].at = "whole"
      BY <1>4, <2>2, <2>3, <2>6
    <3> QED BY <1>4, <2>1, <2>3, <2>4, <3>1 DEF RKWay, RKIssuing
  <2>13. rkDead = 0 => \A q \in RKRuns : ~ListRunsFails(q)'
    <3>1. \A q \in RKRuns : ListRunsFails(q)' => q # r
      BY <2>6 DEF ListRunsFails
    <3>2. \A q \in RKRuns : q # r /\ ListRunsFails(q)' => ListRunsFails(q)
      BY <1>8, <2>1, <2>5 DEF ListRunsFails
    <3> QED BY <1>9, <3>1, <3>2
  <2> QED BY <1>3, <2>1, <2>3, <2>5, <2>7, <2>8, <2>10, <2>11, <2>12, <2>13, RKFileStep DEF r
<1>12. CASE Creates
  <2> DEFINE g == [at |-> "temp", by |-> rkProc[p].by]
  <2>1. /\ r \in rkDirs /\ f.at = "none" /\ RKWrites(r, n, g) /\ RKGo(p, "link")
        /\ UNCHANGED <<rkRoot, rkMade, rkCopies, rkAuth, rkStage, rkDirs, rkHistory, rkTail, rkLease, rkAcked, rkFlock, rkDead>>
    BY <1>12 DEF rkNames
  <2>2. g \in RKFile /\ g.at = "temp" /\ g.by = rkProc[p].by
    BY <1>4 DEF RKFile
  <2>3. PICK w \in RKProcess : /\ RKMovesTo(p, w) /\ w.pc = "link" /\ w.op = rkProc[p].op /\ w.run = rkProc[p].run
                               /\ w.by = rkProc[p].by /\ w.gen = rkProc[p].gen
    BY <1>1, <2>1, RKGone DEF RKPC
  <2> HIDE DEF g, f, n
  <2>4. rkProc'[p] = w
    BY <1>1, <2>3, RKMoved
  <2>5. rkFile[r][n].at \notin {"linked", "whole"}
    BY <1>6, <2>1
  <2>6. /\ rkFile' \in [RKRuns -> [RKFileNames -> RKFile]] /\ RKFilesFit' /\ RKWholeStays /\ rkFile'[r][n] = g
        /\ \A q \in RKRuns, m \in RKFileNames : q # r \/ m # n => rkFile'[q][m] = rkFile[q][m]
    <3> HIDE DEF r
    <3>1. (n = "attempt" => rkFile[r]["run.json"].at = "whole") /\ g.by \in RKProcs
      BY <1>4, <1>5, <2>2
    <3> QED BY <1>1, <1>4, <2>1, <2>2, <2>5, <3>1, RKWritten, RKWriteFits
  <2>7. RKRegisteredOnce'
    BY <2>1, <2>6, RKAckedStays
  <2>8. w.pc \in RKHeld /\ w.pc # "down" /\ w.pc \in RKUnlisted
    BY <2>3 DEF RKHeld, RKUnlisted
  <2>9. RKLocksFit'
    BY <1>3, <1>8, <2>1, <2>3, <2>8, RKLocksStay
  <2>10. RKPhase(p)'
    <3>1. RKFileOf(p)' = n
      BY <2>3, <2>4 DEF RKFileOf, n
    <3> QED BY <1>7, <2>1, <2>2, <2>3, <2>4, <2>6, <3>1 DEF RKPhase, RKIssuing
  <2>11. RKWay(p)'
    <3>1. w.op = "attempt" => rkFile'[w.run]["run.json"].at = "whole"
      BY <1>4, <1>8, <2>3, <2>6 DEF RKWholeStays
    <3>2. w.op \in {"run", "attempt"} /\ w.by \in RKProcs /\ w.run \in RKRuns /\ ~(w.gen > 0)
      BY <1>3, <1>4, <2>3
    <3> QED BY <1>4, <2>1, <2>3, <2>4, <3>1, <3>2 DEF RKWay, RKIssuing
  <2>12. rkDead = 0 => \A q \in RKRuns : ListRunsFails(q)' => w.run = q /\ w.op = "run"
    <3>1. \A q \in RKRuns : rkFile[q]["run.json"].at \in {"linked", "whole"} => rkFile'[q]["run.json"] = rkFile[q]["run.json"]
      BY <1>8, <2>5, <2>6
    <3>2. \A q \in RKRuns : ListRunsFails(q)' => ListRunsFails(q)
      BY <2>1, <3>1 DEF ListRunsFails
    <3> QED BY <1>9, <2>3, <3>2
  <2> QED BY <1>3, <2>1, <2>3, <2>6, <2>7, <2>8, <2>9, <2>10, <2>11, <2>12, RKFileStep DEF RKInv, RKTypeOK
<1> QED BY <1>3, <1>10, <1>11, <1>12

-----------------------------------------------------------------------------
(* The owner leases. *)

\* The lease of one run changes.
RKReleases(r, l) == rkLease' = [rkLease EXCEPT ![r] = l]

\* What a step on one lease leaves.
LEMMA RKLeased ==
  ASSUME RKTypeOK, NEW r \in RKRuns, NEW l \in RKLeases, RKReleases(r, l)
  PROVE  rkLease' \in [RKRuns -> RKLeases] /\ rkLease'[r] = l /\ \A q \in RKRuns : q # r => rkLease'[q] = rkLease[q]
BY DEF RKTypeOK, RKReleases, RKLeases

\* A process that owns a run has its lease, which is not retired.
LEMMA RKOwnerHas ==
  ASSUME RKInv, NEW p \in RKProcs, rkProc[p].op = "close" \/ rkProc[p].gen > 0
  PROVE  /\ rkProc[p].op = "close" /\ rkProc[p].gen > 0 /\ rkProc[p].run \in RKRuns
         /\ rkLease[rkProc[p].run].gen = rkProc[p].gen
         /\ rkLease[rkProc[p].run].state = IF rkProc[p].pc = "retire" THEN "CLOSING" ELSE "ACTIVE"
<1>1. RKWay(p)
  BY DEF RKInv
<1>2. rkProc[p].op = "close" /\ rkProc[p].gen > 0
  BY <1>1 DEF RKWay
<1>3. rkProc[p].pc # "down"
  BY <1>1, <1>2, RKDownTyped DEF RKWay
<1>4. rkProc[p].run \in RKRuns
  BY <1>1, <1>3 DEF RKWay
<1>5. rkLease[rkProc[p].run] = [gen |-> rkProc[p].gen, state |-> IF rkProc[p].pc = "retire" THEN "CLOSING" ELSE "ACTIVE"]
  BY <1>1, <1>2 DEF RKWay
<1> QED BY <1>2, <1>4, <1>5

\* A step on the lease of the process's own run.
LEMMA RKLeaseStep ==
  ASSUME RKInv, NEW p \in RKProcs, NEW w \in RKProcess, RKMovesTo(p, w), rkProc[p].pc \in {"body", "retire"},
         rkProc[p].op \in {"own", "close"}, NEW l \in RKLeases, RKReleases(rkProc[p].run, l),
         UNCHANGED <<rkRoot, rkMade, rkCopies, rkAuth, rkStage, rkDirs, rkHistory, rkTail, rkFile, rkAcked, rkDead>>,
         l.gen > 0 => rkFile[rkProc[p].run]["attempt"].at = "whole",
         \A q \in RKProcs : q # p /\ rkProc[q].op = "close" => rkProc[q].run # rkProc[p].run,
         RKOwnersFit', RKLocksFit', rkFlock' \in [{"root", "catalog"} -> RKProcs \cup {NoRKProc}], RKWay(p)', RKPhase(p)'
  PROVE  RKInv'
<1>1. RKTypeOK /\ RKWay(p)
  BY DEF RKInv
<1>2. rkProc' \in [RKProcs -> RKProcess] /\ rkProc'[p] = w
  BY <1>1, RKMoved
<1>3. rkProc[p].run \in RKRuns
  BY <1>1 DEF RKWay
<1>4. rkLease' \in [RKRuns -> RKLeases] /\ rkLease'[rkProc[p].run] = l /\ \A q \in RKRuns : q # rkProc[p].run => rkLease'[q] = rkLease[q]
  BY <1>1, <1>3, RKLeased
<1>5. rkProc[p].pc \in RKHeld /\ rkProc[p].pc \notin RKIssuing
  BY DEF RKHeld, RKIssuing
<1>6. RKMonotone(p)
  <2>1. \A q \in RKProcs : q # p /\ rkProc[q].op = "close" => rkLease'[rkProc[q].run] = rkLease[rkProc[q].run]
    <3> SUFFICES ASSUME NEW q \in RKProcs, q # p, rkProc[q].op = "close"
                 PROVE  rkLease'[rkProc[q].run] = rkLease[rkProc[q].run]
      OBVIOUS
    <3>1. rkProc[q].run \in RKRuns
      BY RKOwnerHas
    <3> QED BY <1>4, <3>1
  <2> QED BY <2>1 DEF RKMonotone
<1>7. RKTypeOK'
  <2>1. rkProc' \in [RKProcs -> [pc : RKPC, op : RKOp, run : RKRuns \cup {NoRKRun}, by : RKProcs \cup {NoRKProc}, gen : 0..RKGens]]
    BY <1>2 DEF RKProcess
  <2>2. rkLease' \in [RKRuns -> [gen : 0..RKGens, state : {"ACTIVE", "CLOSING", "RETIRED"}]]
    BY <1>4 DEF RKLeases
  <2> QED BY <1>1, <2>1, <2>2 DEF RKTypeOK
<1>8. RKDiskFits'
  <2>1. RKNamed' = RKNamed
    BY DEF RKNamed
  <2>2. RKDiskFits
    BY DEF RKInv
  <2>3. ~RKIntegrity'
    BY <2>2 DEF RKDiskFits, RKIntegrity
  <2> QED BY <2>1, <2>2, <2>3 DEF RKDiskFits
<1>9. RKFilesFit'
  <2>1. RKFilesFit
    BY DEF RKInv
  <2>2. \A q \in RKRuns : rkLease'[q].gen > 0 => rkFile[q]["attempt"].at = "whole"
    <3> SUFFICES ASSUME NEW q \in RKRuns, rkLease'[q].gen > 0
                 PROVE  rkFile[q]["attempt"].at = "whole"
      OBVIOUS
    <3>1. CASE q = rkProc[p].run
      BY <1>4, <3>1
    <3>2. CASE q # rkProc[p].run
      BY <1>4, <2>1, <3>2 DEF RKFilesFit
    <3> QED BY <3>1, <3>2
  <2> QED BY <2>1, <2>2 DEF RKFilesFit
<1>10. RKRegisteredOnce'
  BY DEF RKInv, RKRegisteredOnce
<1>11. RKListFits'
  BY <1>5, RKListStays
<1> QED BY <1>5, <1>6, <1>7, <1>8, <1>9, <1>10, <1>11, RKTogether

\* Install keeps the invariant.
LEMMA RKInstallKeeps ==
  ASSUME RKInv, NEW p \in RKProcs, Install(p)
  PROVE  RKInv'
<1> DEFINE r == rkProc[p].run
           l == [gen |-> rkLease[r].gen + 1, state |-> "ACTIVE"]
           w == [rkProc[p] EXCEPT !.pc = "lock", !.op = "close", !.gen = rkLease[r].gen + 1]
           May == /\ rkFile[r]["attempt"].at = "whole" /\ rkLease[r].state = "RETIRED"
                  /\ Cardinality(RKActive) < RKOwners /\ rkLease[r].gen < RKGens
                  /\ rkFlock' = [rkFlock EXCEPT !["catalog"] = NoRKProc] /\ RKReleases(r, l) /\ RKMovesTo(p, w)
                  /\ UNCHANGED <<rkRoot, rkMade, rkCopies, rkAuth, rkStage, rkDirs, rkHistory, rkTail, rkFile, rkAcked, rkDead>>
<1>1. RKTypeOK /\ RKWay(p) /\ RKPhase(p) /\ RKOwnersFit
  BY DEF RKInv
<1>2. rkProc[p].pc = "body" /\ rkProc[p].op = "own" /\ (RKFail(p) \/ May)
  BY DEF Install, RKAt, RKReleases, RKMovesTo, RKUnlock, rkNames
<1>3. rkProc[p] \in RKProcess /\ r \in RKRuns
  BY <1>1, <1>2, RKProcTyped DEF RKWay
<1>4. rkProc[p].pc \notin RKIssuing /\ rkProc[p].pc \in RKHeld
  BY <1>2 DEF RKIssuing, RKHeld
<1>5. CASE RKFail(p)
  BY <1>2, <1>4, <1>5, RKFailKeeps
<1>6. CASE May
  <2>1. rkLease[r] \in RKLeases
    BY <1>1, <1>3 DEF RKTypeOK, RKLeases
  <2>2. rkLease[r].gen \in 0..RKGens
    BY <2>1 DEF RKLeases
  <2>3. rkLease[r].gen + 1 \in 0..RKGens /\ rkLease[r].gen + 1 > 0
    BY <1>6, <2>2, RKBounds
  <2> DEFINE g == rkLease[r].gen + 1
  <2> HIDE DEF g
  <2>4. l \in RKLeases /\ l.gen = g /\ l.state = "ACTIVE"
    BY <2>3 DEF RKLeases, g
  <2>5. w \in RKProcess /\ w.pc = "lock" /\ w.op = "close" /\ w.run = r /\ w.gen = g
    <3>1. g \in 0..RKGens /\ w = [rkProc[p] EXCEPT !.pc = "lock", !.op = "close", !.gen = g]
      BY <2>3 DEF g
    <3> HIDE DEF w
    <3> QED BY <1>3, <3>1 DEF RKProcess, RKPC, RKOp
  <2>6. g > 0 /\ g \in Nat
    BY <2>2, <2>3, RKBounds DEF g
  <2>7. l = [gen |-> g, state |-> "ACTIVE"]
    BY DEF g
  <2>8. /\ RKReleases(r, l) /\ RKMovesTo(p, w) /\ rkFlock' = [rkFlock EXCEPT !["catalog"] = NoRKProc]
        /\ UNCHANGED <<rkRoot, rkMade, rkCopies, rkAuth, rkStage, rkDirs, rkHistory, rkTail, rkFile, rkAcked, rkDead>>
        /\ rkFile[r]["attempt"].at = "whole" /\ rkLease[r].state = "RETIRED" /\ Cardinality(RKActive) < RKOwners
    BY <1>6
  <2> HIDE DEF l, w, May
  <2>9. rkProc'[p] = w /\ \A q \in RKProcs : q # p => rkProc'[q] = rkProc[q]
    BY <1>1, <2>5, <2>8, RKMoved
  <2>10. rkLease'[r] = l /\ \A q \in RKRuns : q # r => rkLease'[q] = rkLease[q]
    BY <1>1, <1>3, <2>4, <2>8, RKLeased
  <2>11. \A q \in RKProcs : rkProc[q].op = "close" \/ rkProc[q].gen > 0 => rkProc[q].run # r
    <3> SUFFICES ASSUME NEW q \in RKProcs, rkProc[q].op = "close" \/ rkProc[q].gen > 0, rkProc[q].run = r
                 PROVE  FALSE
      OBVIOUS
    <3>1. rkLease[r].state \in {"ACTIVE", "CLOSING"}
      BY RKOwnerHas
    <3> QED BY <2>8, <3>1
  <2>12. RKActive' = RKActive \cup {r} /\ r \notin RKActive
    BY <1>3, <2>4, <2>8, <2>10 DEF RKActive
  <2>13. r \in RKOwned' /\ RKOwned \subseteq RKOwned'
    <3>1. w.gen > 0 /\ ~(rkProc[p].gen > 0)
      BY <1>1, <1>2, <2>5, <2>6 DEF RKWay
    <3> QED BY <2>5, <2>9, <3>1 DEF RKOwned
  <2>14. RKLost' \subseteq RKLost
    BY <2>12, <2>13 DEF RKLost
  <2>15. IsFiniteSet(RKActive) /\ Cardinality(RKLost) <= rkDead /\ RKLost \subseteq RKActive
    BY <1>1 DEF RKOwnersFit, RKLost
  <2>16. IsFiniteSet(RKActive') /\ Cardinality(RKActive') = Cardinality(RKActive) + 1
    BY <2>12, <2>15, FS_AddElement
  <2>17. Cardinality(RKActive) \in Nat
    BY <2>15, FS_CardinalityType
  <2>18. Cardinality(RKActive') <= RKOwners
    BY <2>8, <2>16, <2>17, RKBounds
  <2>19. Cardinality(RKLost') <= Cardinality(RKLost) /\ IsFiniteSet(RKLost) /\ IsFiniteSet(RKLost')
    BY <2>14, <2>15, FS_Subset
  <2>20. rkDead \in Nat /\ Cardinality(RKLost) \in Nat /\ Cardinality(RKLost') \in Nat
    BY <1>1, <2>19, FS_CardinalityType, RKBounds DEF RKTypeOK
  <2>21. Cardinality(RKLost') <= rkDead'
    BY <2>8, <2>15, <2>19, <2>20
  <2>22. \A q \in RKRuns : rkLease'[q].state # "RETIRED" => rkLease'[q].gen > 0
    <3>1. \A q \in RKRuns : q # r => (rkLease'[q].state # "RETIRED" => rkLease'[q].gen > 0)
      BY <1>1, <2>10 DEF RKOwnersFit
    <3>2. rkLease'[r].gen > 0
      BY <2>4, <2>6, <2>10
    <3> QED BY <3>1, <3>2
  <2>23. \A a, b \in RKProcs : rkProc'[a].gen > 0 /\ rkProc'[b].gen > 0 /\ rkProc'[a].run = rkProc'[b].run => a = b
    <3>1. \A q \in RKProcs : q # p /\ rkProc'[q].gen > 0 => rkProc'[q].run # w.run
      BY <2>5, <2>9, <2>11
    <3>2. \A a, b \in RKProcs : a # p /\ b # p /\ rkProc'[a].gen > 0 /\ rkProc'[b].gen > 0 /\ rkProc'[a].run = rkProc'[b].run => a = b
      BY <1>1, <2>9 DEF RKOwnersFit
    <3> QED BY <2>9, <3>1, <3>2
  <2>24. RKOwnersFit'
    BY <2>16, <2>18, <2>21, <2>22, <2>23 DEF RKOwnersFit
  <2>25. w.pc \notin RKHeld
    BY <2>5 DEF RKHeld
  <2>26. RKLocksFit' /\ rkFlock' \in [{"root", "catalog"} -> RKProcs \cup {NoRKProc}]
    BY <1>2, <1>4, <2>5, <2>8, <2>25, RKLockMoves
  <2>27. RKPhase(p)'
    BY <2>5, <2>9 DEF RKPhase, RKIssuing
  <2>28. RKWay(p)'
    <3>1. /\ rkRoot = "ready" /\ rkMade = RKObjects /\ "root" \notin rkCopies /\ rkFile[r]["run.json"].at = "whole"
      BY <1>1, <1>2 DEF RKWay
    <3>2. w.gen > 0 /\ rkLease'[w.run] = [gen |-> w.gen, state |-> "ACTIVE"]
      BY <2>5, <2>6, <2>7, <2>10
    <3> QED BY <1>3, <2>5, <2>8, <2>9, <3>1, <3>2 DEF RKWay, RKIssuing
  <2> QED BY <1>2, <1>3, <2>4, <2>5, <2>8, <2>11, <2>24, <2>26, <2>27, <2>28, RKLeaseStep
<1> QED BY <1>2, <1>5, <1>6

\* retireRuntimeOwner keeps the invariant; its error is not reached.
LEMMA RKRetireKeeps ==
  ASSUME RKInv, NEW p \in RKProcs, retireRuntimeOwner(p)
  PROVE  RKInv'
<1> DEFINE r == rkProc[p].run
           from == IF RKAt(p, "retire") THEN "CLOSING" ELSE "ACTIVE"
           l == [rkLease[r] EXCEPT !.state = IF from = "ACTIVE" THEN "CLOSING" ELSE "RETIRED"]
<1>1. RKTypeOK /\ RKWay(p) /\ RKPhase(p) /\ RKOwnersFit
  BY DEF RKInv
<1>2. rkProc[p].pc \in {"body", "retire"} /\ rkProc[p].op = "close"
  BY <1>1 DEF retireRuntimeOwner, RKAt, RKWay
<1>3. /\ rkProc[p].gen > 0 /\ r \in RKRuns /\ rkLease[r].gen = rkProc[p].gen
      /\ rkLease[r].state = IF rkProc[p].pc = "retire" THEN "CLOSING" ELSE "ACTIVE"
  BY <1>2, RKOwnerHas
<1>4. rkLease[r].state = from
  BY <1>3 DEF RKAt
<1>5. /\ RKReleases(r, l)
      /\ IF from = "ACTIVE" THEN RKGo(p, "retire") /\ UNCHANGED rkFlock
         ELSE RKMovesTo(p, RKDown) /\ rkFlock' = [rkFlock EXCEPT !["catalog"] = NoRKProc]
      /\ UNCHANGED <<rkRoot, rkMade, rkCopies, rkAuth, rkStage, rkDirs, rkHistory, rkTail, rkFile, rkAcked, rkDead>>
  <2> HIDE DEF from
  <2>1. ~(rkLease[r].gen # rkProc[p].gen \/ rkLease[r].state # from)
    BY <1>3, <1>4
  <2> QED BY <2>1 DEF retireRuntimeOwner, RKReleases, RKMovesTo, RKUnlock, rkNames, from
<1>6. rkLease[r] \in RKLeases /\ rkProc[p] \in RKProcess
  BY <1>1, <1>3, RKProcTyped DEF RKTypeOK, RKLeases
<1>7. /\ l \in RKLeases /\ l.gen = rkLease[r].gen
      /\ l.state = IF from = "ACTIVE" THEN "CLOSING" ELSE "RETIRED"
  <2> HIDE DEF from
  <2> QED BY <1>6 DEF RKLeases
<1>8. from \in {"ACTIVE", "CLOSING"} /\ (from = "CLOSING" <=> rkProc[p].pc = "retire")
  BY DEF RKAt
<1> HIDE DEF l, from
<1>9. rkLease'[r] = l /\ \A q \in RKRuns : q # r => rkLease'[q] = rkLease[q]
  BY <1>1, <1>3, <1>5, <1>7, RKLeased
<1>10. \A q \in RKProcs : q # p /\ (rkProc[q].op = "close" \/ rkProc[q].gen > 0) => rkProc[q].run # r
  <2> SUFFICES ASSUME NEW q \in RKProcs, q # p, rkProc[q].op = "close" \/ rkProc[q].gen > 0
               PROVE  rkProc[q].run # r
    OBVIOUS
  <2>1. rkProc[q].gen > 0
    BY RKOwnerHas
  <2> QED BY <1>1, <1>3, <2>1 DEF RKOwnersFit
<1>11. /\ rkRoot = "ready" /\ rkMade = RKObjects /\ "root" \notin rkCopies /\ rkFile[r]["run.json"].at = "whole"
       /\ rkAuth.state = "ESTABLISHED" /\ rkStage = NoRKStage
  BY <1>1, <1>2 DEF RKWay, RKPhase
<1>12. rkFile[r]["attempt"].at = "whole"
  <2>1. rkLease[r].gen > 0
    BY <1>3
  <2> QED BY <1>3, <2>1 DEF RKInv, RKFilesFit
<1>13. \A q \in RKRuns : rkLease'[q].gen = rkLease[q].gen
  BY <1>7, <1>9
<1>14. \A q \in RKRuns : rkLease'[q].state # "RETIRED" => rkLease'[q].gen > 0
  <2>1. \A q \in RKRuns : rkLease'[q].state # "RETIRED" => rkLease[q].state # "RETIRED"
    BY <1>4, <1>8, <1>9
  <2> QED BY <1>1, <1>13, <2>1 DEF RKOwnersFit
<1>15. rkProc[p].pc \in RKHeld
  BY <1>2 DEF RKHeld
<1>16. RKOwned \subseteq RKRuns /\ r \in RKOwned
  <2>1. \A q \in RKProcs : rkProc[q].gen > 0 => rkProc[q].run \in RKRuns
    BY RKOwnerHas
  <2> QED BY <1>3, <2>1 DEF RKOwned
<1>17. CASE from = "ACTIVE"
  <2>1. PICK w \in RKProcess : /\ RKMovesTo(p, w) /\ w.pc = "retire" /\ w.op = rkProc[p].op /\ w.run = rkProc[p].run
                               /\ w.by = rkProc[p].by /\ w.gen = rkProc[p].gen
    BY <1>1, <1>5, <1>17, RKGone DEF RKPC
  <2>2. rkProc'[p] = w /\ \A q \in RKProcs : q # p => rkProc'[q] = rkProc[q]
    BY <1>1, <2>1, RKMoved
  <2>3. RKActive' = RKActive
    BY <1>3, <1>4, <1>7, <1>9, <1>17 DEF RKActive
  <2>4. \A q \in RKProcs : rkProc'[q].gen = rkProc[q].gen /\ rkProc'[q].run = rkProc[q].run
    BY <2>1, <2>2
  <2>5. RKOwned' = RKOwned
    BY <2>4 DEF RKOwned
  <2>6. RKLost' = RKLost
    BY <2>3, <2>5 DEF RKLost
  <2>7. RKOwnersFit'
    BY <1>1, <1>5, <1>14, <2>3, <2>4, <2>6 DEF RKOwnersFit
  <2>8. w.pc \in RKHeld
    BY <2>1 DEF RKHeld
  <2>9. RKLocksFit' /\ rkFlock' \in [{"root", "catalog"} -> RKProcs \cup {NoRKProc}]
    <3>1. RKLocksFit'
      BY <1>2, <1>5, <1>15, <1>17, <2>1, <2>8, RKLocksStay
    <3> QED BY <1>1, <1>5, <1>17, <3>1 DEF RKTypeOK
  <2>10. RKPhase(p)'
    BY <1>5, <1>11, <2>1, <2>2 DEF RKPhase, RKIssuing
  <2>11. RKWay(p)'
    <3>1. l = [gen |-> w.gen, state |-> "CLOSING"]
      BY <1>3, <1>7, <1>17, <2>1 DEF RKLeases
    <3>2. w.gen > 0 /\ w.run = r
      BY <1>3, <2>1
    <3> QED BY <1>2, <1>3, <1>5, <1>9, <1>11, <2>1, <2>2, <3>1, <3>2 DEF RKWay, RKIssuing
  <2> QED BY <1>2, <1>5, <1>7, <1>10, <1>12, <2>1, <2>7, <2>9, <2>10, <2>11, RKLeaseStep
<1>18. CASE from = "CLOSING"
  <2>1. RKMovesTo(p, RKDown) /\ rkFlock' = [rkFlock EXCEPT !["catalog"] = NoRKProc] /\ l.state = "RETIRED"
    BY <1>5, <1>7, <1>18
  <2>2. rkProc'[p] = RKDown /\ \A q \in RKProcs : q # p => rkProc'[q] = rkProc[q]
    BY <1>1, <2>1, RKMoved, RKDownTyped
  <2>3. RKActive' = RKActive \ {r}
    BY <1>3, <1>9, <2>1 DEF RKActive
  <2>4. \A q \in RKProcs : rkProc'[q].gen > 0 => q # p /\ rkProc'[q] = rkProc[q]
    BY <2>2, RKDownTyped
  <2>5. \A o \in RKOwned : o # r => o \in RKOwned'
    BY <2>2 DEF RKOwned
  <2>6. RKLost' \subseteq RKLost
    BY <1>16, <2>3, <2>5 DEF RKLost
  <2>7. IsFiniteSet(RKActive) /\ Cardinality(RKActive) <= RKOwners /\ Cardinality(RKLost) <= rkDead /\ RKLost \subseteq RKActive
    BY <1>1 DEF RKOwnersFit, RKLost
  <2>8. RKActive' \subseteq RKActive
    BY <2>3
  <2>9. /\ IsFiniteSet(RKActive') /\ Cardinality(RKActive') <= Cardinality(RKActive)
        /\ IsFiniteSet(RKLost) /\ IsFiniteSet(RKLost') /\ Cardinality(RKLost') <= Cardinality(RKLost)
    BY <2>6, <2>7, <2>8, FS_Subset
  <2>10. /\ Cardinality(RKActive) \in Nat /\ Cardinality(RKActive') \in Nat /\ Cardinality(RKLost) \in Nat
         /\ Cardinality(RKLost') \in Nat /\ rkDead \in Nat
    BY <1>1, <2>7, <2>9, FS_CardinalityType, RKBounds DEF RKTypeOK
  <2>11. Cardinality(RKActive') <= RKOwners /\ Cardinality(RKLost') <= rkDead'
    BY <1>5, <2>7, <2>9, <2>10, RKBounds
  <2>12. RKOwnersFit'
    BY <1>1, <1>14, <2>4, <2>9, <2>11 DEF RKOwnersFit
  <2>13. "down" \notin RKHeld
    BY DEF RKHeld
  <2>14. RKLocksFit' /\ rkFlock' \in [{"root", "catalog"} -> RKProcs \cup {NoRKProc}]
    BY <1>2, <1>15, <2>1, <2>13, RKDownTyped, RKLockMoves
  <2>15. RKPhase(p)'
    BY <2>2, RKDownTyped DEF RKPhase, RKIssuing
  <2>16. RKWay(p)'
    BY <2>2, RKDownTyped DEF RKWay, RKIssuing
  <2> QED BY <1>2, <1>5, <1>7, <1>10, <1>12, <2>1, <2>12, <2>14, <2>15, <2>16, RKDownTyped, RKLeaseStep
<1> QED BY <1>8, <1>17, <1>18

-----------------------------------------------------------------------------
(* The theorems. *)

\* A fresh root, or one that an older version left, satisfies the invariant.
LEMMA RKStarts ==
  ASSUME RKInit
  PROVE  RKInv
<1>1. /\ rkStage = NoRKStage /\ rkDirs = {} /\ rkHistory = <<>> /\ rkTail = "none"
      /\ rkFile = [r \in RKRuns |-> [n \in RKFileNames |-> NoRKFile]]
      /\ rkLease = [r \in RKRuns |-> NoRKLease]
      /\ rkAcked = {} /\ rkFlock = [f \in {"root", "catalog"} |-> NoRKProc]
      /\ rkProc = [p \in RKProcs |-> RKDown] /\ rkDead = 0
  BY DEF RKInit
<1>2. \/ rkRoot = "none" /\ rkMade = 0 /\ rkCopies = {} /\ rkAuth = [state |-> "none", run |-> NoRKRun]
      \/ rkRoot = "ready" /\ rkMade = RKObjects /\ rkCopies = {"root"} /\ rkAuth = [state |-> "ESTABLISHED", run |-> NoRKRun]
  BY DEF RKInit
<1>3. /\ rkAuth \in RKAuthority /\ rkAuth.run = NoRKRun /\ rkAuth.state \in {"none", "ESTABLISHED"}
      /\ (rkRoot = "none" => rkMade = 0) /\ (rkRoot = "ready" => rkMade = RKObjects /\ rkAuth.state # "none")
      /\ rkRoot \in {"none", "init", "ready"} /\ rkMade \in 0..RKObjects /\ rkCopies \subseteq {"root", "runs"}
  <2>1. 0 \in 0..RKObjects /\ RKObjects \in 0..RKObjects
    BY RKBounds
  <2> QED BY <1>2, <2>1 DEF RKAuthority
<1>4. /\ rkStage \in RKStages /\ rkStage.made = FALSE /\ rkStage.attempts = FALSE /\ rkStage.identity = "none"
  BY <1>1 DEF NoRKStage, RKStages
<1>5. \A p \in RKProcs : rkProc[p] = RKDown
  BY <1>1
<1>6. \A r \in RKRuns : rkLease[r] = NoRKLease /\ \A n \in RKFileNames : rkFile[r][n] = NoRKFile
  BY <1>1
<1>7. NoRKLease \in RKLeases /\ NoRKLease.gen = 0 /\ NoRKLease.state = "RETIRED" /\ NoRKFile \in RKFile /\ NoRKFile.at = "none"
  BY RKBounds DEF NoRKLease, RKLeases, NoRKFile, RKFile
<1>8. RKTypeOK
  <2>1. rkProc \in [RKProcs -> RKProcess]
    BY <1>1, RKDownTyped
  <2>2. rkLease \in [RKRuns -> RKLeases] /\ rkFile \in [RKRuns -> [RKFileNames -> RKFile]]
    BY <1>1, <1>7
  <2>3. rkDead \in 0..RKCrashes
    BY <1>1, RKBounds
  <2>4. rkHistory \in Seq(RKRuns) /\ rkFlock \in [{"root", "catalog"} -> RKProcs \cup {NoRKProc}]
    BY <1>1
  <2> QED BY <1>1, <1>3, <1>4, <2>1, <2>2, <2>3, <2>4 DEF RKTypeOK, RKProcess, RKLeases, RKAuthority, RKStages
<1>9. RKLocksFit
  <2>1. "down" \notin RKHeld
    BY DEF RKHeld
  <2>2. \A p \in RKProcs : rkFlock["catalog"] # p /\ rkFlock["root"] # p
    BY <1>1, RKBounds
  <2> QED BY <1>5, <2>1, <2>2, RKDownTyped DEF RKLocksFit
<1>10. RKDiskFits
  <2>1. RKNamed = {} /\ Len(rkHistory) = 0
    BY <1>1 DEF RKNamed
  <2>2. IsFiniteSet(RKNamed) /\ Cardinality(RKNamed) = Len(rkHistory)
    BY <2>1, FS_EmptySet
  <2>3. ~RKIntegrity
    BY <1>1, <1>3, <1>4 DEF RKIntegrity
  <2>4. rkAuth.state \notin RKPrepared
    BY <1>3 DEF RKPrepared
  <2> QED BY <1>1, <1>3, <1>4, <2>1, <2>2, <2>3, <2>4 DEF RKDiskFits
<1>11. RKFilesFit
  <2>1. "attempt" \in RKFileNames /\ "run.json" \in RKFileNames
    BY DEF RKFileNames
  <2>2. \A r \in RKRuns : ~(rkLease[r].gen > 0)
    BY <1>6, <1>7
  <2> QED BY <1>6, <1>7, <2>1, <2>2 DEF RKFilesFit
<1>12. RKRegisteredOnce
  BY <1>1 DEF RKRegisteredOnce
<1>13. RKListFits
  BY <1>1, <1>3 DEF RKListFits, RKPrepared, ListRunsFails
<1>14. RKOwnersFit
  <2>1. RKActive = {}
    BY <1>6, <1>7 DEF RKActive
  <2>2. RKLost = {}
    BY <2>1 DEF RKLost
  <2>3. IsFiniteSet(RKActive) /\ Cardinality(RKActive) = 0 /\ Cardinality(RKLost) = 0
    BY <2>1, <2>2, FS_EmptySet
  <2>4. \A p \in RKProcs : ~(rkProc[p].gen > 0)
    BY <1>5, RKDownTyped
  <2>5. Cardinality(RKActive) <= RKOwners /\ Cardinality(RKLost) <= rkDead
    BY <1>1, <2>3, RKBounds
  <2> QED BY <1>6, <1>7, <2>3, <2>4, <2>5 DEF RKOwnersFit
<1>15. \A p \in RKProcs : RKWay(p) /\ RKPhase(p)
  <2> TAKE p \in RKProcs
  <2>1. rkProc[p] = RKDown /\ ~(RKDown.gen > 0)
    BY <1>5, RKDownTyped
  <2>2. RKWay(p)
    BY <2>1, RKDownTyped DEF RKWay, RKIssuing
  <2>3. RKPhase(p)
    BY <2>1, RKDownTyped DEF RKPhase, RKIssuing
  <2> QED BY <2>2, <2>3
<1> QED BY <1>8, <1>9, <1>10, <1>11, <1>12, <1>13, <1>14, <1>15 DEF RKInv

\* A step that changes nothing keeps the invariant.
LEMMA RKStutters ==
  ASSUME RKInv, UNCHANGED rkVars
  PROVE  RKInv'
<1>1. UNCHANGED <<rkRoot, rkMade, rkCopies, rkAuth, rkStage, rkDirs, rkHistory, rkTail, rkFile, rkLease, rkAcked, rkFlock, rkProc, rkDead>>
  BY DEF rkVars, rkDisk, rkNames
<1>2. RKTypeOK' /\ RKLocksFit'
  BY <1>1 DEF RKInv, RKTypeOK, RKLocksFit
<1>3. RKDiskFits' /\ RKFilesFit' /\ RKRegisteredOnce' /\ RKListFits'
  <2>1. RKNamed' = RKNamed
    BY <1>1 DEF RKNamed
  <2>2. RKDiskFits /\ ~RKIntegrity
    BY DEF RKInv, RKDiskFits
  <2>3. ~RKIntegrity'
    BY <1>1, <2>2 DEF RKIntegrity
  <2>4. RKDiskFits'
    BY <1>1, <2>1, <2>2, <2>3 DEF RKDiskFits
  <2>5. RKFilesFit' /\ RKRegisteredOnce'
    BY <1>1 DEF RKInv, RKFilesFit, RKRegisteredOnce
  <2>6. RKListFits'
    BY <1>1 DEF RKInv, RKListFits, ListRunsFails
  <2> QED BY <2>4, <2>5, <2>6
<1>4. RKOwnersFit'
  BY <1>1 DEF RKInv, RKOwnersFit, RKActive, RKLost, RKOwned
<1>5. \A p \in RKProcs : RKWay(p)' /\ RKPhase(p)'
  <2> TAKE p \in RKProcs
  <2>1. RKWay(p) /\ RKPhase(p)
    BY DEF RKInv
  <2>2. RKWay(p)'
    BY <1>1, <2>1 DEF RKWay
  <2>3. RKPhase(p)'
    BY <1>1, <2>1 DEF RKPhase, RKFileOf
  <2> QED BY <2>2, <2>3
<1> QED BY <1>2, <1>3, <1>4, <1>5 DEF RKInv

\* The invariant of the catalog: whatever the processes of the runs do, and
\* wherever they die, the locks, the disk, the records and the leases fit
\* what every process has passed (RegisterRun, RegisterAttempt, Install).
THEOREM CatalogInvariant == RKSpec => []RKInv
<1>1. RKInit => RKInv
  BY RKStarts
<1>2. RKInv /\ [RKNext]_rkVars => RKInv'
  <2> SUFFICES ASSUME RKInv, [RKNext]_rkVars
               PROVE  RKInv'
    OBVIOUS
  <2>1. CASE UNCHANGED rkVars
    BY <2>1, RKStutters
  <2>2. ASSUME NEW p \in RKProcs, NEW r \in RKRunsOf(p), Open(p, r)
        PROVE  RKInv'
    <3>1. r \in RKRuns
      BY RKAssumption
    <3> QED BY <2>2, <3>1, RKOpenKeeps
  <2>3. ASSUME NEW p \in RKProcs,
               \/ openCatalogPins(p) \/ migrateCatalogRunAuthority(p) \/ acquireLock(p)
               \/ bootstrapCatalogRunAuthority(p) \/ removeUnboundRunNamespaceStage(p) \/ rollbackPreparedRunNamespace(p)
               \/ completePreparedRunNamespace(p) \/ reconcileRunNamespaceIssuance(p) \/ publishCatalogRootGeneration(p)
        PROVE  RKInv'
    BY <2>3, RKPinsKeeps, RKMigrateKeeps, RKAcquireKeeps, RKBootstrapKeeps, RKRemoveKeeps, RKRollbackKeeps,
       RKCompleteKeeps, RKReconcileKeeps, RKPublishKeeps
  <2>4. ASSUME NEW p \in RKProcs,
               \/ readRegistration(p) \/ stageRunNamespace(p) \/ prepareRun(p) \/ makeAttempts(p) \/ writePreparedRunIdentity(p)
               \/ prepareFull(p) \/ publishRunDirectory(p) \/ appendRunGeneration(p) \/ checkpointRunGeneration(p)
        PROVE  RKInv'
    BY <2>4, RKReadKeeps, RKStageKeeps, RKPrepareRunKeeps, RKMakeAttemptsKeeps, RKIdentityKeeps, RKPrepareFullKeeps,
       RKRenameKeeps, RKHistoryKeeps, RKCheckpointKeeps
  <2>5. ASSUME NEW p \in RKProcs,
               createOrByteVerify(p) \/ publishRecord(p) \/ Install(p) \/ retireRuntimeOwner(p) \/ RKCrash(p)
        PROVE  RKInv'
    BY <2>5, RKVerifyKeeps, RKRecordKeeps, RKInstallKeeps, RKRetireKeeps, RKCrashKeeps
  <2> QED BY <2>1, <2>2, <2>3, <2>4, <2>5 DEF RKNext
<1> QED BY <1>1, <1>2, PTL DEF RKSpec

\* The leases that are not retired are those of the owners and those a death left.
LEMMA RKActiveCounted ==
  ASSUME RKInv
  PROVE  Cardinality(RKActive) <= Cardinality(RKOwned) + rkDead
<1>1. RKTypeOK /\ RKOwnersFit
  BY DEF RKInv
<1>2. RKOwned \subseteq RKActive
  <2>1. \A p \in RKProcs : rkProc[p].gen > 0 => rkProc[p].run \in RKRuns /\ rkLease[rkProc[p].run].state \in {"ACTIVE", "CLOSING"}
    BY RKOwnerHas
  <2> QED BY <2>1 DEF RKOwned, RKActive
<1>3. IsFiniteSet(RKActive) /\ RKLost \subseteq RKActive /\ Cardinality(RKLost) <= rkDead
  BY <1>1 DEF RKOwnersFit, RKLost
<1>4. IsFiniteSet(RKOwned) /\ IsFiniteSet(RKLost)
  BY <1>2, <1>3, FS_Subset
<1>5. RKActive = RKOwned \cup RKLost /\ RKOwned \cap RKLost = {}
  BY <1>2 DEF RKLost
<1>6. Cardinality(RKOwned \cup RKLost) = Cardinality(RKOwned) + Cardinality(RKLost) - Cardinality(RKOwned \cap RKLost)
  BY <1>4, FS_Union
<1>7. Cardinality({}) = 0
  BY FS_EmptySet
<1>8. /\ Cardinality(RKOwned) \in Nat /\ Cardinality(RKLost) \in Nat /\ rkDead \in Nat
  BY <1>1, <1>4, FS_CardinalityType, RKBounds DEF RKTypeOK
<1>9. Cardinality(RKActive) = Cardinality(RKOwned) + Cardinality(RKLost)
  <2>1. Cardinality(RKOwned \cap RKLost) = 0
    BY <1>5, <1>7
  <2>2. Cardinality(RKActive) = Cardinality(RKOwned \cup RKLost)
    BY <1>5
  <2> QED BY <1>6, <1>8, <2>1, <2>2
<1> QED BY <1>3, <1>8, <1>9

\* RKSound, for every set of processes, runs and limits: the next holder of the
\* lock can always finish or undo what the last one left, the history names the
\* published runs once each, an acknowledged registration is the run's record
\* for good, only a death hides the list of runs, and an owner holds its lease.
THEOREM CatalogIsSound == RKSpec => []RKSound
<1>1. RKInv => RKSound
  <2> SUFFICES ASSUME RKInv
               PROVE  RKSound
    OBVIOUS
  <2>1. RKTypeOK /\ RKDiskFits /\ RKFilesFit /\ RKRegisteredOnce /\ RKListFits /\ RKOwnersFit
    BY DEF RKInv
  <2>2. RKAlwaysRecoverable
    BY <2>1 DEF RKDiskFits, RKAlwaysRecoverable
  <2>3. RKHistoryNamesTheRuns
    BY <2>1 DEF RKDiskFits, RKHistoryNamesTheRuns, RKNamed
  <2>4. RKOneAuthority
    BY <2>1 DEF RKDiskFits, RKOneAuthority, RKPrepared
  <2>5. RKOnlyADeathHidesTheList
    <3> SUFFICES ASSUME NEW r \in RKRuns, ListRunsFails(r), ~(rkDead > 0)
                 PROVE  \E p \in RKProcs : rkProc[p].run = r /\ rkFlock["catalog"] = p
      BY DEF RKOnlyADeathHidesTheList
    <3>1. rkDead \in 0..RKCrashes
      BY <2>1 DEF RKTypeOK
    <3>2. rkDead = 0
      BY <3>1, RKBounds
    <3>3. PICK p \in RKProcs : rkProc[p].run = r /\ rkProc[p].pc \in RKUnlisted
      BY <2>1, <3>2 DEF RKListFits
    <3>4. rkProc[p].pc \in RKHeld
      BY <3>3 DEF RKUnlisted, RKHeld
    <3> QED BY <3>3, <3>4, RKHolder
  <2>6. RKOwnersAreReal
    <3>1. \A p \in RKProcs : rkProc[p].gen > 0 =>
            rkProc[p].gen = rkLease[rkProc[p].run].gen /\ rkLease[rkProc[p].run].state # "RETIRED"
      BY RKOwnerHas
    <3>2. Cardinality(RKActive) <= RKOwners
      BY <2>1 DEF RKOwnersFit
    <3>3. \A r \in RKRuns : rkLease[r].gen > 0 => rkFile[r]["attempt"].at = "whole" /\ rkFile[r]["run.json"].at = "whole"
      BY <2>1 DEF RKFilesFit
    <3>4. Cardinality(RKActive) <= Cardinality({rkProc[p].run : p \in {q \in RKProcs : rkProc[q].gen > 0}}) + rkDead
      BY RKActiveCounted DEF RKOwned
    <3> QED BY <3>1, <3>2, <3>3, <3>4 DEF RKOwnersAreReal
  <2> QED BY <2>1, <2>2, <2>3, <2>4, <2>5, <2>6 DEF RKSound
<1> QED BY <1>1, CatalogInvariant, PTL

-----------------------------------------------------------------------------
(* Sums over finite sets. *)

\* One step of a sum over the subsets of T, as MapThenSumSet takes it.
SumStep(g, f, T) ==
  g = [s \in SUBSET T |-> IF s = {} THEN 0 ELSE f[CHOOSE x \in s : TRUE] + g[s \ {CHOOSE x \in s : TRUE}]]

\* A non-empty set of numbers has a least element.
LEMMA LeastNumber ==
  ASSUME NEW I \in SUBSET Nat, I # {}
  PROVE  \E n \in I : \A m \in I : n <= m
<1>1. PICK x \in I : \A y \in I : ~(<<y, x>> \in OpToRel(<, Nat))
  BY NatLessThanWellFounded, WFMin
<1>2. \A y \in I : ~(y < x)
  BY <1>1, Zenon DEF OpToRel
<1> QED
  BY <1>2

\* A set with 0 and with the successor of each of its numbers has them all.
LEMMA NumbersOneByOne ==
  ASSUME NEW I \in SUBSET Nat, 0 \in I, \A n \in I : n + 1 \in I
  PROVE  I = Nat
<1> SUFFICES ASSUME Nat \ I # {}  PROVE FALSE
  OBVIOUS
<1>1. PICK n \in Nat \ I : \A m \in Nat \ I : n <= m
  BY LeastNumber
<1>2. n - 1 \in Nat /\ n - 1 \notin Nat \ I
  BY <1>1
<1>3. (n - 1) + 1 = n
  BY <1>1
<1> QED
  BY <1>1, <1>2, <1>3

\* What is taken out of a set leaves it smaller.
LEMMA TakenOut ==
  ASSUME NEW s, IsFiniteSet(s), NEW x \in s
  PROVE  IsFiniteSet(s \ {x}) /\ Cardinality(s \ {x}) = Cardinality(s) - 1 /\ Cardinality(s) \in Nat /\ Cardinality(s) > 0
<1>1. s # {} /\ Cardinality(s) \in Nat
  BY FS_CardinalityType
<1> QED
  BY <1>1, FS_RemoveElement, FS_EmptySet, FS_CardinalityType

\* There is a sum over the subsets of a finite set.
LEMMA SumExists ==
  ASSUME NEW T, IsFiniteSet(T), NEW f \in [T -> Nat]
  PROVE  \E g \in [SUBSET T -> Nat] : SumStep(g, f, T)
<1> DEFINE Upto(n) == {s \in SUBSET T : Cardinality(s) <= n}
           x(s) == CHOOSE y \in s : TRUE
           Ok(g, n) == \A s \in Upto(n) : g[s] = IF s = {} THEN 0 ELSE f[x(s)] + g[s \ {x(s)}]
           Has(n) == \E g \in [SUBSET T -> Nat] : Ok(g, n)
<1>1. \A s \in SUBSET T : IsFiniteSet(s) /\ Cardinality(s) \in Nat /\ Cardinality(s) <= Cardinality(T)
  BY FS_Subset, FS_CardinalityType
<1>2. \A s \in SUBSET T : s # {} => x(s) \in s /\ s \ {x(s)} \in SUBSET T /\ Cardinality(s \ {x(s)}) = Cardinality(s) - 1
  BY <1>1, TakenOut
<1>3. Has(0)
  <2> DEFINE g == [s \in SUBSET T |-> 0]
  <2>1. g \in [SUBSET T -> Nat]
    OBVIOUS
  <2>2. ASSUME NEW s \in Upto(0)  PROVE s = {}
    <3>1. IsFiniteSet(s) /\ Cardinality(s) <= 0 /\ Cardinality(s) \in Nat
      BY <1>1
    <3>2. Cardinality(s) = 0
      BY <3>1
    <3> QED
      BY <3>1, <3>2, FS_EmptySet
  <2> QED
    BY <2>1, <2>2
<1>4. ASSUME NEW n \in Nat, Has(n)  PROVE Has(n + 1)
  <2>1. PICK g \in [SUBSET T -> Nat] : Ok(g, n)
    BY <1>4
  <2> DEFINE h == [s \in SUBSET T |-> IF s = {} THEN 0 ELSE f[x(s)] + g[s \ {x(s)}]]
  <2>2. h \in [SUBSET T -> Nat]
    <3>1. \A s \in SUBSET T : s # {} => f[x(s)] \in Nat /\ g[s \ {x(s)}] \in Nat
      BY <1>2
    <3> QED
      BY <3>1
  <2>3. \A s \in Upto(n) : h[s] = g[s]
    BY <2>1
  <2>4. ASSUME NEW s \in Upto(n + 1), s # {}  PROVE h[s] = f[x(s)] + h[s \ {x(s)}]
    <3>1. s \ {x(s)} \in Upto(n)
      BY <1>1, <1>2, <2>4
    <3> QED
      BY <2>3, <2>4, <3>1
  <2>5. Ok(h, n + 1)
    BY <2>4
  <2> QED
    BY <2>2, <2>5
<1> HIDE DEF Has
<1>5. {n \in Nat : Has(n)} = Nat
  <2> DEFINE I == {n \in Nat : Has(n)}
  <2>1. I \in SUBSET Nat /\ 0 \in I
    BY <1>3
  <2>2. \A n \in I : n + 1 \in I
    BY <1>4
  <2> HIDE DEF I
  <2>3. I = Nat
    BY <2>1, <2>2, NumbersOneByOne
  <2> QED
    BY <2>3 DEF I
<1>6. Has(Cardinality(T))
  <2>1. Cardinality(T) \in Nat
    BY FS_CardinalityType
  <2> QED
    BY <1>5, <2>1
<1>7. PICK g \in [SUBSET T -> Nat] : Ok(g, Cardinality(T))
  BY <1>6 DEF Has
<1>8. SumStep(g, f, T)
  BY <1>1, <1>7 DEF SumStep
<1> QED
  BY <1>8

\* Two sums agree on what they have in common.
LEMMA SumUnique ==
  ASSUME NEW T, IsFiniteSet(T), NEW U \in SUBSET T, NEW f, NEW e, \A x \in U : f[x] = e[x] /\ f[x] \in Nat,
         NEW g, NEW h, SumStep(g, f, T), SumStep(h, e, U)
  PROVE  \A s \in SUBSET U : g[s] = h[s] /\ g[s] \in Nat
<1> DEFINE x(s) == CHOOSE y \in s : TRUE
           Bad == {n \in Nat : \E s \in SUBSET U : Cardinality(s) = n /\ ~(g[s] = h[s] /\ g[s] \in Nat)}
<1>1. \A s \in SUBSET T : IsFiniteSet(s) /\ Cardinality(s) \in Nat
  BY FS_Subset, FS_CardinalityType
<1>2. \A s \in SUBSET U : s # {} => x(s) \in s /\ s \ {x(s)} \in SUBSET U /\ Cardinality(s \ {x(s)}) = Cardinality(s) - 1
  BY <1>1, TakenOut
<1>3. \A s \in SUBSET U : /\ g[s] = IF s = {} THEN 0 ELSE f[x(s)] + g[s \ {x(s)}]
                          /\ h[s] = IF s = {} THEN 0 ELSE e[x(s)] + h[s \ {x(s)}]
  BY DEF SumStep
<1>4. Bad = {}
  <2> SUFFICES ASSUME Bad # {}  PROVE FALSE
    OBVIOUS
  <2>1. PICK n \in Bad : \A m \in Bad : n <= m
    BY LeastNumber
  <2>2. PICK s \in SUBSET U : Cardinality(s) = n /\ ~(g[s] = h[s] /\ g[s] \in Nat)
    BY <2>1
  <2>3. s # {}
    BY <1>3, <2>2
  <2>4. Cardinality(s \ {x(s)}) \in Nat /\ Cardinality(s \ {x(s)}) < n
    BY <1>1, <1>2, <2>2, <2>3
  <2>5. g[s \ {x(s)}] = h[s \ {x(s)}] /\ g[s \ {x(s)}] \in Nat
    BY <1>2, <2>1, <2>3, <2>4
  <2> QED
    BY <1>2, <1>3, <2>2, <2>3, <2>5, SMTT(20)
<1> QED
  BY <1>1, <1>4

\* A sum is the same in whatever order it is taken.
LEMMA SumOrder ==
  ASSUME NEW T, IsFiniteSet(T), NEW f \in [T -> Nat], NEW g, SumStep(g, f, T), NEW s \in SUBSET T, NEW y \in s
  PROVE  g[s] = f[y] + g[s \ {y}]
<1> DEFINE x(u) == CHOOSE z \in u : TRUE
           Bad == {n \in Nat : \E u \in SUBSET T : \E z \in u : Cardinality(u) = n /\ g[u] # f[z] + g[u \ {z}]}
<1>1. \A u \in SUBSET T : IsFiniteSet(u) /\ Cardinality(u) \in Nat
  BY FS_Subset, FS_CardinalityType
<1>2. \A u \in SUBSET T : \A z \in u : u \ {z} \in SUBSET T /\ Cardinality(u \ {z}) = Cardinality(u) - 1
  BY <1>1, TakenOut
<1>3. \A u \in SUBSET T : u # {} => x(u) \in u /\ g[u] = f[x(u)] + g[u \ {x(u)}]
  BY DEF SumStep
<1>4. \A u \in SUBSET T : g[u] \in Nat
  BY SumUnique
<1>5. Bad = {}
  <2> SUFFICES ASSUME Bad # {}  PROVE FALSE
    OBVIOUS
  <2>1. PICK n \in Bad : \A m \in Bad : n <= m
    BY LeastNumber
  <2>0. PICK u \in SUBSET T : \E z \in u : Cardinality(u) = n /\ g[u] # f[z] + g[u \ {z}]
    BY <2>1
  <2>2. PICK z \in u : Cardinality(u) = n /\ g[u] # f[z] + g[u \ {z}]
    BY <2>0
  <2> DEFINE w == x(u)
  <2>3. w \in u /\ g[u] = f[w] + g[u \ {w}] /\ w # z
    BY <1>3, <2>2
  <2>4. z \in u \ {w} /\ w \in u \ {z} /\ (u \ {w}) \ {z} = (u \ {z}) \ {w}
    BY <2>3
  <2> HIDE DEF w
  <2>5. \A v \in SUBSET T : Cardinality(v) < n => \A k \in v : g[v] = f[k] + g[v \ {k}]
    <3> SUFFICES ASSUME NEW v \in SUBSET T, Cardinality(v) < n, NEW k \in v, g[v] # f[k] + g[v \ {k}]  PROVE FALSE
      OBVIOUS
    <3>1. Cardinality(v) \in Bad
      BY <1>1
    <3>2. n <= Cardinality(v)
      BY <2>1, <3>1
    <3>3. n \in Nat /\ Cardinality(v) \in Nat
      BY <1>1
    <3> QED
      BY <3>2, <3>3
  <2>6. Cardinality(u \ {w}) < n /\ Cardinality(u \ {z}) < n /\ u \ {w} \in SUBSET T /\ u \ {z} \in SUBSET T
    BY <1>1, <1>2, <2>2, <2>3
  <2>7. g[u \ {w}] = f[z] + g[(u \ {w}) \ {z}] /\ g[u \ {z}] = f[w] + g[(u \ {z}) \ {w}]
    BY <2>4, <2>5, <2>6
  <2>8. f[w] \in Nat /\ f[z] \in Nat /\ g[(u \ {w}) \ {z}] \in Nat
    BY <1>4, <2>3, <2>6
  <2> QED
    <3>1. \A a, b, c \in Nat : a + (b + c) = b + (a + c)
      OBVIOUS
    <3>2. f[w] + (f[z] + g[(u \ {w}) \ {z}]) = f[z] + (f[w] + g[(u \ {w}) \ {z}])
      BY <2>8, <3>1
    <3> QED
      BY <2>2, <2>3, <2>4, <2>7, <3>2
<1> QED
  BY <1>1, <1>5

\* What is in a set counts in its sum.
LEMMA SumGrows ==
  ASSUME NEW T, IsFiniteSet(T), NEW f \in [T -> Nat], NEW g, SumStep(g, f, T), NEW t \in SUBSET T, NEW s \in SUBSET t
  PROVE  g[s] <= g[t]
<1> DEFINE Bad == {n \in Nat : \E u \in SUBSET t : s \subseteq u /\ Cardinality(u) = n /\ ~(g[s] <= g[u])}
<1>1. \A u \in SUBSET T : IsFiniteSet(u) /\ Cardinality(u) \in Nat /\ g[u] \in Nat
  BY FS_Subset, FS_CardinalityType, SumUnique
<1>2. Bad = {}
  <2> SUFFICES ASSUME Bad # {}  PROVE FALSE
    OBVIOUS
  <2>1. PICK n \in Bad : \A m \in Bad : n <= m
    BY LeastNumber
  <2>2. PICK u \in SUBSET t : s \subseteq u /\ Cardinality(u) = n /\ ~(g[s] <= g[u])
    BY <2>1
  <2>3. s # u
    BY <1>1, <2>2
  <2>4. PICK y \in u : y \notin s
    BY <2>2, <2>3
  <2>5. u \ {y} \in SUBSET t /\ s \subseteq u \ {y} /\ Cardinality(u \ {y}) = n - 1 /\ n - 1 \in Nat
    BY <1>1, <2>2, <2>4, TakenOut
  <2>6. g[s] <= g[u \ {y}]
    BY <2>1, <2>5
  <2>7. g[u] = f[y] + g[u \ {y}] /\ f[y] \in Nat
    BY SumOrder
  <2> QED
    BY <1>1, <2>2, <2>5, <2>6, <2>7
<1> QED
  BY <1>1, <1>2

-----------------------------------------------------------------------------
(* Eviction. *)

\* The bytes of the worktrees of some candidates.
EVSize(cands) == MapThenSumSet(LAMBDA c : EVBytes(c.run), cands)

\* The sum Policy.Decide takes is a sum of numbers.
LEMMA EVSizeIsSum ==
  ASSUME NEW T, IsFiniteSet(T), \A c \in T : EVBytes(c.run) \in Nat, NEW S \in SUBSET T,
         NEW g, SumStep(g, [c \in T |-> EVBytes(c.run)], T)
  PROVE  EVSize(S) = g[S]
<1> DEFINE x(s) == CHOOSE y \in s : TRUE
           Is(e) == e = [s \in SUBSET S |-> IF s = {} THEN 0 ELSE EVBytes(x(s).run) + e[s \ {x(s)}]]
           b == [c \in S |-> EVBytes(c.run)]
<1>1. EVSize(S) = (CHOOSE e : Is(e))[S]
  BY DEF EVSize, MapThenSumSet, MapThenFoldSet
<1>2. \A e : Is(e) <=> SumStep(e, b, S)
  <2>1. \A s \in SUBSET S : s # {} => b[x(s)] = EVBytes(x(s).run)
    OBVIOUS
  <2> QED
    BY <2>1, ZenonT(60) DEF SumStep
<1>3. \E e : SumStep(e, b, S)
  <2>1. IsFiniteSet(S) /\ b \in [S -> Nat]
    BY FS_Subset
  <2> HIDE DEF b
  <2> QED
    BY <2>1, SumExists
<1> DEFINE h == CHOOSE e : Is(e)
<1>4. SumStep(h, b, S)
  <2> HIDE DEF Is, b
  <2>1. \E e : Is(e)
    BY <1>2, <1>3
  <2>2. Is(h)
    BY <2>1
  <2> QED
    BY <1>2, <2>2
<1> HIDE DEF h
<1>5. g[S] = h[S]
  <2> DEFINE a == [c \in T |-> EVBytes(c.run)]
  <2>1. \A c \in S : a[c] = b[c] /\ a[c] \in Nat
    OBVIOUS
  <2> HIDE DEF a, b
  <2>2. SumStep(g, a, T)
    BY DEF a
  <2> QED
    BY <1>4, <2>1, <2>2, SumUnique
<1> QED
  BY <1>1, <1>5 DEF h


-----------------------------------------------------------------------------
(* Eviction: what stands behind a worktree that is gone.                   *)

EVCands == [run : EVRuns, evictable : BOOLEAN, due : BOOLEAN, use : Nat]
EVOpRec == [kind : {"idle", "sweep", "release", "forget"}, todo : SUBSET EVRuns, seen : SUBSET EVCands, chosen : SUBSET EVRuns,
            run : EVRuns \cup {0}, step : 0..10]
EVTyped ==
  /\ evFinal \in SUBSET EVRuns /\ evStream \in SUBSET EVRuns /\ evPreview \in SUBSET EVRuns /\ evHeld \in SUBSET EVRuns
  /\ evDue \in SUBSET EVRuns /\ evTree \in SUBSET EVRuns /\ evRecord \in SUBSET EVRuns /\ evGone \in SUBSET EVRuns
  /\ evRefs \in [EVRuns -> SUBSET {"branch", "pin"}] /\ evThings \in [EVRuns -> SUBSET EVThings]
  /\ evForget \in [EVRuns -> SUBSET {"branch", "pin", "none"}] /\ evUse \in [EVRuns -> Nat] /\ evUses \in Nat
  /\ evOp \in EVOpRec /\ IsFiniteSet(evOp.seen)

\* What is known of a run whatever the service is at.
EVRun1(r) ==
  /\ r \in evRecord => r \in evFinal /\ (~EVForgetSealed(r) => "pin" \in evRefs[r])
  /\ EVForgetSealed(r) => r \in evFinal /\ evRefs[r] \subseteq evForget[r]
  /\ r \in evGone => EVForgetSealed(r) /\ r \notin evTree \cup evRecord \cup evPreview /\ evRefs[r] = {} /\ evThings[r] = {}
  /\ r \notin evTree /\ ~EVForgetSealed(r) => "pin" \in evRefs[r] /\ r \in evRecord
  /\ r \notin evFinal => r \in evTree /\ evThings[r] = EVThings

\* What the first n - 1 steps of finishForget took of a run.
EVTaken(r, n) ==
  /\ n > 1 => r \notin evPreview /\ "previews" \notin evThings[r]
  /\ n > 2 => r \notin evTree
  /\ n > 3 => evRefs[r] = {}
  /\ n > 4 => "inputs" \notin evThings[r]
  /\ n > 5 => "progress" \notin evThings[r]
  /\ n > 6 => r \notin evRecord
  /\ n > 7 => "evidence" \notin evThings[r]
  /\ n > 8 => "sessions" \notin evThings[r]
  /\ n > 9 => "activity" \notin evThings[r]

\* What holds the mutex: an eviction is of finished runs that no forget owns.
EVMayGo(r) == r \in evFinal /\ ~EVForgetSealed(r)
EVOp1 ==
  /\ evOp.kind \in {"sweep", "release"} =>
       /\ evOp.step \in 0..3 /\ \A r \in evOp.chosen : EVMayGo(r)
       /\ \A c \in evOp.seen : ~EVForgetSealed(c.run) /\ (c.evictable => c.run \in evFinal)
       /\ evOp.step > 0 => evOp.run \in evOp.chosen
       /\ evOp.step > 1 => "pin" \in evRefs[evOp.run]
       /\ evOp.step > 2 => evOp.run \in evRecord
  /\ evOp.kind = "forget" =>
       evOp.run \in EVRuns /\ evOp.step \in 1..10 /\ EVForgetSealed(evOp.run) /\ EVTaken(evOp.run, evOp.step)

EVInv == EVTyped /\ (\A r \in EVRuns : EVRun1(r)) /\ EVOp1

\* A set of runs that is not empty holds its minimum.
LEMMA EVMinIsMember ==
  ASSUME NEW I \in SUBSET EVRuns, I # {}
  PROVE  Min(I) \in I
<1>1. I \in SUBSET Nat
  BY EVAssumption
<1>2. \E n \in I : \A m \in I : n <= m
  BY <1>1, LeastNumber
<1> QED
  BY <1>2 DEF Min

\* A mutex that is free.
LEMMA EVIdleIsSane == EVIdle \in EVOpRec /\ IsFiniteSet(EVIdle.seen) /\ EVIdle.kind = "idle"
<1>1. EVIdle.seen = {}
  BY DEF EVIdle
<1>2. IsFiniteSet(EVIdle.seen)
  BY <1>1, FS_EmptySet
<1> QED
  BY <1>2 DEF EVIdle, EVOpRec

\* Nothing has happened.
LEMMA EVInitInv == EVInit => EVInv
<1> SUFFICES ASSUME EVInit  PROVE EVInv
  OBVIOUS
<1>1. EVTyped
  BY EVIdleIsSane DEF EVInit, EVTyped, EVUnsealed
<1>2. \A r \in EVRuns : EVRun1(r)
  BY DEF EVInit, EVRun1, EVForgetSealed
<1>3. EVOp1
  BY EVIdleIsSane DEF EVInit, EVOp1
<1> QED
  BY <1>1, <1>2, <1>3 DEF EVInv

-----------------------------------------------------------------------------
(* The sweep, and the eviction of a worktree. *)

\* A step that leaves the runs and their finishing alone, and takes up another place.
LEMMA EVMoves ==
  ASSUME EVInv, EVOthers, UNCHANGED evRunVars, evOp' \in EVOpRec, IsFiniteSet(evOp'.seen), EVOp1'
  PROVE  EVInv'
<1>1. EVTyped'
  BY DEF EVInv, EVTyped, EVOthers, evRunVars
<1>2. \A r \in EVRuns : EVRun1(r)'
  BY DEF EVInv, EVRun1, EVOthers, evRunVars, EVForgetSealed
<1> QED
  BY <1>1, <1>2 DEF EVInv

\* The next eviction, or none.
LEMMA EVNextIsSane ==
  ASSUME EVInv, EVEvicting, EVOthers, UNCHANGED evForget, evOp' = EVNextEviction
  PROVE  evOp' \in EVOpRec /\ IsFiniteSet(evOp'.seen) /\ EVOp1'
<1> DEFINE rest == evOp.chosen \ {evOp.run}
<1>1. CASE rest = {}
  <2>1. evOp' = EVIdle
    BY <1>1 DEF EVNextEviction
  <2> QED
    BY <2>1, EVIdleIsSane DEF EVOp1
<1>2. CASE rest # {}
  <2>1. evOp \in EVOpRec /\ rest \in SUBSET EVRuns /\ Min(rest) \in rest
    BY <1>2, EVMinIsMember DEF EVInv, EVTyped, EVOpRec
  <2>2. evOp' = [evOp EXCEPT !.chosen = rest, !.run = Min(rest), !.step = 1]
    BY <1>2 DEF EVNextEviction
  <2>3. /\ evOp'.kind = evOp.kind /\ evOp'.seen = evOp.seen /\ evOp'.chosen = rest /\ evOp'.run = Min(rest) /\ evOp'.step = 1
        /\ evOp' \in EVOpRec
    <3> DEFINE m == Min(rest)
    <3>1. m \in EVRuns \cup {0} /\ 1 \in 0..10
      BY <2>1
    <3> HIDE DEF m, rest
    <3>2. evOp' = [evOp EXCEPT !.chosen = rest, !.run = m, !.step = 1]
      BY <2>2 DEF m
    <3> QED
      BY <2>1, <3>1, <3>2 DEF EVOpRec, m
  <2>4. evOp.kind \in {"sweep", "release"} /\ EVOp1 /\ IsFiniteSet(evOp.seen)
    BY DEF EVEvicting, EVInv, EVTyped
  <2> QED
    BY <2>1, <2>3, <2>4 DEF EVOp1, EVOthers, EVMayGo, EVForgetSealed
<1> QED
  BY <1>1, <1>2

\* A sweep takes its candidates.
LEMMA EVSweepInv == ASSUME EVInv, EVSweep PROVE EVInv'
<1>1. evOp' = [EVIdle EXCEPT !.kind = "sweep", !.todo = EVRuns]
  BY DEF EVSweep
<1>2. evOp' \in EVOpRec /\ evOp'.kind = "sweep" /\ evOp'.seen = {} /\ evOp'.chosen = {} /\ evOp'.step = 0
  <2>1. evOp' = [kind |-> "sweep", todo |-> EVRuns, seen |-> {}, chosen |-> {}, run |-> 0, step |-> 0]
    BY <1>1 DEF EVIdle
  <2>2. 0 \in 0..10
    OBVIOUS
  <2> QED
    BY <2>1, <2>2 DEF EVOpRec
<1>3. EVOp1'
  BY <1>2 DEF EVOp1
<1> QED
  BY <1>2, <1>3, EVMoves, FS_EmptySet DEF EVSweep

\* A candidate is inspected.
LEMMA EVInspectInv == ASSUME EVInv, EVInspect PROVE EVInv'
<1> DEFINE r == Min(evOp.todo)
           mine == ~EVForgetSealed(r) /\ r \in evTree
           next == [evOp EXCEPT !.todo = @ \ {r}]
<1>1. evOp \in EVOpRec /\ evOp.kind = "sweep" /\ evOp.todo # {} /\ evOp.step = 0 /\ EVOthers
      /\ UNCHANGED <<evRefs, evRecord, evForget, evThings, evGone>> /\ IsFiniteSet(evOp.seen) /\ EVOp1
  BY DEF EVInspect, EVInv, EVTyped
<1>2. r \in EVRuns /\ EVRun1(r)
  BY <1>1, EVMinIsMember DEF EVOpRec, EVInv
<1>3. /\ evOp' = (IF mine /\ r \notin evRecord THEN [next EXCEPT !.seen = @ \cup {EVSees(r)}] ELSE next)
      /\ evTree' = (IF mine /\ r \in evRecord THEN evTree \ {r} ELSE evTree)
  BY DEF EVInspect
<1> HIDE DEF r
<1>4. EVSees(r) \in EVCands /\ EVSees(r).run = r /\ (EVSees(r).evictable => r \in evFinal)
  <2> DEFINE e == r \in evFinal /\ r \notin evStream /\ r \notin evPreview
             d == r \in evDue
             u == evUse[r]
  <2>1. e \in BOOLEAN /\ d \in BOOLEAN /\ u \in Nat /\ (e => r \in evFinal)
    BY <1>2 DEF EVInv, EVTyped
  <2>2. EVSees(r) = [run |-> r, evictable |-> e, due |-> d, use |-> u]
    BY DEF EVSees
  <2> HIDE DEF e, d, u
  <2>3. [run |-> r, evictable |-> e, due |-> d, use |-> u] \in EVCands
    BY <1>2, <2>1, Zenon DEF EVCands
  <2> QED
    BY <2>1, <2>2, <2>3
<1>5. /\ evOp' \in EVOpRec /\ evOp'.kind = evOp.kind /\ evOp'.step = 0 /\ evOp'.chosen = evOp.chosen
      /\ evOp'.seen = IF mine /\ r \notin evRecord THEN evOp.seen \cup {EVSees(r)} ELSE evOp.seen
  <2> HIDE DEF mine
  <2>1. next \in EVOpRec /\ next.kind = evOp.kind /\ next.step = 0 /\ next.chosen = evOp.chosen /\ next.seen = evOp.seen
    BY <1>1 DEF EVOpRec
  <2> HIDE DEF next
  <2> QED
    BY <1>3, <1>4, <2>1 DEF EVOpRec
<1>6. IsFiniteSet(evOp'.seen)
  BY <1>1, <1>5, FS_AddElement
<1>7. EVTyped'
  BY <1>1, <1>3, <1>5, <1>6 DEF EVInv, EVTyped, EVOthers
<1>8. ASSUME NEW q \in EVRuns  PROVE EVRun1(q)'
  <2>1. EVRun1(q)
    BY DEF EVInv
  <2>2. q \notin evTree' => q \notin evTree \/ (q = r /\ mine /\ r \in evRecord)
    BY <1>3
  <2> QED
    BY <1>1, <1>2, <1>3, <2>1, <2>2 DEF EVRun1, EVOthers, EVForgetSealed
<1>9. EVOp1'
  BY <1>1, <1>4, <1>5 DEF EVOp1, EVMayGo, EVForgetSealed, EVOthers
<1> QED
  BY <1>7, <1>8, <1>9 DEF EVInv

\* The policy chooses its victims.
LEMMA EVDecideInv == ASSUME EVInv, EVDecide PROVE EVInv'
<1> DEFINE out == {c.run : c \in EVDecided(evOp.seen)}
<1>1. evOp \in EVOpRec /\ evOp.kind = "sweep" /\ EVOthers /\ UNCHANGED evRunVars /\ IsFiniteSet(evOp.seen) /\ EVOp1
      /\ evOp' = IF out = {} THEN EVIdle ELSE [evOp EXCEPT !.seen = {}, !.chosen = out, !.run = Min(out), !.step = 1]
  BY DEF EVDecide, EVInv, EVTyped
<1>2. \A c \in EVDecided(evOp.seen) : c \in evOp.seen /\ c.evictable
  BY DEF EVDecided, EVAged, EVQuotaVictims
<1>3. \A c \in evOp.seen : c.run \in EVRuns /\ ~EVForgetSealed(c.run) /\ (c.evictable => c.run \in evFinal)
  BY <1>1 DEF EVOp1, EVOpRec, EVCands
<1>4. out \in SUBSET EVRuns /\ \A r \in out : EVMayGo(r)
  BY <1>2, <1>3 DEF EVMayGo
<1> HIDE DEF out
<1>5. CASE out = {}
  <2>1. evOp' = EVIdle
    BY <1>1, <1>5
  <2> QED
    BY <1>1, <2>1, EVIdleIsSane, EVMoves DEF EVOp1
<1>6. CASE out # {}
  <2> DEFINE m == Min(out)
  <2>1. m \in out /\ m \in EVRuns \cup {0} /\ 1 \in 0..10
    BY <1>4, <1>6, EVMinIsMember
  <2> HIDE DEF m
  <2>2. evOp' = [evOp EXCEPT !.seen = {}, !.chosen = out, !.run = m, !.step = 1]
    BY <1>1, <1>6 DEF m
  <2>3. evOp' \in EVOpRec /\ evOp'.kind = "sweep" /\ evOp'.seen = {} /\ evOp'.chosen = out /\ evOp'.run = m /\ evOp'.step = 1
    BY <1>1, <1>4, <2>1, <2>2 DEF EVOpRec
  <2>4. EVOp1'
    BY <1>1, <1>4, <2>1, <2>3 DEF EVOp1, EVMayGo, EVForgetSealed, EVOthers, evRunVars
  <2> QED
    BY <1>1, <2>3, <2>4, EVMoves, FS_EmptySet
<1> QED
  BY <1>5, <1>6

\* The checkpoints of a victim are pinned.
LEMMA EVPinInv == ASSUME EVInv, EVPin PROVE EVInv'
<1>1. /\ evOp \in EVOpRec /\ evOp.kind \in {"sweep", "release"} /\ evOp.step \in 1..3 /\ EVOthers /\ EVOp1 /\ IsFiniteSet(evOp.seen)
      /\ UNCHANGED <<evTree, evRecord, evForget, evThings, evGone>> /\ EVOrder[evOp.step] = "pin"
      /\ evRefs' = [evRefs EXCEPT ![evOp.run] = @ \cup {"pin"}] /\ evOp' = [evOp EXCEPT !.step = @ + 1]
  BY DEF EVPin, EVEvicting, EVInv, EVTyped, EVOp1
<1>2. evOp.step = 1
  BY <1>1 DEF EVOrder
<1>3. evOp.run \in EVRuns /\ EVMayGo(evOp.run)
  BY <1>1, <1>2 DEF EVOp1, EVOpRec
<1>4. evOp' \in EVOpRec /\ evOp'.kind = evOp.kind /\ evOp'.seen = evOp.seen /\ evOp'.chosen = evOp.chosen /\ evOp'.run = evOp.run /\ evOp'.step = 2
  BY <1>1, <1>2 DEF EVOpRec
<1>5. /\ evRefs' \in [EVRuns -> SUBSET {"branch", "pin"}] /\ "pin" \in evRefs'[evOp.run]
      /\ \A r \in EVRuns : evRefs[r] \subseteq evRefs'[r] /\ (r # evOp.run => evRefs'[r] = evRefs[r])
  BY <1>1, <1>3 DEF EVInv, EVTyped
<1>6. EVTyped'
  BY <1>1, <1>4, <1>5 DEF EVInv, EVTyped, EVOthers
<1>7. ASSUME NEW r \in EVRuns  PROVE EVRun1(r)'
  <2>1. EVRun1(r)
    BY DEF EVInv
  <2>2. CASE r = evOp.run
    BY <1>1, <1>3, <1>5, <2>1, <2>2 DEF EVRun1, EVForgetSealed, EVOthers, EVMayGo
  <2>3. CASE r # evOp.run
    BY <1>1, <1>5, <2>1, <2>3 DEF EVRun1, EVForgetSealed, EVOthers
  <2> QED
    BY <2>2, <2>3
<1>8. EVOp1'
  BY <1>1, <1>2, <1>4, <1>5 DEF EVOp1, EVMayGo, EVForgetSealed, EVOthers
<1> QED
  BY <1>6, <1>7, <1>8 DEF EVInv

\* Its record is sealed.
LEMMA EVSealInv == ASSUME EVInv, EVSeal PROVE EVInv'
<1>1. /\ evOp \in EVOpRec /\ evOp.kind \in {"sweep", "release"} /\ evOp.step \in 1..3 /\ EVOthers /\ EVOp1 /\ IsFiniteSet(evOp.seen)
      /\ UNCHANGED <<evTree, evRefs, evForget, evThings, evGone>> /\ EVOrder[evOp.step] = "seal"
      /\ evRecord' = evRecord \cup {evOp.run} /\ evOp' = [evOp EXCEPT !.step = @ + 1]
  BY DEF EVSeal, EVEvicting, EVInv, EVTyped, EVOp1
<1>2. evOp.step = 2
  BY <1>1 DEF EVOrder
<1>3. evOp.run \in EVRuns /\ EVMayGo(evOp.run) /\ "pin" \in evRefs[evOp.run]
  BY <1>1, <1>2 DEF EVOp1, EVOpRec
<1>4. evOp' \in EVOpRec /\ evOp'.kind = evOp.kind /\ evOp'.seen = evOp.seen /\ evOp'.chosen = evOp.chosen /\ evOp'.run = evOp.run /\ evOp'.step = 3
  BY <1>1, <1>2 DEF EVOpRec
<1>5. EVTyped'
  BY <1>1, <1>3, <1>4 DEF EVInv, EVTyped, EVOthers
<1>6. ASSUME NEW r \in EVRuns  PROVE EVRun1(r)'
  BY <1>1, <1>3 DEF EVInv, EVRun1, EVForgetSealed, EVOthers, EVMayGo
<1>7. EVOp1'
  BY <1>1, <1>2, <1>3, <1>4 DEF EVOp1, EVMayGo, EVForgetSealed, EVOthers
<1> QED
  BY <1>5, <1>6, <1>7 DEF EVInv

\* Its worktree is removed.
LEMMA EVRemoveInv == ASSUME EVInv, EVRemove PROVE EVInv'
<1>1. /\ evOp \in EVOpRec /\ evOp.kind \in {"sweep", "release"} /\ evOp.step \in 1..3 /\ EVOthers /\ EVOp1 /\ EVEvicting
      /\ UNCHANGED <<evRefs, evRecord, evForget, evThings, evGone>> /\ EVOrder[evOp.step] = "remove"
      /\ evTree' = evTree \ {evOp.run} /\ evOp' = EVNextEviction
  BY DEF EVRemove, EVEvicting, EVInv, EVTyped, EVOp1
<1>2. evOp.step = 3
  BY <1>1 DEF EVOrder
<1>3. evOp.run \in EVRuns /\ EVMayGo(evOp.run) /\ "pin" \in evRefs[evOp.run] /\ evOp.run \in evRecord
  BY <1>1, <1>2 DEF EVOp1, EVOpRec
<1>4. evOp' \in EVOpRec /\ IsFiniteSet(evOp'.seen) /\ EVOp1'
  BY <1>1, EVNextIsSane
<1>5. EVTyped'
  BY <1>1, <1>4 DEF EVInv, EVTyped, EVOthers
<1>6. ASSUME NEW r \in EVRuns  PROVE EVRun1(r)'
  BY <1>1, <1>3 DEF EVInv, EVRun1, EVForgetSealed, EVOthers, EVMayGo
<1> QED
  BY <1>4, <1>5, <1>6 DEF EVInv

\* An eviction fails, and the sweep goes on.
LEMMA EVEvictFailsInv == ASSUME EVInv, EVEvictFails PROVE EVInv'
<1>1. EVEvicting /\ EVOthers /\ UNCHANGED evRunVars /\ evOp' = EVNextEviction
  BY DEF EVEvictFails
<1>2. UNCHANGED evForget
  BY <1>1 DEF evRunVars
<1> QED
  BY <1>1, <1>2, EVNextIsSane, EVMoves

-----------------------------------------------------------------------------
(* A release, and the forgetting of a run. *)

\* The eviction of some runs, before its first step.
EVBegun(S, r) == [EVIdle EXCEPT !.kind = "release", !.chosen = S, !.run = r, !.step = 1]

\* It is an operation, with these fields.
LEMMA EVBegunIsAnOp ==
  ASSUME NEW S \in SUBSET EVRuns, NEW r \in EVRuns
  PROVE  /\ EVBegun(S, r) \in EVOpRec /\ EVBegun(S, r).kind = "release" /\ EVBegun(S, r).seen = {}
         /\ EVBegun(S, r).chosen = S /\ EVBegun(S, r).run = r /\ EVBegun(S, r).step = 1
<1>1. EVBegun(S, r) = [kind |-> "release", todo |-> {}, seen |-> {}, chosen |-> S, run |-> r, step |-> 1]
  <2> DEFINE e == EVBegun(S, r)
  <2>1. e = [EVIdle EXCEPT !.kind = "release", !.chosen = S, !.run = r, !.step = 1]
    BY DEF EVBegun
  <2> HIDE DEF e
  <2>2. e = [kind |-> "release", todo |-> {}, seen |-> {}, chosen |-> S, run |-> r, step |-> 1]
    BY <2>1 DEF EVIdle
  <2> QED
    BY <2>2 DEF e
<1>2. 1 \in 0..10 /\ r \in EVRuns \cup {0} /\ {} \in SUBSET EVRuns /\ {} \in SUBSET EVCands
  OBVIOUS
<1>3. [kind |-> "release", todo |-> {}, seen |-> {}, chosen |-> S, run |-> r, step |-> 1] \in EVOpRec
  BY <1>2 DEF EVOpRec
<1>4. EVBegun(S, r) \in EVOpRec
  BY <1>1, <1>3
<1>5. EVBegun(S, r).kind = "release" /\ EVBegun(S, r).step = 1
  BY <1>1
<1>6. EVBegun(S, r).seen = {} /\ EVBegun(S, r).chosen = S
  BY <1>1
<1>7. EVBegun(S, r).run = r
  BY <1>1
<1> QED
  BY <1>4, <1>5, <1>6, <1>7

\* An eviction of finished runs begins.
LEMMA EVBeginIsSane ==
  ASSUME EVInv, EVOthers, UNCHANGED <<evRefs, evForget>>, NEW S \in SUBSET EVRuns, NEW r \in S, \A q \in S : EVMayGo(q),
         evOp' = [EVIdle EXCEPT !.kind = "release", !.chosen = S, !.run = r, !.step = 1]
  PROVE  evOp' \in EVOpRec /\ IsFiniteSet(evOp'.seen) /\ EVOp1'
<1>1. evOp' = EVBegun(S, r)
  BY DEF EVBegun
<1>2. r \in EVRuns
  OBVIOUS
<1>3. /\ evOp' \in EVOpRec /\ evOp'.kind = "release" /\ evOp'.seen = {} /\ evOp'.chosen = S /\ evOp'.run = r /\ evOp'.step = 1
  <2>1. /\ EVBegun(S, r) \in EVOpRec /\ EVBegun(S, r).kind = "release" /\ EVBegun(S, r).seen = {}
        /\ EVBegun(S, r).chosen = S /\ EVBegun(S, r).run = r /\ EVBegun(S, r).step = 1
    BY <1>2, EVBegunIsAnOp, ZenonT(30)
  <2> QED
    BY <1>1, <2>1, Zenon
<1>4. EVOp1'
  BY <1>3 DEF EVOp1, EVMayGo, EVForgetSealed, EVOthers
<1> QED
  BY <1>3, <1>4, FS_EmptySet

\* A worktree is released.
LEMMA EVReleaseInv == ASSUME EVInv, NEW r \in EVRuns, EVRelease(r) PROVE EVInv'
<1>1. /\ evOp = EVIdle /\ ~EVForgetSealed(r) /\ r \in evFinal /\ EVOthers /\ UNCHANGED <<evRefs, evRecord, evForget, evThings, evGone>>
      /\ IF r \in evRecord THEN evTree' = evTree \ {r} /\ UNCHANGED evOp
         ELSE evOp' = [EVIdle EXCEPT !.kind = "release", !.chosen = {r}, !.run = r, !.step = 1] /\ UNCHANGED evTree
  BY DEF EVRelease
<1>2. CASE r \in evRecord
  <2>1. evTree' = evTree \ {r} /\ evOp' = EVIdle
    BY <1>1, <1>2
  <2>2. EVTyped'
    BY <1>1, <2>1, EVIdleIsSane DEF EVInv, EVTyped, EVOthers
  <2>3. ASSUME NEW q \in EVRuns  PROVE EVRun1(q)'
    BY <1>1, <1>2, <2>1 DEF EVInv, EVRun1, EVForgetSealed, EVOthers
  <2>4. EVOp1'
    BY <2>1, EVIdleIsSane DEF EVOp1
  <2> QED
    BY <2>2, <2>3, <2>4 DEF EVInv
<1>3. CASE r \notin evRecord
  <2>1. evOp' = [EVIdle EXCEPT !.kind = "release", !.chosen = {r}, !.run = r, !.step = 1] /\ UNCHANGED evRunVars
    BY <1>1, <1>3 DEF evRunVars
  <2>2. evOp' \in EVOpRec /\ IsFiniteSet(evOp'.seen) /\ EVOp1'
    <3>1. {r} \in SUBSET EVRuns /\ r \in {r} /\ \A q \in {r} : EVMayGo(q)
      BY <1>1 DEF EVMayGo
    <3> QED
      BY <1>1, <2>1, <3>1, EVBeginIsSane
  <2> QED
    BY <1>1, <2>1, <2>2, EVMoves
<1> QED
  BY <1>2, <1>3

\* The worktrees of a repository are released.
LEMMA EVReleaseRepositoryInv == ASSUME EVInv, EVReleaseRepository PROVE EVInv'
<1> DEFINE mine == {r \in evFinal \cap evTree : ~EVForgetSealed(r)}
           fresh == mine \ evRecord
<1>1. /\ evOp = EVIdle /\ EVOthers /\ UNCHANGED <<evRefs, evRecord, evForget, evThings, evGone>>
      /\ evTree' = evTree \ (mine \cap evRecord)
      /\ evOp' = IF fresh = {} THEN EVIdle ELSE [EVIdle EXCEPT !.kind = "release", !.chosen = fresh, !.run = Min(fresh), !.step = 1]
  BY DEF EVReleaseRepository
<1>2. fresh \in SUBSET EVRuns /\ \A r \in fresh : EVMayGo(r)
  BY DEF EVInv, EVTyped, EVMayGo
<1>3. \A r \in mine : ~EVForgetSealed(r) /\ r \in evFinal
  OBVIOUS
<1> HIDE DEF fresh, mine
<1>4. evOp' \in EVOpRec /\ IsFiniteSet(evOp'.seen) /\ EVOp1'
  <2>1. CASE fresh = {}
    <3>1. evOp' = EVIdle
      BY <1>1, <2>1
    <3> QED
      BY <3>1, EVIdleIsSane DEF EVOp1
  <2>2. CASE fresh # {}
    <3>1. Min(fresh) \in fresh
      BY <1>2, <2>2, EVMinIsMember
    <3> QED
      BY <1>1, <1>2, <2>2, <3>1, EVBeginIsSane
  <2> QED
    BY <2>1, <2>2
<1>5. EVTyped'
  BY <1>1, <1>4 DEF EVInv, EVTyped, EVOthers
<1>6. ASSUME NEW q \in EVRuns  PROVE EVRun1(q)'
  BY <1>1, <1>3 DEF EVInv, EVRun1, EVForgetSealed, EVOthers
<1> QED
  BY <1>4, <1>5, <1>6 DEF EVInv

\* The forgetting of a run is sealed, or taken up again.
LEMMA EVForgetInv == ASSUME EVInv, NEW r \in EVRuns, EVForget(r) PROVE EVInv'
<1>1. /\ EVForgetSealed(r) \/ r \in evFinal
      /\ evForget' = [evForget EXCEPT ![r] = IF @ = EVUnsealed THEN EVListed(r) ELSE @]
      /\ evOp' = [EVIdle EXCEPT !.kind = "forget", !.run = r, !.step = 1]
      /\ EVOthers /\ UNCHANGED <<evTree, evRefs, evRecord, evThings, evGone>>
  BY DEF EVForget, EVMaySeal
<1>2. /\ evForget' \in [EVRuns -> SUBSET {"branch", "pin", "none"}]
      /\ \A q \in EVRuns : q # r => evForget'[q] = evForget[q]
      /\ evForget'[r] = IF EVForgetSealed(r) THEN evForget[r] ELSE evRefs[r]
  BY <1>1 DEF EVInv, EVTyped, EVForgetSealed, EVListed
<1>3. "none" \notin evRefs[r]
  BY DEF EVInv, EVTyped
<1>4. EVForgetSealed(r)'
  BY <1>2, <1>3 DEF EVForgetSealed, EVUnsealed
<1>5. evOp' \in EVOpRec /\ evOp'.seen = {} /\ evOp'.kind = "forget" /\ evOp'.run = r /\ evOp'.step = 1
  <2>1. evOp' = [kind |-> "forget", todo |-> {}, seen |-> {}, chosen |-> {}, run |-> r, step |-> 1]
    BY <1>1 DEF EVIdle
  <2>2. 1 \in 0..10 /\ r \in EVRuns \cup {0}
    OBVIOUS
  <2> QED
    BY <2>1, <2>2 DEF EVOpRec
<1>6. EVTyped'
  BY <1>1, <1>2, <1>5, FS_EmptySet DEF EVInv, EVTyped, EVOthers
<1>7. ASSUME NEW q \in EVRuns  PROVE EVRun1(q)'
  <2>1. EVRun1(q)
    BY DEF EVInv
  <2>2. CASE q = r
    BY <1>1, <1>2, <1>4, <2>1, <2>2 DEF EVRun1, EVForgetSealed, EVOthers
  <2>3. CASE q # r
    BY <1>1, <1>2, <2>1, <2>3 DEF EVRun1, EVForgetSealed, EVOthers
  <2> QED
    BY <2>2, <2>3
<1>8. EVOp1'
  BY <1>4, <1>5 DEF EVOp1, EVTaken
<1> QED
  BY <1>6, <1>7, <1>8 DEF EVInv

\* The names of the steps are apart.
LEMMA EVStepNames ==
  ASSUME NEW i \in 1..10
  PROVE  /\ (EVStepAt(i) = "previews") = (i = 1)    /\ (EVStepAt(i) = "worktree") = (i = 2)
         /\ (EVStepAt(i) = "refs") = (i = 3)        /\ (EVStepAt(i) = "inputs") = (i = 4)
         /\ (EVStepAt(i) = "progress") = (i = 5)    /\ (EVStepAt(i) = "eviction-record") = (i = 6)
         /\ (EVStepAt(i) = "evidence") = (i = 7)    /\ (EVStepAt(i) = "sessions") = (i = 8)
         /\ (EVStepAt(i) = "activity") = (i = 9)    /\ (EVStepAt(i) = "ledger") = (i = 10)
<1>1. i = 1 \/ i = 2 \/ i = 3 \/ i = 4 \/ i = 5 \/ i = 6 \/ i = 7 \/ i = 8 \/ i = 9 \/ i = 10
  OBVIOUS
<1> QED
  BY <1>1 DEF EVStepAt, EVSteps

\* A step of the forgetting.
LEMMA EVFinishStepInv == ASSUME EVInv, EVFinishStep PROVE EVInv'
<1>0. evOp.run \in EVRuns /\ evOp.step \in 1..10
  BY DEF EVFinishStep, EVInv, EVOp1
<1>r. PICK r \in EVRuns : r = evOp.run
  BY <1>0
<1>i. PICK i \in 1..10 : i = evOp.step
  BY <1>0
<1> DEFINE s == EVStepAt(i)
<1>1. /\ evOp.kind = "forget" /\ EVOp1 /\ EVTyped /\ UNCHANGED <<evFinal, evStream, evHeld, evUse, evDue, evForget, evUses>>
      /\ evTree' = IF s = "worktree" THEN EVTreesLeft(r) ELSE evTree
      /\ evRefs' = IF s = "refs" THEN [evRefs EXCEPT ![r] = EVRefsLeft(r)] ELSE evRefs
      /\ evRecord' = IF s = "eviction-record" THEN evRecord \ {r} ELSE evRecord
      /\ evThings' = EVThingsLeft(r, s)
      /\ evPreview' = IF s = "previews" THEN evPreview \ {r} ELSE evPreview
      /\ evGone' = IF s = "ledger" THEN EVSaid(r) ELSE evGone
      /\ evOp' = IF evOp.step = Len(EVSteps) THEN EVIdle ELSE [evOp EXCEPT !.step = @ + 1]
  BY <1>r, <1>i DEF EVFinishStep, EVInv
<1>2. r \in EVRuns /\ i \in 1..10 /\ EVForgetSealed(r) /\ EVTaken(r, i) /\ evOp \in EVOpRec /\ IsFiniteSet(evOp.seen)
  BY <1>1, <1>r, <1>i DEF EVOp1, EVTyped
<1>3. Len(EVSteps) = 10
  BY DEF EVSteps
<1>4. EVRun1(r) /\ r \in evFinal /\ evRefs[r] \subseteq evForget[r]
  BY <1>2 DEF EVInv, EVRun1
<1>5. /\ evThings' \in [EVRuns -> SUBSET EVThings] /\ evThings'[r] = evThings[r] \ {s}
      /\ \A q \in EVRuns : q # r => evThings'[q] = evThings[q]
  BY <1>1, <1>2 DEF EVThingsLeft, EVTyped
<1>6. /\ evRefs' \in [EVRuns -> SUBSET {"branch", "pin"}] /\ evRefs'[r] = (IF s = "refs" THEN {} ELSE evRefs[r])
      /\ \A q \in EVRuns : q # r => evRefs'[q] = evRefs[q]
  <2>1. EVRefsLeft(r) = {}
    BY <1>4 DEF EVRefsLeft
  <2> QED
    BY <1>1, <1>2, <2>1 DEF EVTyped
<1>7. evTree' = (IF s = "worktree" THEN evTree \ {r} ELSE evTree) /\ evGone' = (IF s = "ledger" THEN evGone \cup {r} ELSE evGone)
  BY <1>1 DEF EVTreesLeft, EVSaid
<1>8. EVTaken(r, i + 1)'
  <2>1. \A n \in {1, 2, 3, 4, 5, 6, 7, 8, 9} : i + 1 > n => i > n \/ i = n
    BY <1>2
  <2> QED
    BY <1>1, <1>2, <1>5, <1>6, <1>7, <2>1, EVStepNames DEF EVTaken
<1>9. s = "ledger" => /\ r \notin evTree' \cup evRecord' \cup evPreview' /\ evRefs'[r] = {} /\ evThings'[r] = {}
  <2>1. ASSUME s = "ledger"  PROVE i = 10
    BY <1>2, <2>1, EVStepNames
  <2>2. i = 10 => EVTaken(r, 11)'
    <3>1. i = 10 => i + 1 = 11
      OBVIOUS
    <3> QED
      BY <1>8, <3>1
  <2>3. i = 10 => /\ r \notin evTree' \cup evRecord' \cup evPreview' /\ evRefs'[r] = {}
                  /\ evThings'[r] \cap EVThings = {}
    BY <2>2 DEF EVTaken, EVThings
  <2> QED
    BY <1>2, <1>5, <2>1, <2>3
<1>10. evOp' \in EVOpRec /\ IsFiniteSet(evOp'.seen) /\ EVOp1'
  <2>1. CASE i = 10
    <3>1. evOp' = EVIdle
      BY <1>1, <1>3, <1>i, <2>1
    <3> QED
      BY <3>1, EVIdleIsSane DEF EVOp1
  <2>2. CASE i # 10
    <3>1. evOp' = [evOp EXCEPT !.step = i + 1] /\ i + 1 \in 1..10 /\ i + 1 \in 0..10
      BY <1>1, <1>2, <1>3, <1>i, <2>2
    <3>2. evOp' \in EVOpRec /\ evOp'.seen = evOp.seen /\ evOp'.kind = "forget" /\ evOp'.run = r /\ evOp'.step = i + 1
      BY <1>1, <1>2, <1>r, <3>1 DEF EVOpRec
    <3>3. EVForgetSealed(r)'
      BY <1>1, <1>2 DEF EVForgetSealed
    <3>4. (r \in EVRuns /\ i + 1 \in 1..10 /\ EVForgetSealed(r) /\ EVTaken(r, i + 1))'
      BY <1>2, <1>8, <3>1, <3>3
    <3>5. r = evOp'.run /\ i + 1 = evOp'.step
      BY <3>2
    <3>6. EVOp1'
      <4>1. ~(evOp'.kind \in {"sweep", "release"})
        BY <3>2
      <4>2. (evOp.run \in EVRuns /\ evOp.step \in 1..10 /\ EVForgetSealed(evOp.run) /\ EVTaken(evOp.run, evOp.step))'
        BY <3>4, <3>5 DEF EVForgetSealed, EVTaken
      <4> QED
        BY <4>1, <4>2 DEF EVOp1
    <3> QED
      BY <1>2, <3>2, <3>6
  <2> QED
    BY <2>1, <2>2
<1>11. EVTyped'
  BY <1>1, <1>2, <1>5, <1>6, <1>7, <1>10 DEF EVTyped
<1>12. ASSUME NEW q \in EVRuns  PROVE EVRun1(q)'
  <2>1. EVRun1(q)
    BY DEF EVInv
  <2>2. CASE q = r
    <3> HIDE DEF s
    <3>1. q \in evGone' => q \in evGone \/ s = "ledger"
      BY <1>7
    <3>2. q \in evGone => q \notin evTree \cup evRecord \cup evPreview /\ evRefs[q] = {} /\ evThings[q] = {}
      BY <2>1 DEF EVRun1
    <3> QED
      BY <1>1, <1>2, <1>4, <1>5, <1>6, <1>7, <1>9, <2>2, <3>1, <3>2 DEF EVRun1, EVForgetSealed
  <2>3. CASE q # r
    BY <1>1, <1>5, <1>6, <1>7, <2>1, <2>3 DEF EVRun1, EVForgetSealed
  <2> QED
    BY <2>2, <2>3
<1> QED
  BY <1>10, <1>11, <1>12 DEF EVInv

\* It fails, or the process dies.
LEMMA EVStopsInv == ASSUME EVInv, EVFinishFails \/ EVDies PROVE EVInv'
<1>1. evOp' = EVIdle /\ UNCHANGED <<evRunVars, evFinal, evPreview, evHeld, evUse, evDue, evUses>> /\ (evStream' = {} \/ UNCHANGED evStream)
  BY DEF EVFinishFails, EVDies, EVOthers
<1>2. EVTyped'
  BY <1>1, EVIdleIsSane DEF EVInv, EVTyped, evRunVars
<1>3. \A r \in EVRuns : EVRun1(r)'
  BY <1>1 DEF EVInv, EVRun1, evRunVars, EVForgetSealed
<1>4. EVOp1'
  BY <1>1, EVIdleIsSane DEF EVOp1
<1> QED
  BY <1>2, <1>3, <1>4 DEF EVInv

\* Old session logs are removed.
LEMMA EVNightlyInv == ASSUME EVInv, EVNightly PROVE EVInv'
<1>1. /\ evThings' = [r \in EVRuns |-> IF r \in EVOldSessions THEN evThings[r] \ {"sessions"} ELSE evThings[r]]
      /\ EVOthers /\ UNCHANGED <<evTree, evRefs, evRecord, evForget, evGone, evOp>>
  BY DEF EVNightly
<1>2. evThings' \in [EVRuns -> SUBSET EVThings]
  BY <1>1 DEF EVInv, EVTyped
<1>3. \A r \in EVRuns : evThings'[r] \subseteq evThings[r] /\ (r \notin evFinal => evThings'[r] = evThings[r])
  BY <1>1 DEF EVOldSessions
<1>4. EVTyped'
  BY <1>1, <1>2 DEF EVInv, EVTyped, EVOthers
<1>5. \A r \in EVRuns : EVRun1(r)'
  BY <1>1, <1>3 DEF EVInv, EVRun1, EVOthers, EVForgetSealed
<1>6. EVOp1'
  BY <1>1, <1>3 DEF EVInv, EVOp1, EVOthers, EVForgetSealed, EVMayGo, EVTaken
<1> QED
  BY <1>4, <1>5, <1>6 DEF EVInv

-----------------------------------------------------------------------------
(* The runs and who uses them. *)

\* A step of a run, or of who uses it.
LEMMA EVWorldInv ==
  ASSUME EVInv, NEW r \in EVRuns, EVFinishes(r) \/ EVWatch(r) \/ EVLeave(r) \/ EVPreviews(r) \/ EVHold(r) \/ EVAge(r)
  PROVE  EVInv'
<1>1. UNCHANGED <<evTree, evRefs, evRecord, evForget, evThings, evGone, evOp>>
  BY DEF EVFinishes, EVWatch, EVLeave, EVPreviews, EVHold, EVAge, EVWorld, evRunVars
<1>2. evFinal \subseteq evFinal'
  BY DEF EVFinishes, EVWatch, EVLeave, EVPreviews, EVHold, EVAge
<1>3. \A q \in evPreview' : q \in evPreview \/ (q = r /\ ~EVForgetSealed(r))
  BY DEF EVFinishes, EVWatch, EVLeave, EVPreviews, EVHold, EVAge, EVForgetSealed
<1>4. EVTyped'
  BY <1>1 DEF EVFinishes, EVWatch, EVLeave, EVPreviews, EVHold, EVAge, EVInv, EVTyped
<1>5. \A q \in EVRuns : EVRun1(q)'
  BY <1>1, <1>2, <1>3 DEF EVInv, EVRun1, EVForgetSealed
<1>6. EVOp1'
  BY <1>1, <1>2, <1>3 DEF EVInv, EVOp1, EVForgetSealed, EVMayGo, EVTaken
<1> QED
  BY <1>4, <1>5, <1>6 DEF EVInv

\* The invariant, for any runs, sizes, uses and faults.
THEOREM EvictionInvariant == EVSpec => []EVInv
<1>1. ASSUME EVInv, [EVNext]_evVars  PROVE EVInv'
  <2>1. CASE UNCHANGED evVars
    BY <1>1, <2>1 DEF evVars, EVInv, EVTyped, EVRun1, EVOp1, EVForgetSealed, EVMayGo, EVTaken
  <2>2. CASE EVNext
    BY <1>1, <2>2, EVSweepInv, EVInspectInv, EVDecideInv, EVPinInv, EVSealInv, EVRemoveInv, EVEvictFailsInv, EVReleaseInv,
       EVReleaseRepositoryInv, EVForgetInv, EVFinishStepInv, EVStopsInv, EVNightlyInv, EVWorldInv DEF EVNext
  <2> QED
    BY <1>1, <2>1, <2>2
<1> QED
  BY <1>1, EVInitInv, PTL DEF EVSpec

-----------------------------------------------------------------------------
(* The quota. *)

\* Of the candidates that could go and stay one was used least recently.
LEMMA EVLeastUsed ==
  ASSUME NEW K \in SUBSET EVCands, K # {}
  PROVE  \E c \in K : \A d \in K : ~EVBefore(d, c)
<1>1. \A c \in K : c.use \in Nat /\ c.run \in Nat
  BY EVAssumption DEF EVCands
<1>2. PICK u \in {c.use : c \in K} : \A v \in {c.use : c \in K} : u <= v
  <2>1. {c.use : c \in K} \in SUBSET Nat /\ {c.use : c \in K} # {}
    BY <1>1
  <2> QED
    BY <2>1, LeastNumber
<1> DEFINE L == {c \in K : c.use = u}
<1>3. PICK n \in {c.run : c \in L} : \A m \in {c.run : c \in L} : n <= m
  <2>1. {c.run : c \in L} \in SUBSET Nat /\ {c.run : c \in L} # {}
    BY <1>1
  <2> QED
    BY <2>1, LeastNumber
<1>4. PICK c \in L : c.run = n
  OBVIOUS
<1>5. ASSUME NEW d \in K, EVBefore(d, c)  PROVE FALSE
  <2>1. u <= d.use /\ c.use = u /\ u \in Nat
    BY <1>1, <1>2
  <2>2. d.use = u /\ d.run < n
    BY <1>1, <1>4, <1>5, <2>1 DEF EVBefore
  <2>3. n <= d.run
    BY <1>3, <2>2
  <2> QED
    BY <1>1, <1>4, <2>2, <2>3
<1> QED
  BY <1>5

\* A larger set of worktrees takes no less.
LEMMA EVSizeGrows ==
  ASSUME NEW T \in SUBSET EVCands, IsFiniteSet(T), NEW S \in SUBSET T
  PROVE  EVSize(S) <= EVSize(T) /\ EVSize(S) \in Nat /\ EVSize(T) \in Nat
<1> DEFINE b == [c \in T |-> EVBytes(c.run)]
<1>1. \A c \in T : EVBytes(c.run) \in Nat
  BY EVAssumption DEF EVCands
<1>2. b \in [T -> Nat]
  BY <1>1
<1> HIDE DEF b
<1>3. PICK g : SumStep(g, b, T)
  BY <1>2, SumExists
<1>4. EVSize(S) = g[S] /\ EVSize(T) = g[T]
  BY <1>1, <1>3, EVSizeIsSum DEF b
<1>5. g[S] \in Nat /\ g[T] \in Nat
  BY <1>2, <1>3, SumUnique
<1> QED
  BY <1>2, <1>3, <1>4, <1>5, SumGrows

\* What Policy.Decide leaves fits the quota, or nothing of it could go.
LEMMA EVDecidesForTheQuota ==
  ASSUME NEW cands \in SUBSET EVCands, IsFiniteSet(cands)
  PROVE  LET kept == cands \ EVDecided(cands) IN EVSize(kept) <= EVQuota \/ \A c \in kept : ~c.evictable
<1> DEFINE aged == EVAged(cands)
           kept == cands \ EVDecided(cands)
           lru == {c \in cands \ aged : c.evictable}
           K == {c \in kept : c.evictable}
<1> SUFFICES ASSUME K # {}  PROVE EVSize(kept) <= EVQuota
  OBVIOUS
<1>1. PICK c \in K : \A d \in K : ~EVBefore(d, c)
  <2>1. K \in SUBSET EVCands
    OBVIOUS
  <2> HIDE DEF K
  <2> QED
    BY <2>1, EVLeastUsed
<1> DEFINE others == (cands \ aged) \ {d \in lru : EVBefore(d, c)}
<1>2. c \in lru /\ c \notin EVQuotaVictims(cands, aged)
  BY <1>1 DEF EVDecided
<1>3. ~(EVSize(others) > EVQuota)
  BY <1>2 DEF EVQuotaVictims, EVSize
<1>4. kept \subseteq others
  <2> SUFFICES ASSUME NEW d \in kept  PROVE d \in others
    OBVIOUS
  <2>1. d \in cands \ aged
    BY DEF EVDecided
  <2>2. d.evictable => d \in K
    OBVIOUS
  <2> QED
    BY <1>1, <2>1, <2>2
<1>5. others \in SUBSET EVCands /\ IsFiniteSet(others)
  BY FS_Subset
<1> HIDE DEF others, kept
<1>6. EVSize(kept) <= EVSize(others) /\ EVSize(kept) \in Nat /\ EVSize(others) \in Nat
  BY <1>4, <1>5, EVSizeGrows
<1> QED
  BY <1>3, <1>6, EVAssumption

\* What the sweeper, the release and the forgetting of runs may never do, for any
\* runs and sizes, however often a step fails or the service dies.
THEOREM EvictionIsSound == EVSpec => []EVSound
<1>1. EVInv => EVSound
  <2> SUFFICES ASSUME EVInv  PROVE EVSound
    OBVIOUS
  <2>1. EVTypeOK
    <3>1. evOp.kind \in {"idle", "sweep", "release", "forget"} /\ evOp.step \in 0..10
      BY DEF EVInv, EVTyped, EVOpRec
    <3> QED
      BY <3>1 DEF EVInv, EVTyped, EVTypeOK
  <2>2. EVPinnedBeforeGone /\ EVForgottenIsGone /\ EVUnfinishedKeeps
    BY DEF EVInv, EVTyped, EVRun1, EVForgetSealed, EVPinnedBeforeGone, EVForgottenIsGone, EVUnfinishedKeeps
  <2>3. EVQuotaHolds
    <3>1. evOp.seen \in SUBSET EVCands /\ IsFiniteSet(evOp.seen)
      BY DEF EVInv, EVTyped, EVOpRec
    <3>2. \A c \in EVDecided(evOp.seen) : c.evictable
      BY DEF EVDecided, EVAged, EVQuotaVictims
    <3> DEFINE seen == evOp.seen
    <3> HIDE DEF seen
    <3>3. LET kept == seen \ EVDecided(seen) IN EVSize(kept) <= EVQuota \/ \A c \in kept : ~c.evictable
      BY <3>1, EVDecidesForTheQuota DEF seen
    <3> QED
      BY <3>2, <3>3 DEF EVQuotaHolds, EVSize, seen
  <2> QED
    BY <2>1, <2>2, <2>3 DEF EVSound
<1> QED
  BY <1>1, EvictionInvariant, PTL

-----------------------------------------------------------------------------
(* The pull request of a resource. *)

\* The sum of the values of a function.
SumOfAll(f, T) == (CHOOSE g : SumStep(g, f, T))[T]

\* It is the last of the sums over the subsets of its domain.
LEMMA SumOfAllIs ==
  ASSUME NEW T, IsFiniteSet(T), NEW f \in [T -> Nat]
  PROVE  /\ \E g : SumStep(g, f, T)
         /\ \A g : SumStep(g, f, T) => SumOfAll(f, T) = g[T]
         /\ SumOfAll(f, T) \in Nat
<1>1. PICK g \in [SUBSET T -> Nat] : SumStep(g, f, T)
  BY SumExists
<1>2. SumStep(CHOOSE h : SumStep(h, f, T), f, T)
  BY <1>1
<1>3. \A x \in T : f[x] = f[x] /\ f[x] \in Nat
  OBVIOUS
<1>4. ASSUME NEW h, SumStep(h, f, T)  PROVE SumOfAll(f, T) = h[T] /\ h[T] \in Nat
  <2> DEFINE k == CHOOSE e : SumStep(e, f, T)
  <2>1. SumStep(k, f, T)
    BY <1>2
  <2>2. T \in SUBSET T
    OBVIOUS
  <2> HIDE DEF k
  <2>3. \A s \in SUBSET T : h[s] = k[s] /\ h[s] \in Nat
    BY <1>3, <1>4, <2>1, <2>2, SumUnique
  <2> QED
    BY <2>2, <2>3 DEF SumOfAll, k
<1> QED
  BY <1>1, <1>4

\* A sum restricted to a part.
LEMMA SumOfPart ==
  ASSUME NEW T, IsFiniteSet(T), NEW f \in [T -> Nat], NEW U \in SUBSET T, NEW e, \A x \in U : f[x] = e[x],
         NEW g, SumStep(g, f, T), NEW d, SumStep(d, e, U)
  PROVE  g[U] = d[U] /\ g[U] \in Nat
<1>1. \A x \in U : f[x] = e[x] /\ f[x] \in Nat
  OBVIOUS
<1>2. \A s \in SUBSET U : g[s] = d[s] /\ g[s] \in Nat
  BY <1>1, SumUnique
<1> QED
  BY <1>2

\* A sum in which one number changes.
LEMMA SumChanges ==
  ASSUME NEW T, IsFiniteSet(T), NEW f \in [T -> Nat], NEW h \in [T -> Nat], NEW y \in T, \A x \in T \ {y} : h[x] = f[x]
  PROVE  SumOfAll(h, T) + f[y] = SumOfAll(f, T) + h[y]
<1> DEFINE U == T \ {y}
           e == [x \in U |-> f[x]]
<1>1. IsFiniteSet(U) /\ U \in SUBSET T /\ e \in [U -> Nat] /\ T \in SUBSET T
  BY FS_Subset
<1>2. PICK g : SumStep(g, f, T)
  BY SumOfAllIs
<1>3. PICK k : SumStep(k, h, T)
  BY SumOfAllIs
<1>4. PICK d : SumStep(d, e, U)
  BY <1>1, SumOfAllIs
<1>5. (\A x \in U : f[x] = e[x]) /\ (\A x \in U : h[x] = e[x])
  OBVIOUS
<1> HIDE DEF e, U
<1>6. g[U] = d[U] /\ g[U] \in Nat
  BY <1>1, <1>2, <1>4, <1>5, SumOfPart
<1>7. k[U] = d[U] /\ k[U] \in Nat
  BY <1>1, <1>3, <1>4, <1>5, SumOfPart
<1>8. g[T] = f[y] + g[U] /\ k[T] = h[y] + k[U]
  BY <1>1, <1>2, <1>3, SumOrder, SMTT(20) DEF U
<1>9. SumOfAll(f, T) = g[T] /\ SumOfAll(h, T) = k[T]
  BY <1>2, <1>3, SumOfAllIs
<1>10. g[U] = k[U] /\ g[U] \in Nat /\ f[y] \in Nat /\ h[y] \in Nat
  BY <1>6, <1>7
<1> QED
  BY <1>8, <1>9, <1>10

\* A sum to which a number is added.
LEMMA SumTakesOne ==
  ASSUME NEW T, IsFiniteSet(T), NEW U \in SUBSET T, NEW y \in T, U = T \ {y}, NEW f \in [T -> Nat], NEW e \in [U -> Nat], \A x \in U : f[x] = e[x]
  PROVE  SumOfAll(f, T) = f[y] + SumOfAll(e, U)
<1>1. IsFiniteSet(U) /\ T \in SUBSET T
  BY FS_Subset
<1>2. PICK g : SumStep(g, f, T)
  BY SumOfAllIs
<1>3. PICK d : SumStep(d, e, U)
  BY <1>1, SumOfAllIs
<1>5. g[U] = d[U] /\ g[U] \in Nat
  BY <1>1, <1>2, <1>3, SumOfPart
<1>6. g[T] = f[y] + g[U]
  BY <1>1, <1>2, SumOrder
<1> QED
  BY <1>1, <1>2, <1>3, <1>5, <1>6, SumOfAllIs

\* A sum of zeros.
LEMMA SumOfZeros ==
  ASSUME NEW T, IsFiniteSet(T), NEW f \in [T -> Nat], \A x \in T : f[x] = 0
  PROVE  SumOfAll(f, T) = 0
<1> DEFINE g == [s \in SUBSET T |-> 0]
<1>1. SumStep(g, f, T)
  <2>1. \A s \in SUBSET T : s # {} => f[CHOOSE x \in s : TRUE] = 0 /\ g[s \ {CHOOSE x \in s : TRUE}] = 0
    OBVIOUS
  <2> QED
    BY <2>1 DEF SumStep
<1>2. g[T] = 0
  OBVIOUS
<1> HIDE DEF g
<1> QED
  BY <1>1, <1>2, SumOfAllIs

-----------------------------------------------------------------------------
PLThree == {"no", "yes", "torn"}
PLWhos == PLRequests \cup {"none"}
PLOutcomes == {"none", "CONFIRMED", "RECONCILED", "DIVERGED"}
PLRevRec ==
  [req : PLWhos, pr : Nat, generation : PLThree, submitted : PLThree, terminal : PLThree, outcome : PLOutcomes, superseded : PLThree,
   preps : Nat, resumes : Nat, rounds : Nat, got : Nat, torn : BOOLEAN]
PLPrepRec == [count : [PLRuns -> 0..PLPrepareRounds], torn : BOOLEAN]
PLKinds == {"generation", "submitted", "terminal", "superseded"}
\* The records of a revision.
PLSize(r) == 1 + r.preps + r.resumes + r.rounds + Cardinality({k \in PLKinds : PLThere(r[k])})
PLSizes(q) == [o \in 1..Len(q) |-> PLSize(q[o])]

\* What PLPreps counts.
LEMMA PLPrepsAre ==
  plPrep \in PLPrepRec => PLPreps = SumOfAll(plPrep.count, PLRuns) + (IF plPrep.torn THEN 1 ELSE 0)
<1> SUFFICES ASSUME plPrep \in PLPrepRec  PROVE PLPreps = SumOfAll(plPrep.count, PLRuns) + (IF plPrep.torn THEN 1 ELSE 0)
  OBVIOUS
<1> DEFINE c == plPrep.count
           x(s) == CHOOSE y \in s : TRUE
           Is(e) == e = [s \in SUBSET PLRuns |-> IF s = {} THEN 0 ELSE c[x(s)] + e[s \ {x(s)}]]
<1>1. PLPreps = (CHOOSE e : Is(e))[PLRuns] + (IF plPrep.torn THEN 1 ELSE 0)
  BY DEF PLPreps, MapThenSumSet, MapThenFoldSet
<1>2. \A e : Is(e) <=> SumStep(e, c, PLRuns)
  BY DEF SumStep
<1>3. IsFiniteSet(PLRuns) /\ c \in [PLRuns -> Nat]
  BY PLAssumption DEF PLPrepRec
<1> HIDE DEF c, Is
<1>4. \E e : Is(e)
  BY <1>2, <1>3, SumOfAllIs
<1>5. Is(CHOOSE e : Is(e))
  BY <1>4
<1>6. SumOfAll(c, PLRuns) = (CHOOSE e : Is(e))[PLRuns]
  BY <1>2, <1>3, <1>5, SumOfAllIs
<1> QED
  BY <1>1, <1>6 DEF c

\* The preparations are counted by a number.
LEMMA PLPrepsAreNat == ASSUME plPrep \in PLPrepRec PROVE PLPreps \in Nat
<1>1. IsFiniteSet(PLRuns) /\ plPrep.count \in [PLRuns -> Nat]
  BY PLAssumption DEF PLPrepRec
<1>2. SumOfAll(plPrep.count, PLRuns) \in Nat
  BY <1>1, SumOfAllIs
<1> QED
  BY <1>2, PLPrepsAre

\* There are four kinds of records.
LEMMA PLKindsAreFew == IsFiniteSet(PLKinds)
<1>1. IsFiniteSet({"generation"}) /\ IsFiniteSet({"submitted"}) /\ IsFiniteSet({"terminal"}) /\ IsFiniteSet({"superseded"})
  BY FS_Singleton
<1>2. IsFiniteSet({"generation"} \cup {"submitted"}) /\ IsFiniteSet({"terminal"} \cup {"superseded"})
  BY <1>1, FS_Union
<1>3. PLKinds = ({"generation"} \cup {"submitted"}) \cup ({"terminal"} \cup {"superseded"})
  BY DEF PLKinds
<1> QED
  BY <1>2, <1>3, FS_Union

\* The records of a revision are counted by a number.
LEMMA PLSizeIsNat == ASSUME NEW r \in PLRevRec PROVE PLSize(r) \in Nat
<1>2. Cardinality({k \in PLKinds : PLThere(r[k])}) \in Nat
  BY PLKindsAreFew, FS_Subset, FS_CardinalityType
<1>3. r.preps \in Nat /\ r.resumes \in Nat /\ r.rounds \in Nat
  BY DEF PLRevRec
<1> QED
  BY <1>2, <1>3 DEF PLSize

\* The sizes of revisions.
LEMMA PLSizesAre ==
  ASSUME NEW q \in Seq(PLRevRec)
  PROVE  /\ IsFiniteSet(1..Len(q)) /\ PLSizes(q) \in [1..Len(q) -> Nat]
         /\ \A o \in 1..Len(q) : PLSizes(q)[o] = PLSize(q[o]) /\ PLSize(q[o]) \in Nat
<1> DEFINE m == Len(q)
<1>1. \A o \in 1..m : q[o] \in PLRevRec
  OBVIOUS
<1>2. \A o \in 1..m : PLSize(q[o]) \in Nat
  BY <1>1, PLSizeIsNat
<1>3. m \in Nat
  OBVIOUS
<1>4. IsFiniteSet(1..m)
  BY <1>3, FS_Interval
<1>5. PLSizes(q) = [o \in 1..m |-> PLSize(q[o])]
  BY DEF PLSizes
<1> HIDE DEF m
<1>6. PLSizes(q) \in [1..m -> Nat] /\ \A o \in 1..m : PLSizes(q)[o] = PLSize(q[o])
  BY <1>2, <1>5
<1> QED
  BY <1>2, <1>4, <1>6 DEF m

\* What PLFiles counts.
LEMMA PLFilesAre ==
  plRevs \in Seq(PLRevRec) => PLFiles = PLPreps + SumOfAll(PLSizes(plRevs), 1..Len(plRevs))
<1> SUFFICES ASSUME plRevs \in Seq(PLRevRec)  PROVE PLFiles = PLPreps + SumOfAll(PLSizes(plRevs), 1..Len(plRevs))
  OBVIOUS
<1> DEFINE m == Len(plRevs)
           b == PLSizes(plRevs)
           x(s) == CHOOSE y \in s : TRUE
           Is(e) == e = [s \in SUBSET (1..m) |-> IF s = {} THEN 0 ELSE PLRecords(x(s)) + e[s \ {x(s)}]]
<1>1. PLFiles = PLPreps + (CHOOSE e : Is(e))[1..m]
  BY DEF PLFiles, MapThenSumSet, MapThenFoldSet, PLMaxOrdinal
<1>2. \A o \in 1..m : PLRecords(o) = b[o]
  BY DEF PLRecords, PLSizes, PLSize, PLKinds
<1>3. \A e : Is(e) <=> SumStep(e, b, 1..m)
  <2> HIDE DEF b, m
  <2>1. \A s \in SUBSET (1..m) : s # {} => b[x(s)] = PLRecords(x(s))
    BY <1>2
  <2> QED
    BY <2>1 DEF SumStep
<1>4. IsFiniteSet(1..m) /\ b \in [1..m -> Nat]
  <2>1. \A o \in 1..m : PLSize(plRevs[o]) \in Nat
    BY PLSizeIsNat
  <2>2. m \in Nat
    OBVIOUS
  <2>3. IsFiniteSet(1..m)
    BY <2>2, FS_Interval
  <2>4. b = [o \in 1..m |-> PLSize(plRevs[o])]
    BY DEF PLSizes
  <2> HIDE DEF b, m
  <2> QED
    BY <2>1, <2>3, <2>4
<1> HIDE DEF b, Is, m
<1>5. \E e : Is(e)
  BY <1>3, <1>4, SumOfAllIs
<1>6. Is(CHOOSE e : Is(e))
  BY <1>5
<1>7. SumOfAll(b, 1..m) = (CHOOSE e : Is(e))[1..m]
  BY <1>3, <1>4, <1>6, SumOfAllIs
<1> QED
  BY <1>1, <1>7 DEF b, m

\* The same after a step.
LEMMA PLCountsAfter ==
  /\ (plPrep \in PLPrepRec)' => (PLPreps = SumOfAll(plPrep.count, PLRuns) + (IF plPrep.torn THEN 1 ELSE 0))'
  /\ (plRevs \in Seq(PLRevRec))' => (PLFiles = PLPreps + SumOfAll(PLSizes(plRevs), 1..Len(plRevs)))'
BY PLPrepsAre, PLFilesAre, PTL

\* They stay what they are while plPrep does.
LEMMA PLPrepsKept == ASSUME plPrep \in PLPrepRec, UNCHANGED plPrep PROVE PLPreps' = PLPreps
<1>1. PLPreps = SumOfAll(plPrep.count, PLRuns) + (IF plPrep.torn THEN 1 ELSE 0)
  BY PLPrepsAre
<1>2. PLPreps' = SumOfAll(plPrep'.count, PLRuns) + (IF plPrep'.torn THEN 1 ELSE 0)
  BY PLCountsAfter
<1> QED
  BY <1>1, <1>2

PLPulls == [doc : PLWhos, open : BOOLEAN, ours : BOOLEAN]
PLHubRec == [pulls : Seq(PLPulls), exact : BOOLEAN]
PLWrites == [ord : Nat, pr : Nat, doc : PLWhos]
PLPcs == {"idle", "supersede", "discover", "inspect", "prepared", "revise", "generate", "resume", "resumed", "mark", "send",
          "reconcile", "find", "compare", "terminal", "recover", "record"}
PLCallRec ==
  [pc : PLPcs, req : PLWhos, run : PLRuns \cup {"none"}, ord : 0..PLMaxRevisions, prev : Nat, pr : Nat, erred : BOOLEAN, out : PLOutcomes]

PLTyped ==
  /\ plRevs \in Seq(PLRevRec) /\ Len(plRevs) <= PLMaxRevisions /\ plPrep \in PLPrepRec /\ plCall \in PLCallRec
  /\ plHub \in PLHubRec /\ Len(plHub.pulls) <= PLMaxPulls
  /\ plFly \in SUBSET PLWrites /\ plSent \in Seq(PLWrites) /\ plFaults \in 0..PLMaxFaults
  /\ plLedger \in SUBSET (1..PLMaxRevisions) /\ plAnswered \in SUBSET plLedger

\* The pull requests a revision names are there; an applied one that it was to
\* create was opened by this controller.
PLNames(r) ==
  /\ r.pr \in 0..Len(plHub.pulls)
  /\ r.outcome # "none" => PLThere(r.terminal) /\ r.got \in 1..Len(plHub.pulls)
  /\ r.outcome \in {"CONFIRMED", "RECONCILED"} /\ r.pr = 0 => plHub.pulls[r.got].ours
PLNamed ==
  /\ \A o \in 1..PLMaxOrdinal : PLNames(plRevs[o])
  /\ \A w \in plFly : w.pr \in 0..Len(plHub.pulls)
  /\ plCall.pr \in 0..Len(plHub.pulls)

\* Every write sent has its marker; a write under way is the last revision's, and
\* its result is not confirmed.
PLMarked ==
  /\ \A i \in 1..Len(plSent) : plSent[i].ord \in 1..PLMaxOrdinal /\ PLThere(plRevs[plSent[i].ord].submitted)
  /\ \A w \in plFly : w.ord = PLMaxOrdinal /\ PLMaxOrdinal > 0 /\ PLThere(plRevs[PLMaxOrdinal].submitted) /\ plRevs[PLMaxOrdinal].outcome # "CONFIRMED"

\* The records there are and the room that is reserved fit into the store.
PLFull == PLFiles + PLReservations <= PLCapacity

\* A revision that nothing was written for.
PLBlank(o) == o \in 1..PLMaxOrdinal /\ plRevs[o].generation = "no" /\ plRevs[o].superseded = "no"
\* One with a generation that was not marked; one that was, without its result.
PLUnsent(o) == o \in 1..PLMaxOrdinal /\ PLThere(plRevs[o].generation) /\ plRevs[o].submitted = "no"
PLUnanswered(o) == o \in 1..PLMaxOrdinal /\ PLThere(plRevs[o].submitted) /\ plRevs[o].terminal = "no"
\* The next revision may come.
PLClosed == PLMaxOrdinal > 0 => PLThere(plRevs[PLMaxOrdinal].terminal) \/ PLThere(plRevs[PLMaxOrdinal].superseded)
\* The last result is confirmed, and no write is under way.
PLReady == plFly = {} /\ (PLBarrierOrdinal # 0 => plRevs[PLBarrierOrdinal].outcome = "CONFIRMED")
PLIsResumed(c) == c.ord <= PLMaxOrdinal /\ PLThere(plRevs[c.ord].generation)
PLPreparing == {"supersede", "discover", "inspect", "prepared", "revise", "generate", "resume", "resumed", "mark", "send"}

\* What a call knows of the records at each of its steps.
PLCallOK(c) ==
  /\ c.pc # "idle" => c.run \in PLRuns /\ c.ord > 0
  /\ c.pc \in PLPreparing => PLReady /\ c.prev = PLPrevious
  /\ c.pc = "supersede" => c.ord = PLMaxOrdinal + 1 /\ PLBlank(PLMaxOrdinal)
  /\ c.pc \in {"discover", "inspect", "prepared", "revise"} => \/ c.ord = PLMaxOrdinal + 1 /\ PLClosed
                                                               \/ c.ord = PLMaxOrdinal /\ PLBlank(c.ord)
                                                               \/ c.ord = PLMaxOrdinal /\ c.pc = "inspect" /\ PLUnsent(c.ord)
  /\ c.pc \in {"discover", "inspect", "prepared"} /\ ~PLIsResumed(c) => plPrep.count[c.run] < PLPrepareRounds
  /\ c.pc \in {"inspect", "prepared", "revise", "generate", "resumed", "mark", "send"} /\ c.prev # 0 => c.pr = c.prev
  /\ c.pc = "generate" => c.ord = PLMaxOrdinal /\ PLBlank(c.ord)
  /\ c.pc \in {"resume", "resumed", "mark"} => c.ord = PLMaxOrdinal /\ PLUnsent(c.ord)
  /\ c.pc \in {"generate", "mark", "send"} => plRevs[c.ord].pr = c.pr
  /\ c.pc \in {"send", "reconcile", "find", "compare", "terminal"} => c.ord = PLMaxOrdinal /\ PLUnanswered(c.ord)
  /\ c.pc = "send" => \A i \in 1..Len(plSent) : plSent[i].ord # c.ord
  /\ c.pc \in {"reconcile", "find", "compare", "terminal"} => c.erred \/ plFly = {}
  /\ c.pc \in {"compare", "terminal"} => c.pr > 0
  /\ c.pc = "terminal" =>
       /\ c.out # "none" /\ (c.out = "CONFIRMED" => ~c.erred)
       /\ c.out \in {"CONFIRMED", "RECONCILED"} /\ plRevs[c.ord].pr = 0 => plHub.pulls[c.pr].ours
  /\ c.pc \in {"recover", "record"} => c.ord <= PLMaxOrdinal

PLInv == PLTyped /\ PLScans /\ PLNamed /\ PLMarked /\ PLOneWrite /\ PLFull /\ PLCallOK(plCall)

-----------------------------------------------------------------------------
(* The numbers of a step. *)

\* A set of ordinals that is not empty holds its maximum.
LEMMA PLMaxIsMember ==
  ASSUME NEW n \in Nat, NEW I \in SUBSET (1..n), I # {}
  PROVE  Max(I) \in I /\ \A x \in I : x <= Max(I)
<1> DEFINE J == {j \in Nat : n - j \in I}
<1>1. \A x \in I : x \in Nat /\ n - x \in J
  <2> TAKE x \in I
  <2>1. x \in Nat /\ n - x \in Nat /\ n - (n - x) = x
    OBVIOUS
  <2> QED
    BY <2>1
<1>2. J \in SUBSET Nat /\ J # {}
  BY <1>1
<1>3. PICK j \in J : \A k \in J : j <= k
  BY <1>2, LeastNumber
<1>4. n - j \in I /\ \A y \in I : n - j >= y
  <2>1. n - j \in I /\ j \in Nat
    OBVIOUS
  <2>2. ASSUME NEW y \in I  PROVE n - j >= y
    <3>1. j <= n - y /\ y \in Nat
      BY <1>1, <1>3
    <3> QED
      BY <2>1, <3>1
  <2> QED
    BY <2>1, <2>2
<1>5. \E z \in I : \A y \in I : z >= y
  BY <1>4
<1>6. Max(I) \in I /\ \A y \in I : Max(I) >= y
  BY <1>5, Zenon DEF Max
<1> QED
  BY <1>6

\* The barrier is the last result.
LEMMA PLBarrierIs ==
  ASSUME plRevs \in Seq(PLRevRec)
  PROVE  /\ PLBarrierOrdinal \in 0..PLMaxOrdinal
         /\ PLBarrierOrdinal # 0 => PLThere(plRevs[PLBarrierOrdinal].terminal)
         /\ \A o \in 1..PLMaxOrdinal : PLThere(plRevs[o].terminal) => o <= PLBarrierOrdinal
<1>1. PLMaxOrdinal \in Nat /\ PLTerminals \in SUBSET (1..PLMaxOrdinal)
  BY DEF PLMaxOrdinal, PLTerminals
<1>2. CASE PLTerminals = {}
  <2>1. PLBarrierOrdinal = 0
    BY <1>2 DEF PLBarrierOrdinal
  <2> QED
    BY <1>1, <1>2, <2>1 DEF PLTerminals
<1>3. CASE PLTerminals # {}
  <2>1. PLBarrierOrdinal \in PLTerminals /\ \A o \in PLTerminals : o <= PLBarrierOrdinal
    BY <1>1, <1>3, PLMaxIsMember DEF PLBarrierOrdinal
  <2>2. PLBarrierOrdinal \in 1..PLMaxOrdinal /\ PLThere(plRevs[PLBarrierOrdinal].terminal)
    BY <2>1 DEF PLTerminals
  <2> QED
    BY <1>1, <2>1, <2>2 DEF PLTerminals
<1> QED
  BY <1>2, <1>3

\* A record more of a revision.
LEMMA PLSizeGrows ==
  ASSUME NEW a \in PLRevRec, NEW b \in PLRevRec, NEW k \in PLKinds, a[k] = "no", b[k] # "no", \A j \in PLKinds \ {k} : b[j] = a[j],
         b.preps = a.preps, b.resumes = a.resumes, b.rounds = a.rounds
  PROVE  PLSize(b) = PLSize(a) + 1
<1> DEFINE A == {j \in PLKinds : PLThere(a[j])}
           B == {j \in PLKinds : PLThere(b[j])}
<1>1. B = A \cup {k} /\ k \notin A
  BY DEF PLThere
<1>2. IsFiniteSet(A)
  BY PLKindsAreFew, FS_Subset
<1>3. Cardinality(B) = Cardinality(A) + 1 /\ Cardinality(A) \in Nat
  BY <1>1, <1>2, FS_AddElement, FS_CardinalityType
<1>4. a.preps \in Nat /\ a.resumes \in Nat /\ a.rounds \in Nat
  BY DEF PLRevRec
<1>5. PLSize(a) = 1 + a.preps + a.resumes + a.rounds + Cardinality(A) /\ PLSize(b) = 1 + a.preps + a.resumes + a.rounds + Cardinality(B)
  BY DEF PLSize
<1> HIDE DEF A, B
<1> QED
  BY <1>3, <1>4, <1>5

\* A sum in which one number grows by one.
LEMMA SumOneMore ==
  ASSUME NEW T, IsFiniteSet(T), NEW f \in [T -> Nat], NEW h \in [T -> Nat], NEW y \in T, h[y] = f[y] + 1, \A x \in T \ {y} : h[x] = f[x]
  PROVE  SumOfAll(h, T) = SumOfAll(f, T) + 1
<1>1. SumOfAll(h, T) + f[y] = SumOfAll(f, T) + (f[y] + 1)
  BY SumChanges
<1>2. SumOfAll(h, T) \in Nat /\ SumOfAll(f, T) \in Nat /\ f[y] \in Nat
  BY SumOfAllIs
<1> QED
  BY <1>1, <1>2

\* Of two numbers, one of which grows.
LEMMA OneMore == \A p, v \in Nat : p + (v + 1) = (p + v) + 1 /\ p + v \in Nat
OBVIOUS

\* The step adds a record to a revision.
LEMMA PLOneFileMore ==
  ASSUME PLTyped, plRevs' \in Seq(PLRevRec), Len(plRevs') = Len(plRevs), UNCHANGED plPrep, NEW o \in 1..Len(plRevs),
         \A j \in 1..Len(plRevs) : j # o => plRevs'[j] = plRevs[j], PLSize(plRevs'[o]) = PLSize(plRevs[o]) + 1
  PROVE  PLFiles' = PLFiles + 1 /\ PLFiles \in Nat
<1>1. plRevs \in Seq(PLRevRec) /\ plPrep \in PLPrepRec
  BY DEF PLTyped
<1>2. PICK T : T = 1..Len(plRevs) /\ IsFiniteSet(T) /\ o \in T
  BY <1>1, PLSizesAre
<1>3. PICK f \in [T -> Nat] : f = PLSizes(plRevs) /\ \A x \in T : f[x] = PLSize(plRevs[x])
  BY <1>1, <1>2, PLSizesAre
<1>4. PICK h \in [T -> Nat] : h = PLSizes(plRevs') /\ \A x \in T : h[x] = PLSize(plRevs'[x])
  BY <1>2, PLSizesAre
<1>5. h[o] = f[o] + 1 /\ \A x \in T \ {o} : h[x] = f[x]
  BY <1>2, <1>3, <1>4
<1>6. PLFiles = PLPreps + SumOfAll(f, T)
  BY <1>1, <1>2, <1>3, PLFilesAre
<1>7. PLFiles' = PLPreps' + SumOfAll(h, T)
  BY <1>2, <1>4, PLCountsAfter DEF PLSizes
<1>8. PLPreps' = PLPreps /\ PLPreps \in Nat
  BY <1>1, PLPrepsKept, PLPrepsAreNat
<1>9. SumOfAll(h, T) = SumOfAll(f, T) + 1 /\ SumOfAll(f, T) \in Nat
  BY <1>2, <1>5, SumOneMore, SumOfAllIs
<1> QED
  BY <1>6, <1>7, <1>8, <1>9, OneMore

\* The numbers of the store.
LEMMA PLNumbers == ASSUME PLTyped PROVE PLFiles \in Nat /\ PLPreps \in Nat /\ PLReservations \in Nat /\ PLCapacity \in Nat
<1>1. plRevs \in Seq(PLRevRec) /\ plPrep \in PLPrepRec
  BY DEF PLTyped
<1>2. PLPreps \in Nat
  BY <1>1, PLPrepsAreNat
<1>3. SumOfAll(PLSizes(plRevs), 1..Len(plRevs)) \in Nat
  BY <1>1, PLSizesAre, SumOfAllIs
<1>4. PLFiles \in Nat
  <2>1. PLFiles = PLPreps + SumOfAll(PLSizes(plRevs), 1..Len(plRevs))
    BY <1>1, PLFilesAre
  <2> QED
    BY <1>2, <1>3, <2>1
<1>5. PLReservations \in Nat
  <2>1. IsFiniteSet(1..PLMaxOrdinal)
    BY <1>1, PLSizesAre DEF PLMaxOrdinal
  <2> QED
    BY <2>1, FS_Subset, FS_CardinalityType DEF PLReservations
<1> QED
  BY <1>2, <1>4, <1>5, PLAssumption

\* The step appends a revision, which takes over the preparations.
LEMMA PLRevisionIsOneFile ==
  ASSUME PLTyped, NEW r \in PLRevRec, PLSize(r) = 1 + PLPreps, plRevs' = Append(plRevs, r), plPrep' = PLNoPrep
  PROVE  PLFiles' = PLFiles + 1
<1>1. plRevs \in Seq(PLRevRec) /\ plPrep \in PLPrepRec
  BY DEF PLTyped
<1>2. PICK q \in Seq(PLRevRec) : q = plRevs'
  BY <1>1
<1>3. PICK n \in Nat : n = Len(plRevs)
  BY <1>1
<1>4. Len(q) = n + 1 /\ q[n + 1] = r /\ \A x \in 1..n : q[x] = plRevs[x]
  BY <1>1, <1>2, <1>3
<1>5. PICK f \in [1..n -> Nat] : f = PLSizes(plRevs) /\ \A x \in 1..n : f[x] = PLSize(plRevs[x])
  BY <1>1, <1>3, PLSizesAre
<1>6. PICK h \in [1..(n + 1) -> Nat] : h = PLSizes(q) /\ \A x \in 1..(n + 1) : h[x] = PLSize(q[x])
  <2>1. /\ PLSizes(q) \in [1..Len(q) -> Nat]
        /\ \A x \in 1..Len(q) : PLSizes(q)[x] = PLSize(q[x])
    BY PLSizesAre
  <2>2. Len(q) = n + 1
    BY <1>4
  <2> QED
    BY <2>1, <2>2
<1>7. h[n + 1] = 1 + PLPreps /\ \A x \in 1..n : f[x] = h[x]
  <2>1. n + 1 \in 1..(n + 1) /\ \A x \in 1..n : x \in 1..(n + 1)
    BY <1>3
  <2> QED
    BY <1>4, <1>5, <1>6, <2>1
<1>8. SumOfAll(h, 1..(n + 1)) = h[n + 1] + SumOfAll(f, 1..n) /\ SumOfAll(f, 1..n) \in Nat
  <2>1. IsFiniteSet(1..(n + 1)) /\ IsFiniteSet(1..n)
    BY <1>1, <1>2, <1>3, <1>4, PLSizesAre
  <2>2. 1..n \in SUBSET (1..(n + 1)) /\ n + 1 \in 1..(n + 1) /\ 1..n = (1..(n + 1)) \ {n + 1}
    BY <1>3
  <2>3. \A x \in 1..n : h[x] = f[x]
    BY <1>7
  <2> QED
    BY <2>1, <2>2, <2>3, SumTakesOne, SumOfAllIs, SMTT(20)
<1>9. PLPreps' = 0
  <2>0. plPrep' = [count |-> [x \in PLRuns |-> 0], torn |-> FALSE]
    BY DEF PLNoPrep
  <2>1. PICK c \in [PLRuns -> Nat] : c = plPrep'.count /\ \A x \in PLRuns : c[x] = 0
    <3> DEFINE z == [x \in PLRuns |-> 0]
    <3>1. z \in [PLRuns -> Nat] /\ \A x \in PLRuns : z[x] = 0
      OBVIOUS
    <3>2. plPrep'.count = z
      BY <2>0
    <3> QED
      BY <3>1, <3>2
  <2>2. SumOfAll(c, PLRuns) = 0
    BY <2>1, PLAssumption, SumOfZeros
  <2>3. plPrep' \in PLPrepRec /\ plPrep'.torn = FALSE
    BY PLAssumption DEF PLNoPrep, PLPrepRec
  <2> QED
    BY <2>1, <2>2, <2>3, PLCountsAfter
<1>10. PLFiles = PLPreps + SumOfAll(f, 1..n) /\ PLPreps \in Nat
  BY <1>1, <1>3, <1>5, PLFilesAre, PLPrepsAreNat
<1>11. PLFiles' = PLPreps' + SumOfAll(h, 1..(n + 1))
  BY <1>2, <1>4, <1>6, PLCountsAfter
<1>12. \A p, v \in Nat : 0 + ((1 + p) + v) = (p + v) + 1
  OBVIOUS
<1> QED
  BY <1>7, <1>8, <1>9, <1>10, <1>11, <1>12

\* A preparation is recorded.
LEMMA PLPreparationIsOneFile ==
  ASSUME PLTyped, UNCHANGED plRevs, NEW r \in PLRuns, plPrep.count[r] < PLPrepareRounds, plPrep' = [plPrep EXCEPT !.count[r] = @ + 1]
  PROVE  plPrep' \in PLPrepRec /\ PLFiles' = PLFiles + 1
<1>1. plRevs \in Seq(PLRevRec) /\ plPrep \in PLPrepRec
  BY DEF PLTyped
<1>2. PICK c \in [PLRuns -> 0..PLPrepareRounds] : c = plPrep.count
  BY <1>1 DEF PLPrepRec
<1>3. PICK d : d = [c EXCEPT ![r] = c[r] + 1]
  OBVIOUS
<1>4. c[r] + 1 \in 0..PLPrepareRounds
  BY <1>2, PLAssumption
<1>5. d \in [PLRuns -> 0..PLPrepareRounds] /\ d[r] = c[r] + 1 /\ \A x \in PLRuns \ {r} : d[x] = c[x]
  BY <1>3, <1>4
<1>6. plPrep' \in PLPrepRec /\ plPrep'.count = d /\ plPrep'.torn = plPrep.torn
  BY <1>1, <1>2, <1>3, <1>5 DEF PLPrepRec
<1>7. SumOfAll(d, PLRuns) = SumOfAll(c, PLRuns) + 1 /\ SumOfAll(c, PLRuns) \in Nat
  <2>1. c \in [PLRuns -> Nat] /\ d \in [PLRuns -> Nat] /\ IsFiniteSet(PLRuns)
    BY <1>2, <1>5, PLAssumption
  <2> QED
    BY <1>5, <2>1, SumOneMore, SumOfAllIs
<1>8. PLPreps' = PLPreps + 1
  <2>1. PLPreps = SumOfAll(c, PLRuns) + (IF plPrep.torn THEN 1 ELSE 0)
    BY <1>1, <1>2, PLPrepsAre
  <2>2. PLPreps' = SumOfAll(d, PLRuns) + (IF plPrep.torn THEN 1 ELSE 0)
    BY <1>6, PLCountsAfter
  <2>3. \A v \in Nat : (v + 1) + (IF plPrep.torn THEN 1 ELSE 0) = (v + (IF plPrep.torn THEN 1 ELSE 0)) + 1
    OBVIOUS
  <2> QED
    BY <1>7, <2>1, <2>2, <2>3
<1>9. PLFiles = PLPreps + SumOfAll(PLSizes(plRevs), 1..Len(plRevs)) /\ PLFiles' = PLPreps' + SumOfAll(PLSizes(plRevs), 1..Len(plRevs))
  BY <1>1, PLFilesAre, PLCountsAfter DEF PLSizes
<1>10. PLPreps \in Nat /\ SumOfAll(PLSizes(plRevs), 1..Len(plRevs)) \in Nat
  BY <1>1, PLPrepsAreNat, PLSizesAre, SumOfAllIs
<1>11. \A p, v \in Nat : (p + 1) + v = (p + v) + 1
  OBVIOUS
<1> QED
  BY <1>6, <1>8, <1>9, <1>10, <1>11

\* A preparation is torn.
LEMMA PLTornPreparation ==
  ASSUME PLTyped, UNCHANGED plRevs, plPrep' = [plPrep EXCEPT !.torn = TRUE]
  PROVE  plPrep' \in PLPrepRec /\ PLFiles' \in Nat /\ PLFiles' <= PLFiles + 1
<1>1. plRevs \in Seq(PLRevRec) /\ plPrep \in PLPrepRec
  BY DEF PLTyped
<1>2. plPrep' \in PLPrepRec /\ plPrep'.count = plPrep.count /\ plPrep'.torn = TRUE
  BY <1>1 DEF PLPrepRec
<1>3. SumOfAll(plPrep.count, PLRuns) \in Nat
  <2>1. plPrep.count \in [PLRuns -> Nat] /\ IsFiniteSet(PLRuns)
    BY <1>1, PLAssumption DEF PLPrepRec
  <2> QED
    BY <2>1, SumOfAllIs
<1>4. PLPreps' \in Nat /\ PLPreps \in Nat /\ PLPreps' <= PLPreps + 1
  BY <1>1, <1>2, <1>3, PLPrepsAre, PLCountsAfter
<1>5. PLFiles = PLPreps + SumOfAll(PLSizes(plRevs), 1..Len(plRevs)) /\ PLFiles' = PLPreps' + SumOfAll(PLSizes(plRevs), 1..Len(plRevs))
  BY <1>1, PLFilesAre, PLCountsAfter DEF PLSizes
<1>6. SumOfAll(PLSizes(plRevs), 1..Len(plRevs)) \in Nat
  BY <1>1, PLSizesAre, SumOfAllIs
<1>7. \A p, q, v \in Nat : q <= p + 1 => q + v \in Nat /\ q + v <= (p + v) + 1
  OBVIOUS
<1> QED
  BY <1>2, <1>4, <1>5, <1>6, <1>7

-----------------------------------------------------------------------------
(* The room that is reserved. *)

\* The revisions whose marker reserves the room of a terminal.
PLReserving == {o \in 1..PLMaxOrdinal : PLThere(plRevs[o].submitted) /\ ~PLThere(plRevs[o].terminal)}

\* Their set is finite.
LEMMA PLReservingIsFinite == ASSUME PLTyped PROVE IsFiniteSet(PLReserving) /\ PLReservations = Cardinality(PLReserving)
<1>1. IsFiniteSet(1..PLMaxOrdinal)
  BY PLSizesAre DEF PLTyped, PLMaxOrdinal
<1> QED
  BY <1>1, FS_Subset DEF PLReserving, PLReservations

\* What a step does to it.
LEMMA PLReservedAfter ==
  ASSUME PLTyped
  PROVE  /\ PLReserving' = PLReserving => PLReservations' = PLReservations
         /\ \A o : o \notin PLReserving /\ PLReserving' = PLReserving \cup {o} => PLReservations' = PLReservations + 1
         /\ \A o : o \in PLReserving /\ PLReserving' = PLReserving \ {o} => PLReservations' = PLReservations - 1
<1>1. PLReservations' = Cardinality(PLReserving')
  BY DEF PLReserving, PLReservations
<1>2. IsFiniteSet(PLReserving) /\ PLReservations = Cardinality(PLReserving)
  BY PLReservingIsFinite
<1> QED
  BY <1>1, <1>2, FS_AddElement, FS_RemoveElement

\* The store holds what the step adds.
LEMMA PLStaysFull ==
  ASSUME PLTyped, NEW a \in 0..1, NEW b \in 0..1, PLFits(a, b), PLFiles' \in Nat, PLFiles' <= PLFiles + 1, PLReservations' = PLReservations + a - b
  PROVE  PLFull'
<1>1. PLFiles + 1 + PLReservations + a - b <= PLCapacity
  BY DEF PLFits
<1>2. PLFiles \in Nat /\ PLReservations \in Nat /\ PLCapacity \in Nat
  BY PLNumbers
<1>3. PLFiles' + PLReservations' <= PLCapacity
  <2>1. \A f, g, r, c \in Nat : f + 1 + r + a - b <= c /\ g <= f + 1 => g + (r + a - b) <= c
    OBVIOUS
  <2> QED
    BY <1>1, <1>2, <2>1
<1> QED
  BY <1>3 DEF PLFull

\* What scanResource asks of one revision.
PLScan1(r) ==
  /\ PLThere(r.submitted) \/ PLThere(r.terminal) => PLThere(r.generation)
  /\ PLThere(r.terminal) => PLThere(r.submitted)
  /\ ~(PLThere(r.superseded) /\ PLThere(r.generation))

\* What the records of a revision say beside its four files.
PLSameResult(a, b) == b.pr = a.pr /\ b.terminal = a.terminal /\ b.outcome = a.outcome /\ b.got = a.got
PLSameCounts(a, b) == b.preps = a.preps /\ b.resumes = a.resumes /\ b.rounds = a.rounds

\* The last revision is rewritten as b.
PLRewrites(b) == plRevs' = [plRevs EXCEPT ![PLMaxOrdinal] = b]

\* A file of a revision is written.
LEMMA PLFileWritten ==
  ASSUME NEW a \in PLRevRec, NEW v \in {"yes", "torn"}
  PROVE  /\ \A b : b = [a EXCEPT !.generation = v] =>
              /\ b \in PLRevRec /\ PLSameResult(a, b) /\ PLSameCounts(a, b) /\ b.generation = v
              /\ b.submitted = a.submitted /\ b.superseded = a.superseded
         /\ \A b : b = [a EXCEPT !.submitted = v] =>
              /\ b \in PLRevRec /\ PLSameResult(a, b) /\ PLSameCounts(a, b) /\ b.submitted = v
              /\ b.generation = a.generation /\ b.superseded = a.superseded
         /\ \A b : b = [a EXCEPT !.superseded = v] =>
              /\ b \in PLRevRec /\ PLSameResult(a, b) /\ PLSameCounts(a, b) /\ b.superseded = v
              /\ b.generation = a.generation /\ b.submitted = a.submitted
<1>1. v \in PLThree
  BY DEF PLThree
<1>2. ASSUME NEW b, b = [a EXCEPT !.generation = v]
      PROVE  /\ b \in PLRevRec /\ PLSameResult(a, b) /\ PLSameCounts(a, b) /\ b.generation = v
             /\ b.submitted = a.submitted /\ b.superseded = a.superseded
  BY <1>1, <1>2 DEF PLRevRec, PLSameResult, PLSameCounts
<1>3. ASSUME NEW b, b = [a EXCEPT !.submitted = v]
      PROVE  /\ b \in PLRevRec /\ PLSameResult(a, b) /\ PLSameCounts(a, b) /\ b.submitted = v
             /\ b.generation = a.generation /\ b.superseded = a.superseded
  BY <1>1, <1>3 DEF PLRevRec, PLSameResult, PLSameCounts
<1>4. ASSUME NEW b, b = [a EXCEPT !.superseded = v]
      PROVE  /\ b \in PLRevRec /\ PLSameResult(a, b) /\ PLSameCounts(a, b) /\ b.superseded = v
             /\ b.generation = a.generation /\ b.submitted = a.submitted
  BY <1>1, <1>4 DEF PLRevRec, PLSameResult, PLSameCounts
<1> QED
  BY <1>2, <1>3, <1>4

\* A round of a revision is recorded.
LEMMA PLRoundRecorded ==
  ASSUME NEW a \in PLRevRec
  PROVE  /\ \A b : b = [a EXCEPT !.resumes = a.resumes + 1] => b \in PLRevRec /\ PLSameResult(a, b) /\ PLSize(b) = PLSize(a) + 1
                       /\ b.generation = a.generation /\ b.submitted = a.submitted /\ b.superseded = a.superseded
         /\ \A b : b = [a EXCEPT !.rounds = a.rounds + 1] => b \in PLRevRec /\ PLSameResult(a, b) /\ PLSize(b) = PLSize(a) + 1
                       /\ b.generation = a.generation /\ b.submitted = a.submitted /\ b.superseded = a.superseded
<1> DEFINE A == {k \in PLKinds : PLThere(a[k])}
<1>1. a.preps \in Nat /\ a.resumes \in Nat /\ a.rounds \in Nat /\ Cardinality(A) \in Nat
  BY PLKindsAreFew, FS_Subset, FS_CardinalityType DEF PLRevRec
<1>2. ASSUME NEW b, b = [a EXCEPT !.resumes = a.resumes + 1]
      PROVE  b \in PLRevRec /\ PLSameResult(a, b) /\ PLSize(b) = PLSize(a) + 1
             /\ b.generation = a.generation /\ b.submitted = a.submitted /\ b.superseded = a.superseded
  <2>1. b \in PLRevRec /\ b.preps = a.preps /\ b.resumes = a.resumes + 1 /\ b.rounds = a.rounds
    BY <1>1, <1>2 DEF PLRevRec
  <2>2. PLSameResult(a, b) /\ b.generation = a.generation /\ b.submitted = a.submitted /\ b.superseded = a.superseded
    BY <1>2 DEF PLRevRec, PLSameResult
  <2>3. {k \in PLKinds : PLThere(b[k])} = A
    BY <2>2 DEF PLKinds, PLSameResult
  <2>4. PLSize(b) = 1 + a.preps + (a.resumes + 1) + a.rounds + Cardinality(A) /\ PLSize(a) = 1 + a.preps + a.resumes + a.rounds + Cardinality(A)
    BY <2>1, <2>3 DEF PLSize
  <2> HIDE DEF A
  <2> QED
    BY <1>1, <2>1, <2>2, <2>4
<1>3. ASSUME NEW b, b = [a EXCEPT !.rounds = a.rounds + 1]
      PROVE  b \in PLRevRec /\ PLSameResult(a, b) /\ PLSize(b) = PLSize(a) + 1
             /\ b.generation = a.generation /\ b.submitted = a.submitted /\ b.superseded = a.superseded
  <2>1. b \in PLRevRec /\ b.preps = a.preps /\ b.resumes = a.resumes /\ b.rounds = a.rounds + 1
    BY <1>1, <1>3 DEF PLRevRec
  <2>2. PLSameResult(a, b) /\ b.generation = a.generation /\ b.submitted = a.submitted /\ b.superseded = a.superseded
    BY <1>3 DEF PLRevRec, PLSameResult
  <2>3. {k \in PLKinds : PLThere(b[k])} = A
    BY <2>2 DEF PLKinds, PLSameResult
  <2>4. PLSize(b) = 1 + a.preps + a.resumes + (a.rounds + 1) + Cardinality(A) /\ PLSize(a) = 1 + a.preps + a.resumes + a.rounds + Cardinality(A)
    BY <2>1, <2>3 DEF PLSize
  <2> HIDE DEF A
  <2> QED
    BY <1>1, <2>1, <2>2, <2>4
<1> QED
  BY <1>2, <1>3

\* The last revision is rewritten.
LEMMA PLRewritten ==
  ASSUME PLTyped, PLMaxOrdinal > 0, NEW b \in PLRevRec, PLRewrites(b)
  PROVE  /\ plRevs' \in Seq(PLRevRec) /\ Len(plRevs') = Len(plRevs) /\ PLMaxOrdinal' = PLMaxOrdinal /\ PLMaxOrdinal \in 1..Len(plRevs)
         /\ plRevs'[PLMaxOrdinal] = b /\ \A j \in 1..Len(plRevs) : j # PLMaxOrdinal => plRevs'[j] = plRevs[j]
BY DEF PLTyped, PLRewrites, PLMaxOrdinal

\* Its names still scan.
LEMMA PLStillScans ==
  ASSUME PLTyped, PLScans, PLMaxOrdinal > 0, NEW b \in PLRevRec, PLRewrites(b), PLScan1(b)
  PROVE  PLScans'
<1>1. /\ PLMaxOrdinal' = PLMaxOrdinal /\ Len(plRevs) = PLMaxOrdinal
      /\ plRevs'[PLMaxOrdinal] = b /\ \A j \in 1..Len(plRevs) : j # PLMaxOrdinal => plRevs'[j] = plRevs[j]
  BY PLRewritten DEF PLMaxOrdinal
<1>2. ASSUME NEW o \in 1..PLMaxOrdinal
      PROVE  PLScan1(plRevs'[o]) /\ (~PLThere(plRevs'[o].terminal) /\ ~PLThere(plRevs'[o].superseded) => o = PLMaxOrdinal)
  <2>1. CASE o = PLMaxOrdinal
    BY <1>1, <2>1
  <2>2. CASE o # PLMaxOrdinal
    BY <1>1, <2>2 DEF PLScans, PLScan1
  <2> QED
    BY <2>1, <2>2
<1> QED
  BY <1>1, <1>2 DEF PLScans, PLScan1, PLThere

\* The last result stays while no result is written.
LEMMA PLBarrierStays ==
  ASSUME PLTyped, PLMaxOrdinal > 0, NEW b \in PLRevRec, PLRewrites(b), PLSameResult(plRevs[PLMaxOrdinal], b)
  PROVE  /\ PLBarrierOrdinal' = PLBarrierOrdinal /\ PLPrevious' = PLPrevious
         /\ PLBarrierOrdinal # 0 => plRevs'[PLBarrierOrdinal].outcome = plRevs[PLBarrierOrdinal].outcome
<1>1. /\ PLMaxOrdinal' = PLMaxOrdinal /\ Len(plRevs) = PLMaxOrdinal /\ plRevs \in Seq(PLRevRec)
      /\ plRevs'[PLMaxOrdinal] = b /\ \A j \in 1..Len(plRevs) : j # PLMaxOrdinal => plRevs'[j] = plRevs[j]
  BY PLRewritten DEF PLMaxOrdinal, PLTyped
<1>2. \A j \in 1..PLMaxOrdinal : PLSameResult(plRevs[j], plRevs'[j])
  BY <1>1 DEF PLSameResult
<1>3. PLTerminals' = PLTerminals
  BY <1>1, <1>2 DEF PLTerminals, PLSameResult, PLThere
<1>4. PLBarrierOrdinal' = PLBarrierOrdinal
  BY <1>3 DEF PLBarrierOrdinal
<1>5. PLBarrierOrdinal \in 0..PLMaxOrdinal
  BY <1>1, PLBarrierIs
<1> QED
  BY <1>1, <1>2, <1>4, <1>5 DEF PLPrevious, PLSameResult, PLMaxOrdinal

\* What is sent and what is named stays while no result is written.
LEMMA PLNamesStay ==
  ASSUME PLInv, PLMaxOrdinal > 0, NEW b \in PLRevRec, PLRewrites(b), PLSameResult(plRevs[PLMaxOrdinal], b),
         PLThere(plRevs[PLMaxOrdinal].submitted) => PLThere(b.submitted), UNCHANGED <<plHub, plFly, plSent>>, plCall'.pr \in 0..Len(plHub.pulls)
  PROVE  PLNamed' /\ PLMarked' /\ PLOneWrite'
<1>1. /\ PLMaxOrdinal' = PLMaxOrdinal /\ Len(plRevs) = PLMaxOrdinal
      /\ plRevs'[PLMaxOrdinal] = b /\ \A j \in 1..Len(plRevs) : j # PLMaxOrdinal => plRevs'[j] = plRevs[j]
  BY PLRewritten DEF PLMaxOrdinal, PLInv
<1>2. \A j \in 1..PLMaxOrdinal : PLSameResult(plRevs[j], plRevs'[j]) /\ (PLThere(plRevs[j].submitted) => PLThere(plRevs'[j].submitted))
  BY <1>1 DEF PLSameResult
<1>3. PLNamed'
  BY <1>1, <1>2 DEF PLInv, PLNamed, PLNames, PLSameResult, PLThere
<1>4. PLMarked'
  BY <1>1, <1>2 DEF PLInv, PLMarked, PLSameResult, PLThere
<1>5. PLOneWrite'
  BY DEF PLInv, PLOneWrite
<1> QED
  BY <1>3, <1>4, <1>5

\* A step that writes a record of the last revision, and no result.
LEMMA PLRecordStep ==
  ASSUME PLInv, PLMaxOrdinal > 0, NEW b \in PLRevRec, PLRewrites(b), PLScan1(b), PLSameResult(plRevs[PLMaxOrdinal], b),
         PLThere(plRevs[PLMaxOrdinal].submitted) => PLThere(b.submitted), PLSize(b) = PLSize(plRevs[PLMaxOrdinal]) + 1,
         PLFits(IF ~PLThere(plRevs[PLMaxOrdinal].submitted) /\ PLThere(b.submitted) THEN 1 ELSE 0, 0),
         UNCHANGED <<plPrep, plHub, plFly, plSent, plAnswered, plLedger>>, plFaults' \in 0..PLMaxFaults,
         plCall' \in PLCallRec, plCall'.pr \in 0..Len(plHub.pulls), PLCallOK(plCall)'
  PROVE  PLInv'
<1>1. /\ plRevs' \in Seq(PLRevRec) /\ Len(plRevs') = Len(plRevs) /\ PLMaxOrdinal' = PLMaxOrdinal /\ PLMaxOrdinal \in 1..Len(plRevs)
      /\ plRevs'[PLMaxOrdinal] = b /\ \A j \in 1..Len(plRevs) : j # PLMaxOrdinal => plRevs'[j] = plRevs[j]
  BY PLRewritten DEF PLInv
<1>2. PLScans'
  BY PLStillScans DEF PLInv
<1>3. PLNamed' /\ PLMarked' /\ PLOneWrite'
  BY PLNamesStay
<1>4. PLTyped'
  BY <1>1 DEF PLInv, PLTyped
<1>5. PLFiles' = PLFiles + 1 /\ PLFiles \in Nat
  BY <1>1, PLOneFileMore DEF PLInv
<1>6. PLReservations' = PLReservations + (IF ~PLThere(plRevs[PLMaxOrdinal].submitted) /\ PLThere(b.submitted) THEN 1 ELSE 0)
  <2> DEFINE m == PLMaxOrdinal
  <2>1. \A o \in 1..m : o # m => (o \in PLReserving' <=> o \in PLReserving)
    BY <1>1 DEF PLReserving, PLMaxOrdinal
  <2>2. m \in PLReserving' <=> PLThere(b.submitted) /\ ~PLThere(b.terminal)
    BY <1>1 DEF PLReserving, PLMaxOrdinal
  <2>3. m \in PLReserving <=> PLThere(plRevs[m].submitted) /\ ~PLThere(plRevs[m].terminal)
    BY <1>1 DEF PLReserving, PLMaxOrdinal
  <2>4. PLReserving' \subseteq 1..m /\ PLReserving \subseteq 1..m
    BY <1>1 DEF PLReserving
  <2>5. ~PLThere(plRevs[m].submitted) => ~PLThere(plRevs[m].terminal)
    BY <1>1 DEF PLInv, PLScans
  <2>6. b.terminal = plRevs[m].terminal
    BY DEF PLSameResult
  <2> HIDE DEF m
  <2>7. CASE ~PLThere(plRevs[m].submitted) /\ PLThere(b.submitted)
    <3>1. m \notin PLReserving /\ PLReserving' = PLReserving \cup {m}
      BY <2>1, <2>2, <2>3, <2>4, <2>5, <2>6, <2>7
    <3> QED
      BY <2>7, <3>1, PLReservedAfter DEF PLInv, m
  <2>8. CASE ~(~PLThere(plRevs[m].submitted) /\ PLThere(b.submitted))
    <3>0. m \in PLReserving' <=> m \in PLReserving
      <4>1. PLThere(plRevs[m].submitted) => PLThere(b.submitted)
        BY DEF m
      <4> QED
        BY <2>2, <2>3, <2>6, <2>8, <4>1
    <3>1. PLReserving' = PLReserving
      <4>1. \A o \in 1..m : o \in PLReserving' <=> o \in PLReserving
        BY <2>1, <3>0
      <4> QED
        BY <2>4, <4>1
    <3>2. PLReservations' = PLReservations /\ PLReservations \in Nat
      BY <3>1, PLReservedAfter, PLNumbers DEF PLInv
    <3> QED
      BY <2>8, <3>2 DEF m
  <2> QED
    BY <2>7, <2>8
<1>7. PLFull'
  <2>1. PICK a \in 0..1 : a = IF ~PLThere(plRevs[PLMaxOrdinal].submitted) /\ PLThere(b.submitted) THEN 1 ELSE 0
    OBVIOUS
  <2>2. PLFits(a, 0) /\ PLReservations' = PLReservations + a - 0 /\ PLFiles' \in Nat /\ PLFiles' <= PLFiles + 1
    BY <1>5, <1>6, <2>1, PLNumbers DEF PLInv
  <2> QED
    BY <2>2, PLStaysFull DEF PLInv
<1> QED
  BY <1>2, <1>3, <1>4, <1>7 DEF PLInv

\* Nothing is asked of a call that is over.
LEMMA PLIdleIsFine == /\ PLIdle \in PLCallRec /\ PLIdle.pr = 0
                      /\ (plCall' = PLIdle => PLCallOK(plCall)')
<1>1. PLIdle \in PLCallRec
  BY PLAssumption DEF PLIdle, PLCallRec, PLPcs, PLWhos, PLOutcomes
<1>2. PLIdle.pr = 0 /\ PLIdle.pc = "idle"
  BY DEF PLIdle
<1>3. ASSUME plCall' = PLIdle  PROVE PLCallOK(plCall)'
  <2>1. plCall'.pc = "idle"
    BY <1>2, <1>3
  <2> QED
    BY <2>1 DEF PLCallOK, PLPreparing
<1> QED
  BY <1>1, <1>2, <1>3

\* What a call knows stays while nothing moves.
LEMMA PLCallStays ==
  ASSUME UNCHANGED <<plRevs, plPrep, plHub, plFly, plSent>>, PLCallOK(plCall')
  PROVE  PLCallOK(plCall)'
<1>1. PLMaxOrdinal' = PLMaxOrdinal /\ PLTerminals' = PLTerminals
  BY DEF PLMaxOrdinal, PLTerminals
<1>2. PLBarrierOrdinal' = PLBarrierOrdinal /\ PLPrevious' = PLPrevious
  BY <1>1 DEF PLBarrierOrdinal, PLPrevious
<1>3. PLReady' <=> PLReady
  BY <1>2 DEF PLReady
<1>4. PLClosed' <=> PLClosed
  BY <1>1 DEF PLClosed
<1>5. PICK c : c = plCall'
  OBVIOUS
<1>6. PLCallOK(c)
  BY <1>5
<1>7. PLCallOK(plCall)'
  BY <1>1, <1>2, <1>3, <1>4, <1>5, <1>6 DEF PLCallOK, PLBlank, PLUnsent, PLUnanswered, PLIsResumed
<1> QED
  BY <1>7

\* A step that moves the call only.
LEMMA PLCallStep ==
  ASSUME PLInv, UNCHANGED <<plRevs, plPrep, plHub, plFly, plSent, plAnswered, plLedger>>, plFaults' \in 0..PLMaxFaults,
         plCall' \in PLCallRec, plCall'.pr \in 0..Len(plHub.pulls), PLCallOK(plCall)'
  PROVE  PLInv'
<1>1. PLTyped'
  BY DEF PLInv, PLTyped
<1>2. PLMaxOrdinal' = PLMaxOrdinal
  BY DEF PLMaxOrdinal
<1>3. PLScans'
  BY <1>2 DEF PLInv, PLScans
<1>4. PLNamed' /\ PLMarked' /\ PLOneWrite'
  BY <1>2 DEF PLInv, PLNamed, PLNames, PLMarked, PLOneWrite
<1>5. PLFull'
  <2>1. PLFiles' = PLFiles
    <3>1. PLFiles = PLPreps + SumOfAll(PLSizes(plRevs), 1..Len(plRevs))
      BY PLFilesAre DEF PLInv, PLTyped
    <3>2. PLFiles' = PLPreps' + SumOfAll(PLSizes(plRevs), 1..Len(plRevs))
      BY PLCountsAfter DEF PLInv, PLTyped, PLSizes
    <3> QED
      BY <3>1, <3>2, PLPrepsKept DEF PLInv, PLTyped
  <2>2. PLReserving' = PLReserving
    BY <1>2 DEF PLReserving
  <2> QED
    BY <2>1, <2>2, PLReservedAfter DEF PLInv, PLFull
<1> QED
  BY <1>1, <1>3, <1>4, <1>5 DEF PLInv

\* The call ends, and nothing else happens.
LEMMA PLEndStep ==
  ASSUME PLInv, UNCHANGED <<plRevs, plPrep, plHub, plFly, plSent, plAnswered, plLedger>>, plFaults' \in 0..PLMaxFaults, PLEnd
  PROVE  PLInv'
<1>1. plCall' = PLIdle /\ 0 \in 0..Len(plHub.pulls)
  BY DEF PLEnd, PLInv, PLTyped, PLHubRec
<1> QED
  BY <1>1, PLIdleIsFine, PLCallStep

\* The fields of a call.
LEMMA PLCallFields ==
  ASSUME PLInv
  PROVE  /\ plCall \in PLCallRec /\ plCall.pr \in 0..Len(plHub.pulls) /\ PLCallOK(plCall) /\ plFaults \in 0..PLMaxFaults
         /\ plRevs \in Seq(PLRevRec) /\ PLMaxOrdinal \in Nat /\ plHub \in PLHubRec /\ plHub.pulls \in Seq(PLPulls)
         /\ plCall.ord \in Nat /\ plCall.prev \in Nat /\ plCall.pr \in Nat /\ plCall.pc \in PLPcs
BY DEF PLInv, PLNamed, PLTyped, PLCallRec, PLMaxOrdinal, PLHubRec

\* The call goes on to another step.
LEMMA PLGoesTo ==
  ASSUME PLInv, NEW pc \in PLPcs, plCall' = [plCall EXCEPT !.pc = pc]
  PROVE  /\ plCall' \in PLCallRec /\ plCall'.pc = pc /\ plCall'.pr = plCall.pr /\ plCall'.ord = plCall.ord /\ plCall'.prev = plCall.prev
         /\ plCall'.run = plCall.run /\ plCall'.erred = plCall.erred /\ plCall'.out = plCall.out
BY PLCallFields DEF PLCallRec

\* The revision that gives way.
LEMMA PLSupersedeInv == ASSUME PLInv, PLNeeds, PLSupersede PROVE PLInv'
<1> DEFINE m == PLMaxOrdinal
<1>1. /\ plCall.pc = "supersede" /\ UNCHANGED <<plPrep, plLedger, plAnswered, plFaults, plHub, plFly, plSent>>
      /\ plRevs' = [plRevs EXCEPT ![m].superseded = "yes"]
      /\ IF PLMayPrepare(plCall.run) THEN plCall' = [plCall EXCEPT !.pc = "discover"] ELSE PLEnd
  BY DEF PLSupersede, PLAt, PLTo, PLKeepHub
<1>2. /\ plCall.ord = m + 1 /\ PLBlank(m) /\ PLReady /\ plCall.prev = PLPrevious /\ plCall.run \in PLRuns
  BY <1>1, PLCallFields DEF PLCallOK, PLPreparing
<1>3. PICK a \in PLRevRec : a = plRevs[m] /\ m \in 1..Len(plRevs) /\ m > 0
  BY <1>2, PLCallFields DEF PLBlank, PLMaxOrdinal
<1>4. PICK b : b = [a EXCEPT !.superseded = "yes"]
  OBVIOUS
<1>5. b \in PLRevRec /\ PLSameResult(a, b) /\ PLSameCounts(a, b) /\ b.superseded = "yes" /\ b.generation = a.generation /\ b.submitted = a.submitted
  BY <1>4, PLFileWritten
<1>6. PLRewrites(b)
  BY <1>1, <1>3, <1>4 DEF PLRewrites
<1>7. a.generation = "no" /\ a.superseded = "no" /\ a.submitted = "no" /\ a.terminal = "no"
  BY <1>2, <1>3 DEF PLBlank, PLInv, PLScans, PLThere, PLRevRec
<1>8. PLScan1(b)
  BY <1>5, <1>7 DEF PLScan1, PLSameResult, PLThere
<1>9. PLSize(b) = PLSize(a) + 1
  BY <1>5, <1>7, PLSizeGrows DEF PLKinds, PLSameResult, PLSameCounts
<1>10. PLFits(0, 0)
  BY <1>1 DEF PLNeeds, PLAt
<1>11. plCall' \in PLCallRec /\ plCall'.pr \in 0..Len(plHub.pulls) /\ PLCallOK(plCall)'
  <2>1. CASE PLMayPrepare(plCall.run)
    <3>1. plCall' = [plCall EXCEPT !.pc = "discover"] /\ "discover" \in PLPcs
      BY <1>1, <2>1 DEF PLPcs
    <3>2. /\ plCall' \in PLCallRec /\ plCall'.pc = "discover" /\ plCall'.pr = plCall.pr /\ plCall'.ord = plCall.ord /\ plCall'.prev = plCall.prev
          /\ plCall'.run = plCall.run
      BY <3>1, PLGoesTo
    <3>3. PLMaxOrdinal' = m /\ plRevs'[m] = b
      BY <1>3, <1>5, <1>6, PLRewritten DEF PLInv
    <3>4. PLReady' /\ plCall'.prev = PLPrevious'
      BY <1>1, <1>2, <1>3, <1>5, <1>6, <3>2, PLBarrierStays DEF PLReady, PLInv
    <3>5. PLClosed'
      BY <1>5, <3>3 DEF PLClosed, PLThere
    <3>6. ~(m + 1 <= m) /\ m + 1 > 0
      BY <1>3
    <3>7. plPrep'.count[plCall.run] < PLPrepareRounds
      BY <1>1, <2>1 DEF PLMayPrepare
    <3> QED
      BY <1>2, <3>2, <3>3, <3>4, <3>5, <3>6, <3>7, PLCallFields DEF PLCallOK, PLPreparing
  <2>2. CASE ~PLMayPrepare(plCall.run)
    BY <1>1, <2>2, PLIdleIsFine, PLCallFields DEF PLEnd
  <2> QED
    BY <2>1, <2>2
<1> QED
  BY <1>1, <1>3, <1>5, <1>6, <1>8, <1>9, <1>10, <1>11, PLRecordStep, PLCallFields

\* The generation of the write.
LEMMA PLGenerateInv == ASSUME PLInv, PLNeeds, PLGenerate PROVE PLInv'
<1> DEFINE m == PLMaxOrdinal
<1>1. /\ plCall.pc = "generate" /\ UNCHANGED <<plPrep, plLedger, plAnswered, plFaults, plHub, plFly, plSent>>
      /\ plRevs' = [plRevs EXCEPT ![plCall.ord].generation = "yes"] /\ plCall' = [plCall EXCEPT !.pc = "mark"]
  BY DEF PLGenerate, PLAt, PLTo, PLKeepHub, PLOrd
<1>2. /\ plCall.ord = m /\ PLBlank(m) /\ PLReady /\ plCall.prev = PLPrevious /\ plCall.run \in PLRuns /\ plRevs[m].pr = plCall.pr
      /\ plCall.prev # 0 => plCall.pr = plCall.prev
  BY <1>1, PLCallFields DEF PLCallOK, PLPreparing
<1>3. PICK a \in PLRevRec : a = plRevs[m] /\ m \in 1..Len(plRevs) /\ m > 0
  BY <1>2, PLCallFields DEF PLBlank, PLMaxOrdinal
<1>4. PICK b : b = [a EXCEPT !.generation = "yes"]
  OBVIOUS
<1>5. b \in PLRevRec /\ PLSameResult(a, b) /\ PLSameCounts(a, b) /\ b.generation = "yes" /\ b.superseded = a.superseded /\ b.submitted = a.submitted
  BY <1>4, PLFileWritten
<1>6. PLRewrites(b)
  BY <1>1, <1>2, <1>3, <1>4 DEF PLRewrites
<1>7. a.generation = "no" /\ a.superseded = "no" /\ a.submitted = "no" /\ a.terminal = "no"
  BY <1>2, <1>3 DEF PLBlank, PLInv, PLScans, PLThere, PLRevRec
<1>8. PLScan1(b)
  BY <1>5, <1>7 DEF PLScan1, PLSameResult, PLThere
<1>9. PLSize(b) = PLSize(a) + 1
  BY <1>5, <1>7, PLSizeGrows DEF PLKinds, PLSameResult, PLSameCounts
<1>10. PLFits(0, 0)
  BY <1>1 DEF PLNeeds, PLAt
<1>11. plCall' \in PLCallRec /\ plCall'.pr \in 0..Len(plHub.pulls) /\ PLCallOK(plCall)'
  <2>1. "mark" \in PLPcs
    BY DEF PLPcs
  <2>2. /\ plCall' \in PLCallRec /\ plCall'.pc = "mark" /\ plCall'.pr = plCall.pr /\ plCall'.ord = plCall.ord /\ plCall'.prev = plCall.prev
        /\ plCall'.run = plCall.run
    BY <1>1, <2>1, PLGoesTo
  <2>3. PLMaxOrdinal' = m /\ plRevs'[m] = b
    BY <1>3, <1>5, <1>6, PLRewritten DEF PLInv
  <2>4. PLReady' /\ plCall'.prev = PLPrevious'
    BY <1>1, <1>2, <1>3, <1>5, <1>6, <2>2, PLBarrierStays DEF PLReady, PLInv
  <2>5. PLUnsent(m)'
    BY <1>3, <1>5, <1>7, <2>3 DEF PLUnsent, PLThere, PLMaxOrdinal
  <2>6. b.pr = plCall.pr
    BY <1>2, <1>3, <1>5 DEF PLSameResult
  <2> QED
    BY <1>2, <1>3, <2>2, <2>3, <2>4, <2>5, <2>6, PLCallFields DEF PLCallOK, PLPreparing
<1> QED
  BY <1>1, <1>3, <1>5, <1>6, <1>7, <1>8, <1>9, <1>10, <1>11, PLRecordStep, PLCallFields

\* A generation that is resumed.
LEMMA PLResumeInv == ASSUME PLInv, PLNeeds, PLResume PROVE PLInv'
<1> DEFINE m == PLMaxOrdinal
<1>1. /\ plCall.pc = "resumed" /\ UNCHANGED <<plPrep, plLedger, plAnswered, plFaults, plHub, plFly, plSent>>
      /\ plRevs' = [plRevs EXCEPT ![plCall.ord].resumes = @ + 1]
      /\ IF plRevs[plCall.ord].pr = plCall.pr THEN plCall' = [plCall EXCEPT !.pc = "mark"] ELSE PLEnd
  BY DEF PLResume, PLAt, PLTo, PLKeepHub, PLOrd, PLRev
<1>2. /\ plCall.ord = m /\ PLUnsent(m) /\ PLReady /\ plCall.prev = PLPrevious /\ plCall.run \in PLRuns
      /\ plCall.prev # 0 => plCall.pr = plCall.prev
  BY <1>1, PLCallFields DEF PLCallOK, PLPreparing
<1>3. PICK a \in PLRevRec : a = plRevs[m] /\ m \in 1..Len(plRevs) /\ m > 0
  BY <1>2, PLCallFields DEF PLUnsent, PLMaxOrdinal
<1>4. PICK b : b = [a EXCEPT !.resumes = a.resumes + 1]
  OBVIOUS
<1>5. /\ b \in PLRevRec /\ PLSameResult(a, b) /\ PLSize(b) = PLSize(a) + 1 /\ b.generation = a.generation
      /\ b.superseded = a.superseded /\ b.submitted = a.submitted
  BY <1>4, PLRoundRecorded
<1>6. PLRewrites(b)
  BY <1>1, <1>2, <1>3, <1>4 DEF PLRewrites
<1>7. PLScan1(a) /\ PLThere(a.generation) /\ a.submitted = "no"
  BY <1>2, <1>3 DEF PLUnsent, PLInv, PLScans, PLScan1
<1>8. PLScan1(b)
  BY <1>5, <1>7 DEF PLScan1, PLSameResult
<1>10. PLFits(0, 0)
  BY <1>1 DEF PLNeeds, PLAt
<1>11. plCall' \in PLCallRec /\ plCall'.pr \in 0..Len(plHub.pulls) /\ PLCallOK(plCall)'
  <2>1. CASE plRevs[plCall.ord].pr = plCall.pr
    <3>1. "mark" \in PLPcs
      BY DEF PLPcs
    <3>2. /\ plCall' \in PLCallRec /\ plCall'.pc = "mark" /\ plCall'.pr = plCall.pr /\ plCall'.ord = plCall.ord /\ plCall'.prev = plCall.prev
          /\ plCall'.run = plCall.run
      BY <1>1, <2>1, <3>1, PLGoesTo
    <3>3. PLMaxOrdinal' = m /\ plRevs'[m] = b
      BY <1>3, <1>5, <1>6, PLRewritten DEF PLInv
    <3>4. PLReady' /\ plCall'.prev = PLPrevious'
      BY <1>1, <1>2, <1>3, <1>5, <1>6, <3>2, PLBarrierStays DEF PLReady, PLInv
    <3>5. PLUnsent(m)'
      BY <1>3, <1>5, <1>7, <3>3 DEF PLUnsent, PLThere, PLMaxOrdinal
    <3>6. b.pr = plCall.pr
      BY <1>2, <1>3, <1>5, <2>1 DEF PLSameResult
    <3> QED
      BY <1>2, <1>3, <3>2, <3>3, <3>4, <3>5, <3>6, PLCallFields DEF PLCallOK, PLPreparing
  <2>2. CASE plRevs[plCall.ord].pr # plCall.pr
    BY <1>1, <2>2, PLIdleIsFine, PLCallFields DEF PLEnd
  <2> QED
    BY <2>1, <2>2
<1> QED
  BY <1>1, <1>3, <1>5, <1>6, <1>7, <1>8, <1>10, <1>11, PLRecordStep, PLCallFields

\* The marker of the write.
LEMMA PLMarkInv == ASSUME PLInv, PLNeeds, PLMark PROVE PLInv'
<1> DEFINE m == PLMaxOrdinal
<1>1. /\ plCall.pc = "mark" /\ UNCHANGED <<plPrep, plLedger, plAnswered, plFaults, plHub, plFly, plSent>>
      /\ plRevs' = [plRevs EXCEPT ![plCall.ord].submitted = "yes"] /\ plCall' = [plCall EXCEPT !.pc = "send"]
  BY DEF PLMark, PLAt, PLTo, PLKeepHub, PLOrd
<1>2. /\ plCall.ord = m /\ PLUnsent(m) /\ PLReady /\ plCall.prev = PLPrevious /\ plCall.run \in PLRuns /\ plRevs[m].pr = plCall.pr
      /\ plCall.prev # 0 => plCall.pr = plCall.prev
  BY <1>1, PLCallFields DEF PLCallOK, PLPreparing
<1>3. PICK a \in PLRevRec : a = plRevs[m] /\ m \in 1..Len(plRevs) /\ m > 0
  BY <1>2, PLCallFields DEF PLUnsent, PLMaxOrdinal
<1>4. PICK b : b = [a EXCEPT !.submitted = "yes"]
  OBVIOUS
<1>5. b \in PLRevRec /\ PLSameResult(a, b) /\ PLSameCounts(a, b) /\ b.submitted = "yes" /\ b.superseded = a.superseded /\ b.generation = a.generation
  BY <1>4, PLFileWritten
<1>6. PLRewrites(b)
  BY <1>1, <1>2, <1>3, <1>4 DEF PLRewrites
<1>7. PLScan1(a) /\ PLThere(a.generation) /\ a.submitted = "no" /\ a.terminal = "no"
  BY <1>2, <1>3 DEF PLUnsent, PLInv, PLScans, PLScan1, PLThere, PLRevRec
<1>8. PLScan1(b)
  BY <1>5, <1>7 DEF PLScan1, PLSameResult, PLThere
<1>9. PLSize(b) = PLSize(a) + 1
  BY <1>5, <1>7, PLSizeGrows DEF PLKinds, PLSameResult, PLSameCounts
<1>10. PLFits(1, 0) /\ ~PLThere(a.submitted) /\ PLThere(b.submitted)
  BY <1>1, <1>5, <1>7 DEF PLNeeds, PLAt, PLThere
<1>11. plCall' \in PLCallRec /\ plCall'.pr \in 0..Len(plHub.pulls) /\ PLCallOK(plCall)'
  <2>1. "send" \in PLPcs
    BY DEF PLPcs
  <2>2. /\ plCall' \in PLCallRec /\ plCall'.pc = "send" /\ plCall'.pr = plCall.pr /\ plCall'.ord = plCall.ord /\ plCall'.prev = plCall.prev
        /\ plCall'.run = plCall.run
    BY <1>1, <2>1, PLGoesTo
  <2>3. PLMaxOrdinal' = m /\ plRevs'[m] = b
    BY <1>3, <1>5, <1>6, PLRewritten DEF PLInv
  <2>4. PLReady' /\ plCall'.prev = PLPrevious'
    BY <1>1, <1>2, <1>3, <1>5, <1>6, <2>2, PLBarrierStays DEF PLReady, PLInv
  <2>5. PLUnanswered(m)'
    BY <1>3, <1>5, <1>7, <2>3 DEF PLUnanswered, PLThere, PLMaxOrdinal, PLSameResult
  <2>6. b.pr = plCall.pr
    BY <1>2, <1>3, <1>5 DEF PLSameResult
  <2>7. \A i \in 1..Len(plSent) : plSent[i].ord # m
    BY <1>3, <1>7 DEF PLInv, PLMarked, PLThere
  <2> QED
    BY <1>1, <1>2, <1>3, <2>2, <2>3, <2>4, <2>5, <2>6, <2>7, PLCallFields DEF PLCallOK, PLPreparing
<1> QED
  BY <1>1, <1>3, <1>5, <1>6, <1>8, <1>9, <1>10, <1>11, PLRecordStep, PLCallFields

\* A round of reconciliation begins, or the rounds are used up.
LEMMA PLBeginReconciliationInv == ASSUME PLInv, PLNeeds, PLBeginReconciliation PROVE PLInv'
<1> DEFINE m == PLMaxOrdinal
<1>1. /\ plCall.pc = "reconcile" /\ UNCHANGED <<plPrep, plLedger, plAnswered, plFaults, plHub, plFly, plSent>>
      /\ IF plRevs[plCall.ord].rounds < PLReconcileRounds
         THEN plRevs' = [plRevs EXCEPT ![plCall.ord].rounds = @ + 1] /\ plCall' = [plCall EXCEPT !.pc = "find"]
         ELSE UNCHANGED plRevs /\ PLEnd
  BY DEF PLBeginReconciliation, PLAt, PLTo, PLKeepHub, PLOrd, PLRev
<1>2. CASE ~(plRevs[plCall.ord].rounds < PLReconcileRounds)
  BY <1>1, <1>2, PLEndStep, PLCallFields
<1>3. CASE plRevs[plCall.ord].rounds < PLReconcileRounds
  <2>1. plCall.ord = m /\ PLUnanswered(m) /\ plCall.run \in PLRuns /\ (plCall.erred \/ plFly = {})
    BY <1>1, PLCallFields DEF PLCallOK
  <2>2. PICK a \in PLRevRec : a = plRevs[m] /\ m \in 1..Len(plRevs) /\ m > 0
    BY <2>1, PLCallFields DEF PLUnanswered, PLMaxOrdinal
  <2>3. PICK b : b = [a EXCEPT !.rounds = a.rounds + 1]
    OBVIOUS
  <2>4. /\ b \in PLRevRec /\ PLSameResult(a, b) /\ PLSize(b) = PLSize(a) + 1 /\ b.generation = a.generation
        /\ b.superseded = a.superseded /\ b.submitted = a.submitted
    BY <2>3, PLRoundRecorded
  <2>5. PLRewrites(b)
    BY <1>1, <1>3, <2>1, <2>2, <2>3 DEF PLRewrites
  <2>6. PLScan1(a) /\ PLThere(a.submitted) /\ a.terminal = "no"
    BY <2>1, <2>2 DEF PLUnanswered, PLInv, PLScans, PLScan1
  <2>7. PLScan1(b)
    BY <2>4, <2>6 DEF PLScan1, PLSameResult
  <2>8. PLFits(0, 0)
    BY <1>1, <1>3 DEF PLNeeds, PLAt, PLRev, PLOrd
  <2>9. plCall' \in PLCallRec /\ plCall'.pr \in 0..Len(plHub.pulls) /\ PLCallOK(plCall)'
    <3>1. "find" \in PLPcs
      BY DEF PLPcs
    <3>2. /\ plCall' \in PLCallRec /\ plCall'.pc = "find" /\ plCall'.pr = plCall.pr /\ plCall'.ord = plCall.ord
          /\ plCall'.run = plCall.run /\ plCall'.erred = plCall.erred
      BY <1>1, <1>3, <3>1, PLGoesTo
    <3>3. PLMaxOrdinal' = m /\ plRevs'[m] = b
      BY <2>2, <2>4, <2>5, PLRewritten DEF PLInv
    <3>4. PLUnanswered(m)'
      BY <2>2, <2>4, <2>6, <3>3 DEF PLUnanswered, PLThere, PLMaxOrdinal, PLSameResult
    <3> QED
      BY <1>1, <2>1, <2>2, <3>2, <3>3, <3>4, PLCallFields DEF PLCallOK, PLPreparing
  <2> QED
    BY <1>1, <2>2, <2>4, <2>5, <2>6, <2>7, <2>8, <2>9, PLRecordStep, PLCallFields
<1> QED
  BY <1>2, <1>3

\* The process dies while it writes one of the first three files.
LEMMA PLTornFileInv ==
  ASSUME PLInv, PLNeeds, plFaults' \in 0..PLMaxFaults, PLEnd, UNCHANGED <<plPrep, plHub, plFly, plSent, plLedger, plAnswered>>,
         \/ plCall.pc = "supersede" /\ plRevs' = [plRevs EXCEPT ![PLMaxOrdinal].superseded = "torn"]
         \/ plCall.pc = "generate" /\ plRevs' = [plRevs EXCEPT ![plCall.ord].generation = "torn"]
         \/ plCall.pc = "mark" /\ plRevs' = [plRevs EXCEPT ![plCall.ord].submitted = "torn"]
  PROVE  PLInv'
<1> DEFINE m == PLMaxOrdinal
<1>1. plCall' \in PLCallRec /\ plCall'.pr \in 0..Len(plHub.pulls) /\ PLCallOK(plCall)'
  BY PLIdleIsFine, PLCallFields DEF PLEnd
<1>2. CASE plCall.pc = "supersede" /\ plRevs' = [plRevs EXCEPT ![m].superseded = "torn"]
  <2>1. PLBlank(m)
    BY <1>2, PLCallFields DEF PLCallOK
  <2>2. PICK a \in PLRevRec : a = plRevs[m] /\ m \in 1..Len(plRevs) /\ m > 0
    BY <2>1, PLCallFields DEF PLBlank, PLMaxOrdinal
  <2>3. PICK b : b = [a EXCEPT !.superseded = "torn"]
    OBVIOUS
  <2>4. b \in PLRevRec /\ PLSameResult(a, b) /\ PLSameCounts(a, b) /\ b.superseded = "torn" /\ b.generation = a.generation /\ b.submitted = a.submitted
    BY <2>3, PLFileWritten
  <2>5. PLRewrites(b)
    BY <1>2, <2>2, <2>3 DEF PLRewrites
  <2>6. a.generation = "no" /\ a.superseded = "no" /\ a.submitted = "no" /\ a.terminal = "no"
    BY <2>1, <2>2 DEF PLBlank, PLInv, PLScans, PLThere, PLRevRec
  <2>7. PLScan1(b)
    BY <2>4, <2>6 DEF PLScan1, PLSameResult, PLThere
  <2>8. PLSize(b) = PLSize(a) + 1
    BY <2>4, <2>6, PLSizeGrows DEF PLKinds, PLSameResult, PLSameCounts
  <2>9. PLFits(0, 0)
    BY <1>2 DEF PLNeeds, PLAt
  <2> QED
    BY <1>1, <2>2, <2>4, <2>5, <2>7, <2>8, <2>9, PLRecordStep, PLCallFields
<1>3. CASE plCall.pc = "generate" /\ plRevs' = [plRevs EXCEPT ![plCall.ord].generation = "torn"]
  <2>1. plCall.ord = m /\ PLBlank(m)
    BY <1>3, PLCallFields DEF PLCallOK
  <2>2. PICK a \in PLRevRec : a = plRevs[m] /\ m \in 1..Len(plRevs) /\ m > 0
    BY <2>1, PLCallFields DEF PLBlank, PLMaxOrdinal
  <2>3. PICK b : b = [a EXCEPT !.generation = "torn"]
    OBVIOUS
  <2>4. b \in PLRevRec /\ PLSameResult(a, b) /\ PLSameCounts(a, b) /\ b.generation = "torn" /\ b.superseded = a.superseded /\ b.submitted = a.submitted
    BY <2>3, PLFileWritten
  <2>5. PLRewrites(b)
    BY <1>3, <2>1, <2>2, <2>3 DEF PLRewrites
  <2>6. a.generation = "no" /\ a.superseded = "no" /\ a.submitted = "no" /\ a.terminal = "no"
    BY <2>1, <2>2 DEF PLBlank, PLInv, PLScans, PLThere, PLRevRec
  <2>7. PLScan1(b)
    BY <2>4, <2>6 DEF PLScan1, PLSameResult, PLThere
  <2>8. PLSize(b) = PLSize(a) + 1
    BY <2>4, <2>6, PLSizeGrows DEF PLKinds, PLSameResult, PLSameCounts
  <2>9. PLFits(0, 0)
    BY <1>3 DEF PLNeeds, PLAt
  <2> QED
    BY <1>1, <2>2, <2>4, <2>5, <2>7, <2>8, <2>9, PLRecordStep, PLCallFields
<1>4. CASE plCall.pc = "mark" /\ plRevs' = [plRevs EXCEPT ![plCall.ord].submitted = "torn"]
  <2>1. plCall.ord = m /\ PLUnsent(m)
    BY <1>4, PLCallFields DEF PLCallOK
  <2>2. PICK a \in PLRevRec : a = plRevs[m] /\ m \in 1..Len(plRevs) /\ m > 0
    BY <2>1, PLCallFields DEF PLUnsent, PLMaxOrdinal
  <2>3. PICK b : b = [a EXCEPT !.submitted = "torn"]
    OBVIOUS
  <2>4. b \in PLRevRec /\ PLSameResult(a, b) /\ PLSameCounts(a, b) /\ b.submitted = "torn" /\ b.superseded = a.superseded /\ b.generation = a.generation
    BY <2>3, PLFileWritten
  <2>5. PLRewrites(b)
    BY <1>4, <2>1, <2>2, <2>3 DEF PLRewrites
  <2>6. PLScan1(a) /\ PLThere(a.generation) /\ a.submitted = "no"
    BY <2>1, <2>2 DEF PLUnsent, PLInv, PLScans, PLScan1
  <2>7. PLScan1(b)
    BY <2>4, <2>6 DEF PLScan1, PLSameResult, PLThere
  <2>8. PLSize(b) = PLSize(a) + 1
    BY <2>4, <2>6, PLSizeGrows DEF PLKinds, PLSameResult, PLSameCounts
  <2>9. PLFits(1, 0) /\ ~PLThere(a.submitted) /\ PLThere(b.submitted)
    BY <1>4, <2>4, <2>6 DEF PLNeeds, PLAt, PLThere
  <2> QED
    BY <1>1, <2>2, <2>4, <2>5, <2>7, <2>8, <2>9, PLRecordStep, PLCallFields
<1> QED
  BY <1>2, <1>3, <1>4

\* The result of the write, or what is left of it when the process dies.
LEMMA PLResultStep ==
  ASSUME PLInv, PLNeeds, plCall.pc = "terminal", NEW v \in {"yes", "torn"}, NEW out \in PLOutcomes, NEW got \in Nat,
         plRevs' = [plRevs EXCEPT ![plCall.ord] = [plRevs[plCall.ord] EXCEPT !.terminal = v, !.outcome = out, !.got = got]],
         out = "none" \/ (out = plCall.out /\ got = plCall.pr),
         UNCHANGED <<plPrep, plHub, plFly, plSent, plAnswered, plLedger>>, plFaults' \in 0..PLMaxFaults,
         plCall' \in PLCallRec, plCall'.pr \in 0..Len(plHub.pulls), PLCallOK(plCall)'
  PROVE  PLInv'
<1> DEFINE m == PLMaxOrdinal
<1>1. /\ plCall.ord = m /\ PLUnanswered(m) /\ (plCall.erred \/ plFly = {}) /\ plCall.pr > 0 /\ plCall.out # "none"
      /\ plCall.out = "CONFIRMED" => ~plCall.erred
      /\ plCall.out \in {"CONFIRMED", "RECONCILED"} /\ plRevs[m].pr = 0 => plHub.pulls[plCall.pr].ours
  BY PLCallFields DEF PLCallOK
<1>2. PICK a \in PLRevRec : a = plRevs[m] /\ m \in 1..Len(plRevs) /\ m > 0
  BY <1>1, PLCallFields DEF PLUnanswered, PLMaxOrdinal
<1>3. PICK b : b = [a EXCEPT !.terminal = v, !.outcome = out, !.got = got]
  OBVIOUS
<1>4. /\ b \in PLRevRec /\ b.terminal = v /\ b.outcome = out /\ b.got = got /\ b.pr = a.pr /\ b.generation = a.generation
      /\ b.submitted = a.submitted /\ b.superseded = a.superseded /\ PLSameCounts(a, b)
  <2>1. v \in PLThree /\ got \in Nat
    BY PLCallFields DEF PLThree
  <2>2. b \in PLRevRec /\ b.terminal = v /\ b.outcome = out /\ b.got = got
    BY <1>3, <2>1 DEF PLRevRec
  <2>3. b.pr = a.pr /\ b.generation = a.generation /\ b.submitted = a.submitted /\ b.superseded = a.superseded /\ PLSameCounts(a, b)
    BY <1>3 DEF PLRevRec, PLSameCounts
  <2> QED
    BY <2>2, <2>3
<1>5. PLRewrites(b)
  BY <1>1, <1>2, <1>3 DEF PLRewrites
<1>6. /\ plRevs' \in Seq(PLRevRec) /\ Len(plRevs') = Len(plRevs) /\ PLMaxOrdinal' = m /\ m \in 1..Len(plRevs)
      /\ plRevs'[m] = b /\ \A j \in 1..Len(plRevs) : j # m => plRevs'[j] = plRevs[j]
  BY <1>2, <1>4, <1>5, PLRewritten DEF PLInv
<1>7. PLScan1(a) /\ PLThere(a.submitted) /\ a.terminal = "no" /\ a.outcome = "none"
  <2>1. PLNames(a) /\ PLScan1(a)
    BY <1>2, <1>6 DEF PLInv, PLNamed, PLScans, PLScan1
  <2> QED
    BY <1>1, <1>2, <2>1 DEF PLUnanswered, PLNames, PLThere
<1>8. PLScans'
  <2>1. PLScan1(b)
    BY <1>4, <1>7 DEF PLScan1
  <2> QED
    BY <1>2, <1>4, <1>5, <2>1, PLStillScans DEF PLInv
<1>9. PLTyped'
  BY <1>6 DEF PLInv, PLTyped
<1>10. PLNamed'
  <2>1. PLNames(b)
    <3>1. out # "none" => got \in 1..Len(plHub.pulls)
      BY <1>1, PLCallFields
    <3>2. out \in {"CONFIRMED", "RECONCILED"} /\ a.pr = 0 => plHub.pulls[got].ours
      BY <1>1, <1>2
    <3>3. PLNames(a)
      BY <1>2, <1>6 DEF PLInv, PLNamed
    <3> QED
      BY <1>4, <3>1, <3>2, <3>3 DEF PLNames, PLThere
  <2>2. \A j \in 1..m : PLNames(plRevs'[j])
    <3> SUFFICES ASSUME NEW j \in 1..m  PROVE PLNames(plRevs'[j])
      OBVIOUS
    <3>1. CASE j = m
      BY <1>6, <2>1, <3>1
    <3>2. CASE j # m
      <4>1. PLNames(plRevs[j])
        BY DEF PLInv, PLNamed
      <4>2. plRevs'[j] = plRevs[j]
        BY <1>6, <3>2 DEF PLMaxOrdinal
      <4> QED
        BY <4>1, <4>2
    <3> QED
      BY <3>1, <3>2
  <2> QED
    BY <1>6, <2>2 DEF PLInv, PLNamed, PLNames
<1>11. PLMarked'
  <2>1. ASSUME NEW w \in plFly  PROVE out # "CONFIRMED"
    BY <1>1, <2>1
  <2>2. \A j \in 1..m : PLThere(plRevs[j].submitted) => PLThere(plRevs'[j].submitted)
    BY <1>2, <1>4, <1>6 DEF PLMaxOrdinal
  <2>3. \A i \in 1..Len(plSent') : plSent'[i].ord \in 1..m /\ PLThere(plRevs'[plSent'[i].ord].submitted)
    BY <2>2 DEF PLInv, PLMarked
  <2>4. \A w \in plFly' : w.ord = m /\ m > 0 /\ PLThere(plRevs'[m].submitted) /\ plRevs'[m].outcome # "CONFIRMED"
    BY <1>2, <1>4, <1>6, <1>7, <2>1 DEF PLInv, PLMarked
  <2> QED
    BY <1>6, <2>3, <2>4 DEF PLMarked
<1>12. PLOneWrite'
  BY DEF PLInv, PLOneWrite
<1>13. PLFull'
  <2>1. PLSize(b) = PLSize(a) + 1
    BY <1>4, <1>7, PLSizeGrows DEF PLKinds, PLSameCounts
  <2>2. PLFiles' = PLFiles + 1 /\ PLFiles \in Nat
    BY <1>2, <1>6, <2>1, PLOneFileMore DEF PLInv
  <2>3. m \in PLReserving /\ m \notin PLReserving'
    BY <1>2, <1>4, <1>6, <1>7 DEF PLReserving, PLMaxOrdinal, PLThere
  <2>4. \A o \in 1..m : o # m => (o \in PLReserving' <=> o \in PLReserving)
    BY <1>6 DEF PLReserving, PLMaxOrdinal
  <2>5. PLReserving' \subseteq 1..m /\ PLReserving \subseteq 1..m
    BY <1>6 DEF PLReserving
  <2>6. PLReserving' = PLReserving \ {m}
    <3> HIDE DEF m
    <3>1. \A o \in 1..m : o \in PLReserving' <=> o \in PLReserving \ {m}
      BY <2>3, <2>4
    <3> QED
      BY <2>5, <3>1
  <2>7. PLReservations' = PLReservations - 1
    BY <2>3, <2>6, PLReservedAfter DEF PLInv
  <2>8. PLFits(0, 1)
    BY DEF PLNeeds, PLAt
  <2>9. 0 \in 0..1 /\ 1 \in 0..1 /\ PLFiles' \in Nat /\ PLFiles' <= PLFiles + 1 /\ PLReservations' = PLReservations + 0 - 1
    BY <2>2, <2>7, PLNumbers DEF PLInv
  <2> QED
    BY <2>8, <2>9, PLStaysFull DEF PLInv
<1> QED
  BY <1>8, <1>9, <1>10, <1>11, <1>12, <1>13 DEF PLInv

\* The result of the write is recorded.
LEMMA PLTerminalizeInv == ASSUME PLInv, PLNeeds, PLTerminalize PROVE PLInv'
<1>1. /\ plCall.pc = "terminal" /\ plCall' = [plCall EXCEPT !.pc = "record"]
      /\ UNCHANGED <<plPrep, plLedger, plAnswered, plFaults, plHub, plFly, plSent>>
      /\ plRevs' = [plRevs EXCEPT ![plCall.ord].terminal = "yes", ![plCall.ord].outcome = plCall.out, ![plCall.ord].got = plCall.pr]
  BY DEF PLTerminalize, PLAt, PLTo, PLKeepHub, PLOrd
<1>2. plCall.ord = PLMaxOrdinal /\ plCall.ord \in 1..Len(plRevs) /\ plCall.run \in PLRuns
  BY <1>1, PLCallFields DEF PLCallOK, PLUnanswered, PLMaxOrdinal
<1>3. plCall.out \in PLOutcomes
  BY PLCallFields DEF PLCallRec
<1>4. plRevs' = [plRevs EXCEPT ![plCall.ord] = [plRevs[plCall.ord] EXCEPT !.terminal = "yes", !.outcome = plCall.out, !.got = plCall.pr]]
  BY <1>1, <1>2, PLCallFields
<1>5. plCall' \in PLCallRec /\ plCall'.pr \in 0..Len(plHub.pulls) /\ PLCallOK(plCall)'
  <2>1. "record" \in PLPcs
    BY DEF PLPcs
  <2>2. plCall' \in PLCallRec /\ plCall'.pc = "record" /\ plCall'.pr = plCall.pr /\ plCall'.ord = plCall.ord /\ plCall'.run = plCall.run
    BY <1>1, <2>1, PLGoesTo
  <2>3. PLMaxOrdinal' = PLMaxOrdinal
    BY <1>2, <1>4, PLCallFields DEF PLMaxOrdinal
  <2> QED
    BY <1>2, <2>2, <2>3, PLCallFields DEF PLCallOK, PLPreparing
<1> QED
  BY <1>1, <1>3, <1>4, <1>5, PLResultStep, PLCallFields

\* The process dies while it writes the result.
LEMMA PLTornResultInv ==
  ASSUME PLInv, PLNeeds, plFaults' \in 0..PLMaxFaults, PLEnd, UNCHANGED <<plPrep, plHub, plFly, plSent, plLedger, plAnswered>>,
         plCall.pc = "terminal", plRevs' = [plRevs EXCEPT ![plCall.ord].terminal = "torn"]
  PROVE  PLInv'
<1>1. plCall.ord = PLMaxOrdinal /\ PLUnanswered(plCall.ord) /\ plCall.ord \in 1..Len(plRevs)
  BY PLCallFields DEF PLCallOK, PLUnanswered, PLMaxOrdinal
<1>2. PICK a \in PLRevRec : a = plRevs[plCall.ord]
  BY <1>1, PLCallFields
<1>3. a.outcome = "none" /\ a.got \in Nat
  BY <1>1, <1>2 DEF PLInv, PLNamed, PLNames, PLUnanswered, PLThere, PLRevRec
<1>4. [a EXCEPT !.terminal = "torn"] = [a EXCEPT !.terminal = "torn", !.outcome = "none", !.got = a.got]
  BY <1>3 DEF PLRevRec
<1>5. plRevs' = [plRevs EXCEPT ![plCall.ord] = [plRevs[plCall.ord] EXCEPT !.terminal = "torn", !.outcome = "none", !.got = a.got]]
  BY <1>1, <1>2, <1>4, PLCallFields
<1>6. "none" \in PLOutcomes
  BY DEF PLOutcomes
<1>7. plCall' \in PLCallRec /\ plCall'.pr \in 0..Len(plHub.pulls) /\ PLCallOK(plCall)'
  BY PLIdleIsFine, PLCallFields DEF PLEnd
<1> QED
  BY <1>3, <1>5, <1>6, <1>7, PLResultStep

\* A revision for which only its document is written.
PLFresh(r) ==
  /\ r \in PLRevRec /\ r.pr \in 0..Len(plHub.pulls) /\ PLSize(r) = 1 + PLPreps
  /\ r.generation = "no" /\ r.submitted = "no" /\ r.terminal = "no" /\ r.superseded = "no" /\ r.outcome = "none"

\* It is the new last one.
LEMMA PLAppended ==
  ASSUME PLTyped, NEW r \in PLRevRec, r.terminal = "no", plRevs' = Append(plRevs, r)
  PROVE  /\ plRevs' \in Seq(PLRevRec) /\ PLMaxOrdinal' = PLMaxOrdinal + 1 /\ Len(plRevs') = PLMaxOrdinal + 1 /\ PLMaxOrdinal = Len(plRevs)
         /\ PLMaxOrdinal \in Nat /\ plRevs'[PLMaxOrdinal + 1] = r /\ \A j \in 1..PLMaxOrdinal : plRevs'[j] = plRevs[j]
         /\ PLBarrierOrdinal' = PLBarrierOrdinal /\ PLPrevious' = PLPrevious
         /\ PLBarrierOrdinal # 0 => plRevs'[PLBarrierOrdinal].outcome = plRevs[PLBarrierOrdinal].outcome
<1>1. /\ plRevs' \in Seq(PLRevRec) /\ PLMaxOrdinal' = PLMaxOrdinal + 1 /\ Len(plRevs') = PLMaxOrdinal + 1 /\ PLMaxOrdinal = Len(plRevs)
      /\ PLMaxOrdinal \in Nat /\ plRevs'[PLMaxOrdinal + 1] = r /\ \A j \in 1..PLMaxOrdinal : plRevs'[j] = plRevs[j]
  BY DEF PLTyped, PLMaxOrdinal
<1> DEFINE m == PLMaxOrdinal
<1>2. PLTerminals' = PLTerminals
  <2>1. \A o \in 1..(m + 1) : o \in 1..m \/ o = m + 1
    BY <1>1
  <2>2. \A o \in 1..m : o \in 1..(m + 1)
    BY <1>1
  <2>3. ~PLThere(plRevs'[m + 1].terminal)
    BY <1>1 DEF PLThere
  <2>4. PLTerminals' = {o \in 1..(m + 1) : PLThere(plRevs'[o].terminal)}
    BY <1>1 DEF PLTerminals
  <2>5. PLTerminals = {o \in 1..m : PLThere(plRevs[o].terminal)}
    BY DEF PLTerminals
  <2>6. \A o \in 1..m : plRevs'[o] = plRevs[o]
    BY <1>1
  <2> HIDE DEF m
  <2> QED
    BY <2>1, <2>2, <2>3, <2>4, <2>5, <2>6
<1>3. PLBarrierOrdinal' = PLBarrierOrdinal
  BY <1>2 DEF PLBarrierOrdinal
<1>4. PLBarrierOrdinal \in 0..m
  BY PLBarrierIs DEF PLTyped
<1>5. PLBarrierOrdinal # 0 => plRevs'[PLBarrierOrdinal] = plRevs[PLBarrierOrdinal]
  BY <1>1, <1>4
<1> QED
  BY <1>1, <1>3, <1>5 DEF PLPrevious

\* A step that writes the document of the next revision.
LEMMA PLAppendStep ==
  ASSUME PLInv, plCall.pc = "revise", PLOrd > PLMaxOrdinal, PLNeeds, NEW r, PLFresh(r), plRevs' = Append(plRevs, r), plPrep' = PLNoPrep,
         UNCHANGED <<plHub, plFly, plSent, plAnswered, plLedger>>, plFaults' \in 0..PLMaxFaults,
         plCall' \in PLCallRec, plCall'.pr \in 0..Len(plHub.pulls), PLCallOK(plCall)'
  PROVE  PLInv'
<1> DEFINE m == PLMaxOrdinal
<1>0. PLTyped /\ r \in PLRevRec /\ r.terminal = "no"
  BY DEF PLInv, PLFresh
<1>1. /\ plRevs' \in Seq(PLRevRec) /\ PLMaxOrdinal' = m + 1 /\ Len(plRevs') = m + 1 /\ m = Len(plRevs)
      /\ m \in Nat /\ plRevs'[m + 1] = r /\ \A j \in 1..m : plRevs'[j] = plRevs[j]
  BY <1>0, PLAppended
<1>2. plCall.ord = m + 1 /\ PLClosed /\ PLReady /\ plCall.ord \in 0..PLMaxRevisions
  BY <1>1, PLCallFields DEF PLCallOK, PLPreparing, PLOrd, PLCallRec
<1>3. \A j \in 1..(m + 1) : j \in 1..m \/ j = m + 1
  BY <1>1
<1>4. PLTyped'
  <2>1. Len(plRevs') <= PLMaxRevisions
    BY <1>1, <1>2
  <2>2. PLNoPrep \in PLPrepRec
    BY PLAssumption DEF PLNoPrep, PLPrepRec
  <2> QED
    BY <1>1, <2>1, <2>2 DEF PLInv, PLTyped
<1>5. PLScans'
  <2>1. ASSUME NEW o \in 1..(m + 1)
        PROVE  PLScan1(plRevs'[o]) /\ (~PLThere(plRevs'[o].terminal) /\ ~PLThere(plRevs'[o].superseded) => o = m + 1)
    <3>1. CASE o = m + 1
      BY <1>1, <3>1 DEF PLFresh, PLScan1, PLThere
    <3>2. CASE o \in 1..m
      <4>1. plRevs'[o] = plRevs[o] /\ o > 0 /\ m > 0
        BY <1>1, <3>2
      <4>2. PLScan1(plRevs[o]) /\ (~PLThere(plRevs[o].terminal) /\ ~PLThere(plRevs[o].superseded) => o = m)
        BY <3>2 DEF PLInv, PLScans, PLScan1
      <4>3. PLThere(plRevs[m].terminal) \/ PLThere(plRevs[m].superseded)
        BY <1>2, <4>1 DEF PLClosed
      <4> QED
        BY <4>1, <4>2, <4>3
    <3> QED
      BY <1>3, <3>1, <3>2
  <2> QED
    BY <1>1, <2>1 DEF PLScans, PLScan1, PLThere
<1>6. PLNamed'
  <2>1. PLNames(r)
    BY DEF PLFresh, PLNames
  <2>2. \A j \in 1..(m + 1) : PLNames(plRevs'[j])
    <3> SUFFICES ASSUME NEW j \in 1..(m + 1)  PROVE PLNames(plRevs'[j])
      OBVIOUS
    <3>1. CASE j = m + 1
      BY <1>1, <2>1, <3>1
    <3>2. CASE j \in 1..m
      BY <1>1, <3>2 DEF PLInv, PLNamed
    <3> QED
      BY <1>3, <3>1, <3>2
  <2> QED
    BY <1>1, <2>2 DEF PLInv, PLNamed, PLNames
<1>7. PLMarked'
  <2>1. plFly' = {}
    BY <1>2 DEF PLReady
  <2>2. ASSUME NEW i \in 1..Len(plSent)  PROVE plSent[i].ord \in 1..(m + 1) /\ PLThere(plRevs'[plSent[i].ord].submitted)
    <3>1. plSent[i].ord \in 1..m /\ PLThere(plRevs[plSent[i].ord].submitted)
      BY DEF PLInv, PLMarked
    <3> QED
      BY <1>1, <3>1
  <2> QED
    BY <1>1, <2>1, <2>2 DEF PLMarked
<1>8. PLOneWrite'
  BY DEF PLInv, PLOneWrite
<1>9. PLFull'
  <2>1. PLFiles' = PLFiles + 1 /\ PLFiles \in Nat /\ PLReservations \in Nat
    BY <1>0, PLRevisionIsOneFile, PLNumbers DEF PLFresh
  <2>2. PLReserving' = PLReserving
    <3>1. PLReserving' = {o \in 1..(m + 1) : PLThere(plRevs'[o].submitted) /\ ~PLThere(plRevs'[o].terminal)}
      BY <1>1 DEF PLReserving
    <3>2. PLReserving = {o \in 1..m : PLThere(plRevs[o].submitted) /\ ~PLThere(plRevs[o].terminal)}
      BY DEF PLReserving
    <3>3. ~PLThere(plRevs'[m + 1].submitted)
      BY <1>1 DEF PLThere, PLFresh
    <3>4. \A o \in 1..m : plRevs'[o] = plRevs[o] /\ o \in 1..(m + 1)
      BY <1>1
    <3> HIDE DEF m
    <3> QED
      BY <1>3, <3>1, <3>2, <3>3, <3>4
  <2>3. PLReservations' = PLReservations + 0 - 0
    BY <1>0, <2>1, <2>2, PLReservedAfter
  <2>4. PLFits(0, 0)
    BY DEF PLNeeds, PLAt
  <2>5. 0 \in 0..1 /\ PLFiles' \in Nat /\ PLFiles' <= PLFiles + 1
    BY <2>1
  <2> QED
    BY <1>0, <2>3, <2>4, <2>5, PLStaysFull
<1> QED
  BY <1>4, <1>5, <1>6, <1>7, <1>8, <1>9 DEF PLInv

\* What makeRevision makes is such a revision.
LEMMA PLNewIsFresh ==
  ASSUME PLInv, NEW r, r = PLNew \/ r = [PLNew EXCEPT !.torn = TRUE]
  PROVE  PLFresh(r) /\ r.pr = plCall.pr
<1>1. PLPreps \in Nat /\ plCall.pr \in 0..Len(plHub.pulls) /\ plCall.req \in PLWhos /\ plCall.pr \in Nat
  BY PLNumbers, PLCallFields DEF PLInv, PLCallRec
<1>2. PICK t \in BOOLEAN :
      r = [req |-> plCall.req, pr |-> plCall.pr, generation |-> "no", submitted |-> "no", terminal |-> "no",
           outcome |-> "none", superseded |-> "no", preps |-> PLPreps, resumes |-> 0, rounds |-> 0, got |-> 0, torn |-> t]
  BY DEF PLNew, PLRevision
<1>3. /\ r.pr = plCall.pr /\ r.generation = "no" /\ r.submitted = "no" /\ r.terminal = "no" /\ r.superseded = "no"
      /\ r.outcome = "none" /\ r.preps = PLPreps /\ r.resumes = 0 /\ r.rounds = 0
  BY <1>2
<1>4. r \in PLRevRec
  <2>1. "no" \in PLThree /\ "none" \in PLOutcomes /\ 0 \in Nat
    BY DEF PLThree, PLOutcomes
  <2> QED
    BY <1>1, <1>2, <2>1 DEF PLRevRec
<1>5. PLSize(r) = 1 + PLPreps
  <2>1. {k \in PLKinds : PLThere(r[k])} = {}
    BY <1>3 DEF PLKinds, PLThere
  <2>2. Cardinality({}) = 0
    BY FS_EmptySet
  <2>3. PLSize(r) = 1 + PLPreps + 0 + 0 + 0
    BY <1>3, <2>1, <2>2 DEF PLSize
  <2> QED
    BY <1>1, <2>3
<1> QED
  BY <1>1, <1>3, <1>4, <1>5 DEF PLFresh

\* The document of the revision is written, or is there.
LEMMA PLReviseInv == ASSUME PLInv, PLNeeds, PLRevise PROVE PLInv'
<1> DEFINE m == PLMaxOrdinal
<1>1. /\ plCall.pc = "revise" /\ UNCHANGED <<plLedger, plAnswered, plFaults, plHub, plFly, plSent>>
      /\ IF plCall.ord > m
         THEN plRevs' = Append(plRevs, PLNew) /\ plPrep' = PLNoPrep /\ plCall' = [plCall EXCEPT !.pc = "generate"]
         ELSE UNCHANGED <<plRevs, plPrep>> /\ IF plRevs[plCall.ord].pr = plCall.pr THEN plCall' = [plCall EXCEPT !.pc = "generate"] ELSE PLEnd
  BY DEF PLRevise, PLAt, PLTo, PLKeepHub, PLOrd, PLRev
<1>2. /\ plCall.run \in PLRuns /\ plCall.ord > 0 /\ PLReady /\ plCall.prev = PLPrevious /\ (plCall.prev # 0 => plCall.pr = plCall.prev)
      /\ m \in Nat
      /\ \/ plCall.ord = m + 1 /\ PLClosed
         \/ plCall.ord = m /\ PLBlank(m)
  BY <1>1, PLCallFields DEF PLCallOK, PLPreparing
<1>3. "generate" \in PLPcs
  BY DEF PLPcs
<1>4. CASE plCall.ord > m
  <2>1. PICK r : r = PLNew
    OBVIOUS
  <2>2. PICK n \in Nat : n = m + 1 /\ n \in 1..n
    BY <1>2
  <2>3. PLFresh(r) /\ r.pr = plCall.pr
    BY <2>1, PLNewIsFresh
  <2>4. plRevs' = Append(plRevs, r) /\ plPrep' = PLNoPrep /\ plCall' = [plCall EXCEPT !.pc = "generate"] /\ plCall.ord = m + 1
    BY <1>1, <1>2, <1>4, <2>1
  <2>5. plCall' \in PLCallRec /\ plCall'.pr \in 0..Len(plHub.pulls) /\ PLCallOK(plCall)'
    <3>1. /\ plCall' \in PLCallRec /\ plCall'.pc = "generate" /\ plCall'.pr = plCall.pr /\ plCall'.ord = plCall.ord /\ plCall'.prev = plCall.prev
          /\ plCall'.run = plCall.run
      BY <1>3, <2>4, PLGoesTo
    <3>2. /\ PLMaxOrdinal' = m + 1 /\ plRevs'[m + 1] = r /\ PLBarrierOrdinal' = PLBarrierOrdinal /\ PLPrevious' = PLPrevious
          /\ PLBarrierOrdinal # 0 => plRevs'[PLBarrierOrdinal].outcome = plRevs[PLBarrierOrdinal].outcome
      BY <2>3, <2>4, PLAppended DEF PLInv, PLFresh
    <3>3. PLReady' /\ plCall'.prev = PLPrevious'
      BY <1>1, <1>2, <3>1, <3>2 DEF PLReady
    <3>4. PLBlank(n)' /\ plCall'.ord = n /\ PLMaxOrdinal' = n /\ plRevs'[n].pr = plCall'.pr
      BY <2>2, <2>3, <2>4, <3>1, <3>2 DEF PLBlank, PLFresh
    <3>5. plCall'.run \in PLRuns /\ n > 0 /\ (plCall'.prev # 0 => plCall'.pr = plCall'.prev)
      BY <1>2, <2>2, <3>1
    <3>6. PLCallOK(plCall)'
      BY <3>1, <3>3, <3>4, <3>5 DEF PLCallOK, PLPreparing
    <3> QED
      BY <3>1, <3>6, PLCallFields
  <2> QED
    BY <1>1, <1>4, <2>3, <2>4, <2>5, PLAppendStep, PLCallFields DEF PLOrd
<1>5. CASE ~(plCall.ord > m)
  <2>1. plCall.ord = m /\ PLBlank(m)
    BY <1>2, <1>5, PLCallFields
  <2>2. CASE plRevs[plCall.ord].pr = plCall.pr
    <3>1. /\ plCall' \in PLCallRec /\ plCall'.pc = "generate" /\ plCall'.pr = plCall.pr /\ plCall'.ord = plCall.ord /\ plCall'.prev = plCall.prev
          /\ plCall'.run = plCall.run
      BY <1>1, <1>3, <1>5, <2>2, PLGoesTo
    <3>2. PLCallOK(plCall')
      BY <1>2, <2>1, <2>2, <3>1 DEF PLCallOK, PLPreparing
    <3>3. PLCallOK(plCall)'
      BY <1>1, <1>5, <3>2, PLCallStays
    <3> QED
      BY <1>1, <1>5, <3>1, <3>3, PLCallStep, PLCallFields
  <2>3. CASE plRevs[plCall.ord].pr # plCall.pr
    BY <1>1, <1>5, <2>3, PLEndStep, PLCallFields
  <2> QED
    BY <2>2, <2>3
<1> QED
  BY <1>4, <1>5

\* The process dies while it writes the document.
LEMMA PLTornRevisionInv ==
  ASSUME PLInv, PLNeeds, plFaults' \in 0..PLMaxFaults, PLEnd, UNCHANGED <<plHub, plFly, plSent, plLedger, plAnswered>>,
         plCall.pc = "revise", PLOrd > PLMaxOrdinal, plRevs' = Append(plRevs, [PLNew EXCEPT !.torn = TRUE]), plPrep' = PLNoPrep
  PROVE  PLInv'
<1>1. PICK r : r = [PLNew EXCEPT !.torn = TRUE]
  OBVIOUS
<1>2. PLFresh(r)
  BY <1>1, PLNewIsFresh
<1>3. plCall' \in PLCallRec /\ plCall'.pr \in 0..Len(plHub.pulls) /\ PLCallOK(plCall)'
  BY PLIdleIsFine, PLCallFields DEF PLEnd
<1> QED
  BY <1>1, <1>2, <1>3, PLAppendStep

\* A step that writes a record of a preparation.
LEMMA PLPreparationStep ==
  ASSUME PLInv, UNCHANGED <<plRevs, plHub, plFly, plSent, plAnswered, plLedger>>, plPrep' \in PLPrepRec, PLFiles' \in Nat, PLFiles' <= PLFiles + 1,
         PLFits(0, 0), plFaults' \in 0..PLMaxFaults, plCall' \in PLCallRec, plCall'.pr \in 0..Len(plHub.pulls), PLCallOK(plCall)'
  PROVE  PLInv'
<1>1. PLTyped'
  BY DEF PLInv, PLTyped
<1>2. PLMaxOrdinal' = PLMaxOrdinal
  BY DEF PLMaxOrdinal
<1>3. PLScans'
  BY <1>2 DEF PLInv, PLScans
<1>4. PLNamed' /\ PLMarked' /\ PLOneWrite'
  BY <1>2 DEF PLInv, PLNamed, PLNames, PLMarked, PLOneWrite
<1>5. PLFull'
  <2>1. PLReserving' = PLReserving
    BY <1>2 DEF PLReserving
  <2>2. PLReservations' = PLReservations + 0 - 0
    BY <2>1, PLReservedAfter, PLNumbers DEF PLInv
  <2>3. 0 \in 0..1
    OBVIOUS
  <2> QED
    BY <2>2, <2>3, PLStaysFull DEF PLInv
<1> QED
  BY <1>1, <1>3, <1>4, <1>5 DEF PLInv

\* A preparation that failed is recorded, unless a generation is resumed.
LEMMA PLPrepareFailsInv == ASSUME PLInv, PLPrepareFails PROVE PLInv'
<1>1. /\ plCall.pc \in {"discover", "inspect", "resume"} /\ UNCHANGED <<plRevs, plLedger, plAnswered, plFaults, plHub, plFly, plSent>> /\ PLEnd
      /\ plPrep' = IF PLResumed \/ ~PLFits(0, 0) THEN plPrep ELSE [plPrep EXCEPT !.count[plCall.run] = @ + 1]
  BY DEF PLPrepareFails, PLAt, PLKeepHub
<1>2. CASE PLResumed \/ ~PLFits(0, 0)
  BY <1>1, <1>2, PLEndStep, PLCallFields
<1>3. CASE ~PLResumed /\ PLFits(0, 0)
  <2>1. plCall.run \in PLRuns /\ (~PLIsResumed(plCall) => plCall.pc \in {"discover", "inspect"})
    BY <1>1, PLCallFields DEF PLCallOK, PLIsResumed, PLUnsent
  <2>2. plPrep.count[plCall.run] < PLPrepareRounds
    BY <1>3, <2>1, PLCallFields DEF PLCallOK, PLIsResumed, PLResumed, PLOrd
  <2>3. plPrep' \in PLPrepRec /\ PLFiles' = PLFiles + 1
    BY <1>1, <1>3, <2>1, <2>2, PLPreparationIsOneFile DEF PLInv
  <2>4. PLFiles' \in Nat /\ PLFiles' <= PLFiles + 1
    BY <2>3, PLNumbers DEF PLInv
  <2>5. plCall' \in PLCallRec /\ plCall'.pr \in 0..Len(plHub.pulls) /\ PLCallOK(plCall)'
    BY <1>1, PLIdleIsFine, PLCallFields DEF PLEnd
  <2> QED
    BY <1>1, <1>3, <2>3, <2>4, <2>5, PLPreparationStep, PLCallFields
<1> QED
  BY <1>2, <1>3

\* A preparation is done.
LEMMA PLPreparedInv == ASSUME PLInv, PLNeeds, PLPrepared PROVE PLInv'
<1>1. /\ plCall.pc = "prepared" /\ UNCHANGED <<plRevs, plLedger, plAnswered, plFaults, plHub, plFly, plSent>>
      /\ plPrep' = [plPrep EXCEPT !.count[plCall.run] = @ + 1] /\ plCall' = [plCall EXCEPT !.pc = "revise"]
  BY DEF PLPrepared, PLAt, PLKeepHub, PLTo
<1>2. /\ plCall.run \in PLRuns /\ plCall.ord > 0 /\ PLReady /\ plCall.prev = PLPrevious /\ (plCall.prev # 0 => plCall.pr = plCall.prev)
      /\ \/ plCall.ord = PLMaxOrdinal + 1 /\ PLClosed
         \/ plCall.ord = PLMaxOrdinal /\ PLBlank(plCall.ord)
  BY <1>1, PLCallFields DEF PLCallOK, PLPreparing
<1>3. ~PLIsResumed(plCall)
  <2>1. ~(PLMaxOrdinal + 1 <= PLMaxOrdinal)
    BY PLCallFields
  <2> QED
    BY <1>2, <2>1 DEF PLIsResumed, PLBlank, PLThere
<1>4. plPrep.count[plCall.run] < PLPrepareRounds
  BY <1>1, <1>3, PLCallFields DEF PLCallOK
<1>5. plPrep' \in PLPrepRec /\ PLFiles' = PLFiles + 1
  BY <1>1, <1>2, <1>4, PLPreparationIsOneFile DEF PLInv
<1>6. PLFiles' \in Nat /\ PLFiles' <= PLFiles + 1
  BY <1>5, PLNumbers DEF PLInv
<1>7. "revise" \in PLPcs
  BY DEF PLPcs
<1>8. /\ plCall' \in PLCallRec /\ plCall'.pc = "revise" /\ plCall'.pr = plCall.pr /\ plCall'.ord = plCall.ord /\ plCall'.prev = plCall.prev
      /\ plCall'.run = plCall.run
  BY <1>1, <1>7, PLGoesTo
<1>9. PLCallOK(plCall)'
  <2>1. PLMaxOrdinal' = PLMaxOrdinal /\ PLTerminals' = PLTerminals
    BY <1>1 DEF PLMaxOrdinal, PLTerminals
  <2>2. PLBarrierOrdinal' = PLBarrierOrdinal /\ PLPrevious' = PLPrevious
    BY <1>1, <2>1 DEF PLBarrierOrdinal, PLPrevious
  <2>3. PLReady' /\ (PLClosed' <=> PLClosed)
    BY <1>1, <1>2, <2>1, <2>2 DEF PLReady, PLClosed
  <2>4. PLBlank(plCall.ord) => PLBlank(plCall.ord)'
    BY <1>1, <1>8, <2>1 DEF PLBlank
  <2>5. (plCall.ord = PLMaxOrdinal + 1 /\ PLClosed) \/ (plCall.ord = PLMaxOrdinal /\ PLBlank(plCall.ord))
    BY <1>2
  <2> QED
    BY <1>2, <1>8, <2>1, <2>2, <2>3, <2>4, <2>5 DEF PLCallOK, PLPreparing
<1>10. PLFits(0, 0)
  BY <1>1 DEF PLNeeds, PLAt
<1> QED
  BY <1>1, <1>5, <1>6, <1>8, <1>9, <1>10, PLPreparationStep, PLCallFields

\* The process dies while it writes the record of its preparation.
LEMMA PLTornPreparationInv ==
  ASSUME PLInv, PLNeeds, plFaults' \in 0..PLMaxFaults, PLEnd, UNCHANGED <<plRevs, plHub, plFly, plSent, plLedger, plAnswered>>,
         plCall.pc = "prepared", plPrep' = [plPrep EXCEPT !.torn = TRUE]
  PROVE  PLInv'
<1>1. plPrep' \in PLPrepRec /\ PLFiles' \in Nat /\ PLFiles' <= PLFiles + 1
  BY PLTornPreparation DEF PLInv
<1>2. PLFits(0, 0)
  BY DEF PLNeeds, PLAt
<1>3. plCall' \in PLCallRec /\ plCall'.pr \in 0..Len(plHub.pulls) /\ PLCallOK(plCall)'
  BY PLIdleIsFine, PLCallFields DEF PLEnd
<1> QED
  BY <1>1, <1>2, <1>3, PLPreparationStep

\* A death of the process.
LEMMA PLDieInv == ASSUME PLInv, PLDie PROVE PLInv'
<1>1. plFaults' \in 0..PLMaxFaults /\ PLEnd /\ UNCHANGED <<plHub, plFly, plSent, plLedger, plAnswered>>
  <2>1. plFaults \in 0..PLMaxFaults /\ plFaults < PLMaxFaults /\ plFaults' = plFaults + 1 /\ PLMaxFaults \in Nat
    BY PLCallFields, PLAssumption DEF PLDie, PLFault
  <2> QED
    BY <2>1 DEF PLDie, PLKeepHub
<1>2. CASE UNCHANGED <<plRevs, plPrep>>
  BY <1>1, <1>2, PLEndStep
<1>3. CASE PLNeeds /\ PLTorn
  <2>1. \/ plCall.pc = "supersede" /\ plRevs' = [plRevs EXCEPT ![PLMaxOrdinal].superseded = "torn"] /\ UNCHANGED plPrep
        \/ plCall.pc = "prepared" /\ plPrep' = [plPrep EXCEPT !.torn = TRUE] /\ UNCHANGED plRevs
        \/ plCall.pc = "revise" /\ PLOrd > PLMaxOrdinal /\ plRevs' = Append(plRevs, [PLNew EXCEPT !.torn = TRUE]) /\ plPrep' = PLNoPrep
        \/ plCall.pc = "generate" /\ plRevs' = [plRevs EXCEPT ![plCall.ord].generation = "torn"] /\ UNCHANGED plPrep
        \/ plCall.pc = "mark" /\ plRevs' = [plRevs EXCEPT ![plCall.ord].submitted = "torn"] /\ UNCHANGED plPrep
        \/ plCall.pc = "terminal" /\ plRevs' = [plRevs EXCEPT ![plCall.ord].terminal = "torn"] /\ UNCHANGED plPrep
    BY <1>3 DEF PLTorn, PLAt, PLOrd
  <2> QED
    BY <1>1, <1>3, <2>1, PLTornFileInv, PLTornPreparationInv, PLTornRevisionInv, PLTornResultInv
<1> QED
  BY <1>2, <1>3 DEF PLDie

\* GitHub keeps its pull requests, and who opened them.
PLHubGrows(h) ==
  /\ h \in PLHubRec /\ Len(h.pulls) <= PLMaxPulls /\ Len(plHub.pulls) <= Len(h.pulls)
  /\ \A n \in 1..Len(plHub.pulls) : h.pulls[n].ours = plHub.pulls[n].ours

\* The disk and the numbers stay while only GitHub and the call move.
LEMMA PLHubStep ==
  ASSUME PLInv, UNCHANGED <<plRevs, plPrep, plLedger, plAnswered>>, PLHubGrows(plHub'), plSent' \in Seq(PLWrites), plFly' \in SUBSET PLWrites,
         PLMarked', PLOneWrite', \A w \in plFly' : w.pr \in 0..Len(plHub'.pulls), plFaults' \in 0..PLMaxFaults,
         plCall' \in PLCallRec, plCall'.pr \in 0..Len(plHub.pulls), PLCallOK(plCall)'
  PROVE  PLInv'
<1>1. PLTyped'
  BY DEF PLInv, PLTyped, PLHubGrows
<1>2. PLMaxOrdinal' = PLMaxOrdinal
  BY DEF PLMaxOrdinal
<1>3. PLScans'
  BY <1>2 DEF PLInv, PLScans
<1>4. PLNamed'
  <2>1. plHub \in PLHubRec /\ Len(plHub.pulls) \in Nat /\ Len(plHub'.pulls) \in Nat /\ Len(plHub.pulls) <= Len(plHub'.pulls)
    BY DEF PLInv, PLTyped, PLHubGrows, PLHubRec
  <2>2. 0..Len(plHub.pulls) \subseteq 0..Len(plHub'.pulls) /\ 1..Len(plHub.pulls) \subseteq 1..Len(plHub'.pulls)
    BY <2>1
  <2>3. ASSUME NEW o \in 1..PLMaxOrdinal
        PROVE  /\ plRevs[o].pr \in 0..Len(plHub'.pulls)
               /\ plRevs[o].outcome # "none" => PLThere(plRevs[o].terminal) /\ plRevs[o].got \in 1..Len(plHub'.pulls)
               /\ plRevs[o].outcome \in {"CONFIRMED", "RECONCILED"} /\ plRevs[o].pr = 0 => plHub'.pulls[plRevs[o].got].ours
    <3>1. PLNames(plRevs[o])
      BY DEF PLInv, PLNamed
    <3> QED
      BY <2>2, <3>1 DEF PLNames, PLHubGrows
  <2> QED
    BY <1>2, <2>2, <2>3 DEF PLNamed, PLNames
<1>5. PLFull'
  <2>1. PLFiles' = PLFiles
    <3>1. PLFiles = PLPreps + SumOfAll(PLSizes(plRevs), 1..Len(plRevs))
      BY PLFilesAre DEF PLInv, PLTyped
    <3>2. PLFiles' = PLPreps' + SumOfAll(PLSizes(plRevs), 1..Len(plRevs))
      BY PLCountsAfter DEF PLInv, PLTyped, PLSizes
    <3> QED
      BY <3>1, <3>2, PLPrepsKept DEF PLInv, PLTyped
  <2>2. PLReserving' = PLReserving
    BY <1>2 DEF PLReserving
  <2> QED
    BY <2>1, <2>2, PLReservedAfter DEF PLInv, PLFull
<1> QED
  BY <1>1, <1>3, <1>4, <1>5 DEF PLInv

\* What a call knows stays while GitHub moves.
LEMMA PLCallWaits ==
  ASSUME PLInv, UNCHANGED <<plRevs, plPrep, plSent, plCall>>, plFly' \subseteq plFly, PLHubGrows(plHub')
  PROVE  PLCallOK(plCall)'
<1>1. PLMaxOrdinal' = PLMaxOrdinal /\ PLTerminals' = PLTerminals
  BY DEF PLMaxOrdinal, PLTerminals
<1>2. PLBarrierOrdinal' = PLBarrierOrdinal /\ PLPrevious' = PLPrevious
  BY <1>1 DEF PLBarrierOrdinal, PLPrevious
<1>3. (PLReady => PLReady') /\ (PLClosed' <=> PLClosed) /\ (plFly = {} => plFly' = {})
  BY <1>1, <1>2 DEF PLReady, PLClosed
<1>4. plCall.pr > 0 => plHub'.pulls[plCall.pr].ours = plHub.pulls[plCall.pr].ours
  BY PLCallFields DEF PLHubGrows
<1>5. (PLUnanswered(plCall.ord) => PLUnanswered(plCall.ord)') /\ (PLUnsent(plCall.ord) => PLUnsent(plCall.ord)')
  BY <1>1 DEF PLUnanswered, PLUnsent
<1>6. (PLBlank(plCall.ord) => PLBlank(plCall.ord)') /\ (PLBlank(PLMaxOrdinal) => PLBlank(PLMaxOrdinal)') /\ (PLIsResumed(plCall)' <=> PLIsResumed(plCall))
  BY <1>1 DEF PLBlank, PLIsResumed
<1>7. PLCallOK(plCall)
  BY PLCallFields
<1> QED
  BY <1>1, <1>2, <1>3, <1>4, <1>5, <1>6, <1>7 DEF PLCallOK

\* A write that is applied.
LEMMA PLAppliedGrows ==
  ASSUME PLInv, NEW w \in PLWrites, w.pr \in 0..Len(plHub.pulls), PLRoom(w)
  PROVE  PLHubGrows(PLApplied(w))
<1>1. PICK p \in Seq(PLPulls) : p = plHub.pulls /\ Len(p) <= PLMaxPulls /\ plHub \in PLHubRec
  BY DEF PLInv, PLTyped, PLHubRec
<1>2. CASE w.pr = 0
  <2>1. PICK x \in PLPulls : x = [doc |-> w.doc, open |-> TRUE, ours |-> TRUE]
    BY DEF PLWrites, PLPulls
  <2>2. PICK h : h = [plHub EXCEPT !.pulls = Append(p, x)]
    OBVIOUS
  <2>3. PLApplied(w) = h
    BY <1>1, <1>2, <2>1, <2>2 DEF PLApplied
  <2>4. Append(p, x) \in Seq(PLPulls) /\ Len(Append(p, x)) = Len(p) + 1 /\ \A n \in 1..Len(p) : Append(p, x)[n] = p[n]
    OBVIOUS
  <2>5. h \in PLHubRec /\ h.pulls = Append(p, x)
    BY <1>1, <2>2, <2>4 DEF PLHubRec
  <2>6. Len(p) < PLMaxPulls
    BY <1>1, <1>2 DEF PLRoom
  <2>7. Len(p) + 1 <= PLMaxPulls
    BY <2>6, PLAssumption
  <2> QED
    BY <1>1, <2>3, <2>4, <2>5, <2>7 DEF PLHubGrows
<1>3. CASE w.pr # 0
  <2>1. w.pr \in 1..Len(p)
    BY <1>1, <1>3
  <2>0. PICK y \in PLPulls : y = p[w.pr]
    BY <2>1
  <2>2. PICK x : x = [y EXCEPT !.doc = w.doc]
    OBVIOUS
  <2>3. x \in PLPulls /\ x.ours = p[w.pr].ours
    <3>1. w.doc \in PLWhos
      BY DEF PLWrites
    <3> QED
      BY <2>0, <2>2, <3>1 DEF PLPulls
  <2>4. PICK q : q = [p EXCEPT ![w.pr] = x]
    OBVIOUS
  <2>5. q \in Seq(PLPulls) /\ Len(q) = Len(p) /\ \A n \in 1..Len(p) : q[n].ours = p[n].ours
    BY <2>1, <2>3, <2>4
  <2>6. PICK h : h = [plHub EXCEPT !.pulls = q]
    OBVIOUS
  <2>7. PLApplied(w) = h
    BY <1>1, <1>3, <2>0, <2>2, <2>4, <2>6 DEF PLApplied
  <2>8. h \in PLHubRec /\ h.pulls = q
    BY <1>1, <2>5, <2>6 DEF PLHubRec
  <2> QED
    BY <1>1, <2>5, <2>7, <2>8 DEF PLHubGrows
<1> QED
  BY <1>2, <1>3

\* The write is sent.
LEMMA PLSendInv == ASSUME PLInv, PLSend PROVE PLInv'
<1> DEFINE m == PLMaxOrdinal
<1>1. /\ plCall.pc = "send" /\ plSent' = Append(plSent, PLWrite) /\ PLRoom(PLWrite) /\ UNCHANGED <<plRevs, plPrep, plLedger, plAnswered>>
      /\ \/ plHub' = PLApplied(PLWrite) /\ plCall' = [plCall EXCEPT !.pc = "reconcile"] /\ UNCHANGED <<plFly, plFaults>>
         \/ /\ PLFault /\ plCall' = [plCall EXCEPT !.pc = "reconcile", !.erred = TRUE]
            /\ \/ plHub' = PLApplied(PLWrite) /\ UNCHANGED plFly
               \/ plFly' = plFly \cup {PLWrite} /\ UNCHANGED plHub
               \/ UNCHANGED <<plHub, plFly>>
  BY DEF PLSend, PLAt, PLTo, PLKeepDisk
<1>2. /\ plCall.ord = m /\ PLUnanswered(m) /\ PLReady /\ plCall.prev = PLPrevious /\ plCall.run \in PLRuns /\ plRevs[m].pr = plCall.pr
      /\ plCall.prev # 0 => plCall.pr = plCall.prev
      /\ \A i \in 1..Len(plSent) : plSent[i].ord # m
  BY <1>1, PLCallFields DEF PLCallOK, PLPreparing
<1>3. m \in 1..Len(plRevs) /\ m > 0 /\ m \in Nat /\ plRevs[m] \in PLRevRec /\ PLThere(plRevs[m].submitted) /\ plRevs[m].terminal = "no"
  BY <1>2, PLCallFields DEF PLUnanswered, PLMaxOrdinal
<1>4. PICK w \in PLWrites : w = PLWrite /\ w.ord = m /\ w.pr = plCall.pr /\ w.pr \in 0..Len(plHub.pulls)
  <2>1. PLWrite = [ord |-> m, pr |-> plCall.pr, doc |-> plRevs[m].req]
    BY <1>2 DEF PLWrite, PLOrd, PLRev
  <2>2. plRevs[m].req \in PLWhos
    BY <1>3 DEF PLRevRec
  <2> QED
    BY <1>3, <2>1, <2>2, PLCallFields DEF PLWrites
<1>5. plFly = {} /\ plRevs[m].outcome = "none"
  <2>1. PLNames(plRevs[m])
    BY <1>3 DEF PLInv, PLNamed, PLMaxOrdinal
  <2> QED
    BY <1>2, <1>3, <2>1 DEF PLReady, PLNames, PLThere
<1>6. PLHubGrows(plHub')
  <2>1. PLHubGrows(plHub)
    BY PLCallFields DEF PLHubGrows, PLInv, PLTyped, PLHubRec
  <2> QED
    BY <1>1, <1>4, <2>1, PLAppliedGrows
<1>7. plFly' \in SUBSET {w}
  BY <1>1, <1>4, <1>5
<1>8. PICK s \in Seq(PLWrites) : s = plSent /\ plSent' = Append(s, w)
  BY <1>1, <1>4 DEF PLInv, PLTyped
<1>9. /\ plSent' \in Seq(PLWrites) /\ Len(plSent') = Len(s) + 1 /\ plSent'[Len(s) + 1] = w /\ \A i \in 1..Len(s) : plSent'[i] = s[i]
      /\ \A i \in 1..(Len(s) + 1) : i \in 1..Len(s) \/ i = Len(s) + 1
  BY <1>8
<1>10. PLMaxOrdinal' = m
  BY <1>1 DEF PLMaxOrdinal
<1>11. PLMarked'
  <2>1. ASSUME NEW i \in 1..Len(plSent')  PROVE plSent'[i].ord \in 1..m /\ PLThere(plRevs[plSent'[i].ord].submitted)
    <3>1. CASE i \in 1..Len(s)
      BY <1>8, <1>9, <3>1 DEF PLInv, PLMarked
    <3>2. CASE i = Len(s) + 1
      BY <1>3, <1>4, <1>9, <3>2
    <3> QED
      BY <1>9, <3>1, <3>2
  <2>2. \A v \in plFly' : v.ord = m
    BY <1>4, <1>7
  <2> QED
    BY <1>1, <1>3, <1>5, <1>10, <2>1, <2>2 DEF PLMarked
<1>12. PLOneWrite'
  <2>1. ASSUME NEW i \in 1..Len(s)  PROVE s[i].ord # w.ord /\ (s[i].pr # 0 \/ w.pr # 0)
    <3>1. s[i].ord # m /\ s[i].ord \in 1..m /\ PLThere(plRevs[s[i].ord].submitted)
      BY <1>2, <1>8 DEF PLInv, PLMarked
    <3>2. PLThere(plRevs[s[i].ord].terminal)
      BY <3>1 DEF PLInv, PLScans
    <3>3. s[i].ord <= PLBarrierOrdinal /\ PLBarrierOrdinal \in 0..m /\ s[i].ord > 0
      BY <3>1, <3>2, PLBarrierIs, PLCallFields
    <3>4. PLBarrierOrdinal # 0
      <4>1. s[i].ord \in Nat /\ PLBarrierOrdinal \in Nat
        BY <1>3, <3>1, <3>3
      <4> QED
        BY <3>3, <4>1
    <3>5. plRevs[PLBarrierOrdinal].outcome = "CONFIRMED" /\ PLNames(plRevs[PLBarrierOrdinal])
      BY <1>2, <3>3, <3>4 DEF PLReady, PLInv, PLNamed
    <3>6. plCall.prev = plRevs[PLBarrierOrdinal].got /\ plRevs[PLBarrierOrdinal].got # 0
      BY <1>2, <3>4, <3>5 DEF PLPrevious, PLNames
    <3> QED
      BY <1>2, <1>4, <3>1, <3>6
  <2>2. DOMAIN plSent' = 1..(Len(s) + 1) /\ DOMAIN s = 1..Len(s)
    BY <1>8, <1>9
  <2>3. ASSUME NEW i \in 1..(Len(s) + 1), NEW j \in 1..(Len(s) + 1), i # j
        PROVE  plSent'[i].ord # plSent'[j].ord /\ (plSent'[i].pr # 0 \/ plSent'[j].pr # 0)
    <3>1. CASE i \in 1..Len(s) /\ j \in 1..Len(s)
      BY <1>8, <1>9, <2>2, <2>3, <3>1 DEF PLInv, PLOneWrite
    <3>2. CASE i \in 1..Len(s) /\ j = Len(s) + 1
      BY <1>9, <2>1, <3>2
    <3>3. CASE j \in 1..Len(s) /\ i = Len(s) + 1
      BY <1>9, <2>1, <3>3
    <3> QED
      BY <1>9, <2>3, <3>1, <3>2, <3>3
  <2> QED
    BY <2>2, <2>3 DEF PLOneWrite
<1>13. /\ plCall' \in PLCallRec /\ plCall'.pc = "reconcile" /\ plCall'.pr = plCall.pr /\ plCall'.ord = m /\ plCall'.run = plCall.run
       /\ plFaults' \in 0..PLMaxFaults /\ (plCall'.erred \/ plFly' = {})
  <2>1. "reconcile" \in PLPcs
    BY DEF PLPcs
  <2>2. CASE plCall' = [plCall EXCEPT !.pc = "reconcile"] /\ UNCHANGED <<plFly, plFaults>>
    BY <1>2, <1>5, <2>1, <2>2, PLGoesTo, PLCallFields
  <2>3. CASE PLFault /\ plCall' = [plCall EXCEPT !.pc = "reconcile", !.erred = TRUE]
    <3>1. /\ plCall' \in PLCallRec /\ plCall'.pc = "reconcile" /\ plCall'.pr = plCall.pr /\ plCall'.ord = plCall.ord /\ plCall'.run = plCall.run
          /\ plCall'.erred = TRUE
      BY <2>1, <2>3, PLCallFields DEF PLCallRec
    <3>2. plFaults' \in 0..PLMaxFaults
      BY <2>3, PLCallFields, PLAssumption, SMTT(20) DEF PLFault
    <3> QED
      BY <1>2, <3>1, <3>2
  <2> QED
    BY <1>1, <2>2, <2>3
<1>14. PLCallOK(plCall)'
  <2>1. PLUnanswered(plCall.ord)'
    BY <1>1, <1>3, <1>10, <1>13 DEF PLUnanswered
  <2> QED
    BY <1>2, <1>3, <1>10, <1>13, <2>1 DEF PLCallOK, PLPreparing
<1>15. \A v \in plFly' : v.pr \in 0..Len(plHub'.pulls)
  <2>1. Len(plHub.pulls) <= Len(plHub'.pulls) /\ Len(plHub.pulls) \in Nat /\ Len(plHub'.pulls) \in Nat
    BY <1>6, PLCallFields DEF PLHubGrows, PLHubRec
  <2> QED
    BY <1>4, <1>7, <2>1
<1>16. plFly' \in SUBSET PLWrites
  BY <1>4, <1>7
<1> QED
  BY <1>1, <1>6, <1>9, <1>11, <1>12, <1>13, <1>14, <1>15, <1>16, PLHubStep, PLCallFields

\* A step of GitHub's, on its own.
LEMMA PLHubMoves ==
  ASSUME PLInv, UNCHANGED <<plRevs, plPrep, plLedger, plAnswered, plSent, plCall>>, PLHubGrows(plHub'), plFly' \subseteq plFly, plFaults' \in 0..PLMaxFaults
  PROVE  PLInv'
<1>1. PLCallOK(plCall)'
  BY PLCallWaits
<1>2. PLMarked' /\ PLOneWrite'
  BY DEF PLInv, PLMarked, PLOneWrite, PLMaxOrdinal
<1>3. Len(plHub.pulls) <= Len(plHub'.pulls) /\ Len(plHub.pulls) \in Nat /\ Len(plHub'.pulls) \in Nat
  BY PLCallFields DEF PLHubGrows, PLHubRec
<1>4. \A w \in plFly' : w.pr \in 0..Len(plHub'.pulls)
  BY <1>3 DEF PLInv, PLNamed
<1>5. plFly' \in SUBSET PLWrites /\ plSent' \in Seq(PLWrites)
  BY DEF PLInv, PLTyped
<1> QED
  BY <1>1, <1>2, <1>4, <1>5, PLHubStep, PLCallFields

\* A write that was under way arrives.
LEMMA PLLandsInv == ASSUME PLInv, PLLands PROVE PLInv'
<1>1. PICK w \in plFly : PLRoom(w) /\ plHub' = PLApplied(w) /\ plFly' = plFly \ {w}
  BY DEF PLLands
<1>2. w \in PLWrites /\ w.pr \in 0..Len(plHub.pulls)
  BY DEF PLInv, PLTyped, PLNamed
<1>3. PLHubGrows(plHub')
  BY <1>1, <1>2, PLAppliedGrows
<1> QED
  BY <1>1, <1>3, PLHubMoves, PLCallFields DEF PLLands, PLKeepDisk

\* The owner edits, opens and closes pull requests, and pushes.
LEMMA PLOwnerInv == ASSUME PLInv, PLOwner PROVE PLInv'
<1>1. PICK p \in Seq(PLPulls) : p = plHub.pulls /\ Len(p) <= PLMaxPulls /\ plHub \in PLHubRec
  BY DEF PLInv, PLTyped, PLHubRec
<1>2. PLOpenPulls \subseteq 1..Len(p)
  BY <1>1 DEF PLOpenPulls
<1>3. ASSUME NEW q \in Seq(PLPulls), Len(p) <= Len(q), Len(q) <= PLMaxPulls, \A n \in 1..Len(p) : q[n].ours = p[n].ours,
             NEW h, h = [plHub EXCEPT !.pulls = q]
      PROVE  PLHubGrows(h)
  <2>1. h \in PLHubRec /\ h.pulls = q
    BY <1>1, <1>3 DEF PLHubRec
  <2> QED
    BY <1>1, <1>3, <2>1 DEF PLHubGrows
<1>4. PLHubGrows(plHub')
  <2>1. CASE \E n \in PLOpenPulls : plHub' = [plHub EXCEPT !.pulls[n].open = FALSE]
    <3>1. PICK n \in 1..Len(p) : plHub' = [plHub EXCEPT !.pulls[n].open = FALSE]
      BY <1>2, <2>1
    <3>2. PICK y \in PLPulls : y = p[n]
      OBVIOUS
    <3>3. PICK x : x = [y EXCEPT !.open = FALSE]
      OBVIOUS
    <3>4. x \in PLPulls /\ x.ours = y.ours
      BY <3>3 DEF PLPulls
    <3>5. PICK q : q = [p EXCEPT ![n] = x]
      OBVIOUS
    <3>6. q \in Seq(PLPulls) /\ Len(q) = Len(p) /\ \A k \in 1..Len(p) : q[k].ours = p[k].ours
      BY <3>2, <3>4, <3>5
    <3>7. plHub' = [plHub EXCEPT !.pulls = q]
      BY <1>1, <3>1, <3>2, <3>3, <3>5
    <3> QED
      BY <1>1, <1>3, <3>6, <3>7
  <2>2. CASE \E n \in PLOpenPulls : \E d \in PLRequests : plHub' = [plHub EXCEPT !.pulls[n].doc = d]
    <3>1. PICK n \in 1..Len(p) : \E d \in PLRequests : plHub' = [plHub EXCEPT !.pulls[n].doc = d]
      BY <1>2, <2>2
    <3>0. PICK d \in PLRequests : plHub' = [plHub EXCEPT !.pulls[n].doc = d]
      BY <3>1
    <3>2. PICK y \in PLPulls : y = p[n]
      OBVIOUS
    <3>3. PICK x : x = [y EXCEPT !.doc = d]
      OBVIOUS
    <3>4. x \in PLPulls /\ x.ours = y.ours
      BY <3>3 DEF PLPulls, PLWhos
    <3>5. PICK q : q = [p EXCEPT ![n] = x]
      OBVIOUS
    <3>6. q \in Seq(PLPulls) /\ Len(q) = Len(p) /\ \A k \in 1..Len(p) : q[k].ours = p[k].ours
      BY <3>2, <3>4, <3>5
    <3>7. plHub' = [plHub EXCEPT !.pulls = q]
      BY <1>1, <3>0, <3>2, <3>3, <3>5
    <3> QED
      BY <1>1, <1>3, <3>6, <3>7
  <2>3. CASE Len(plHub.pulls) < PLMaxPulls /\ \E d \in PLRequests : plHub' = [plHub EXCEPT !.pulls = Append(@, [doc |-> d, open |-> TRUE, ours |-> FALSE])]
    <3>1. PICK d \in PLRequests : plHub' = [plHub EXCEPT !.pulls = Append(p, [doc |-> d, open |-> TRUE, ours |-> FALSE])]
      BY <1>1, <2>3
    <3>2. PICK x \in PLPulls : x = [doc |-> d, open |-> TRUE, ours |-> FALSE]
      BY DEF PLPulls, PLWhos
    <3>3. PICK q : q = Append(p, x)
      OBVIOUS
    <3>4. q \in Seq(PLPulls) /\ Len(q) = Len(p) + 1 /\ \A k \in 1..Len(p) : q[k].ours = p[k].ours
      BY <3>3
    <3>5. Len(p) + 1 <= PLMaxPulls /\ Len(p) <= Len(p) + 1
      BY <1>1, <2>3, PLAssumption
    <3>6. plHub' = [plHub EXCEPT !.pulls = q]
      BY <3>1, <3>2, <3>3
    <3> QED
      BY <1>3, <3>4, <3>5, <3>6
  <2>4. CASE plHub' = [plHub EXCEPT !.exact = ~@]
    <3>1. plHub' \in PLHubRec /\ plHub'.pulls = p
      BY <1>1, <2>4 DEF PLHubRec
    <3> QED
      BY <1>1, <3>1 DEF PLHubGrows
  <2> QED
    BY <2>1, <2>2, <2>3, <2>4 DEF PLOwner
<1>5. plFaults' \in 0..PLMaxFaults /\ UNCHANGED <<plRevs, plPrep, plLedger, plAnswered, plSent, plCall, plFly>>
  <2>1. PLFault /\ PLKeepDisk /\ UNCHANGED <<plCall, plFly, plSent, plAnswered>>
    BY DEF PLOwner
  <2>2. plFaults \in 0..PLMaxFaults /\ PLMaxFaults \in Nat
    BY PLCallFields, PLAssumption
  <2> QED
    BY <2>1, <2>2 DEF PLFault, PLKeepDisk
<1> QED
  BY <1>4, <1>5, PLHubMoves

-----------------------------------------------------------------------------
(* The steps that move the call only. *)

\* The pull requests that are open.
LEMMA PLOpenPullsAre ==
  ASSUME PLInv
  PROVE  PLOpenPulls \subseteq 1..Len(plHub.pulls) /\ (Cardinality(PLOpenPulls) = 1 => PLOpenPulls # {})
<1>1. PLOpenPulls \subseteq 1..Len(plHub.pulls)
  BY PLCallFields DEF PLOpenPulls
<1>2. Cardinality({}) = 0
  BY FS_EmptySet
<1>3. Cardinality(PLOpenPulls) = 1 => PLOpenPulls # {}
  <2> PICK S : S = PLOpenPulls
    OBVIOUS
  <2> SUFFICES Cardinality(S) = 1 => S # {}
    OBVIOUS
  <2>1. S = {} => Cardinality(S) = 0
    BY <1>2
  <2>2. 0 # 1
    OBVIOUS
  <2> QED
    BY <2>1, <2>2
<1> QED
  BY <1>1, <1>3, Zenon

\* The pull request to go on with.
LEMMA PLDiscoverInv == ASSUME PLInv, PLDiscover PROVE PLInv'
<1>1. /\ plCall.pc \in {"discover", "resume"} /\ UNCHANGED <<plLedger, plAnswered, plFaults, plHub, plFly, plSent, plRevs, plPrep>>
      /\ \E n : /\ plCall' = [plCall EXCEPT !.pr = n, !.pc = "inspect"]
                /\ IF plCall.prev # 0 THEN n = plCall.prev
                   ELSE n = IF PLOpenPulls = {} THEN 0 ELSE CHOOSE k \in PLOpenPulls : TRUE
  BY DEF PLDiscover, PLAt, PLKeepHub
<1>2. PICK n : /\ plCall' = [plCall EXCEPT !.pr = n, !.pc = "inspect"]
               /\ IF plCall.prev # 0 THEN n = plCall.prev
                  ELSE n = IF PLOpenPulls = {} THEN 0 ELSE CHOOSE k \in PLOpenPulls : TRUE
  BY <1>1
<1>3. /\ PLReady /\ plCall.prev = PLPrevious /\ plCall.run \in PLRuns /\ plCall.ord > 0
      /\ \/ plCall.ord = PLMaxOrdinal + 1 /\ PLClosed
         \/ plCall.ord = PLMaxOrdinal /\ PLBlank(plCall.ord)
         \/ plCall.ord = PLMaxOrdinal /\ PLUnsent(plCall.ord)
  BY <1>1, PLCallFields DEF PLCallOK, PLPreparing
<1>4. n \in 0..Len(plHub.pulls) /\ n \in Nat
  <2>1. CASE plCall.prev # 0
    <3>1. PLBarrierOrdinal # 0 /\ n = plRevs[PLBarrierOrdinal].got /\ PLBarrierOrdinal \in 1..PLMaxOrdinal
      BY <1>2, <1>3, <2>1, PLBarrierIs, PLCallFields DEF PLPrevious
    <3>2. plRevs[PLBarrierOrdinal].outcome = "CONFIRMED" /\ PLNames(plRevs[PLBarrierOrdinal])
      BY <1>3, <3>1 DEF PLReady, PLInv, PLNamed
    <3> QED
      BY <3>1, <3>2 DEF PLNames
  <2>2. CASE plCall.prev = 0
    <3>1. Len(plHub.pulls) \in Nat
      BY PLCallFields
    <3> QED
      BY <1>2, <2>2, <3>1, PLOpenPullsAre
  <2> QED
    BY <2>1, <2>2
<1>5. /\ plCall' \in PLCallRec /\ plCall'.pc = "inspect" /\ plCall'.pr = n /\ plCall'.ord = plCall.ord /\ plCall'.prev = plCall.prev
      /\ plCall'.run = plCall.run
  BY <1>2, <1>4, PLCallFields DEF PLCallRec, PLPcs
<1>6. PLCallOK(plCall')
  <2>1. ~PLIsResumed(plCall') => plPrep.count[plCall.run] < PLPrepareRounds
    <3>1. PLIsResumed(plCall') <=> PLIsResumed(plCall)
      BY <1>5 DEF PLIsResumed
    <3>2. plCall.pc = "resume" => PLIsResumed(plCall)
      BY PLCallFields DEF PLCallOK, PLIsResumed, PLUnsent
    <3> QED
      BY <1>1, <3>1, <3>2, PLCallFields DEF PLCallOK
  <2>2. plCall'.prev # 0 => plCall'.pr = plCall'.prev
    BY <1>2, <1>5
  <2> QED
    BY <1>3, <1>5, <2>1, <2>2 DEF PLCallOK, PLPreparing
<1>7. PLCallOK(plCall)'
  BY <1>1, <1>6, PLCallStays
<1> QED
  BY <1>1, <1>4, <1>5, <1>7, PLCallStep, PLCallFields

\* The reads of a preparation.
LEMMA PLInspectInv == ASSUME PLInv, PLInspect PROVE PLInv'
<1>1. /\ plCall.pc = "inspect" /\ UNCHANGED <<plLedger, plAnswered, plFaults, plHub, plFly, plSent, plRevs, plPrep>>
      /\ plCall' = [plCall EXCEPT !.pc = IF PLResumed THEN "resumed" ELSE "prepared"]
  BY DEF PLInspect, PLAt, PLTo, PLKeepHub
<1>2. /\ PLReady /\ plCall.prev = PLPrevious /\ plCall.run \in PLRuns /\ plCall.ord > 0 /\ (plCall.prev # 0 => plCall.pr = plCall.prev)
      /\ \/ plCall.ord = PLMaxOrdinal + 1 /\ PLClosed
         \/ plCall.ord = PLMaxOrdinal /\ PLBlank(plCall.ord)
         \/ plCall.ord = PLMaxOrdinal /\ PLUnsent(plCall.ord)
      /\ ~PLIsResumed(plCall) => plPrep.count[plCall.run] < PLPrepareRounds
  BY <1>1, PLCallFields DEF PLCallOK, PLPreparing
<1>3. PLResumed <=> PLIsResumed(plCall)
  BY DEF PLResumed, PLIsResumed, PLOrd
<1>4. ~(PLMaxOrdinal + 1 <= PLMaxOrdinal)
  BY PLCallFields
<1>5. PICK pc \in PLPcs : pc = (IF PLResumed THEN "resumed" ELSE "prepared")
  BY DEF PLPcs
<1>6. /\ plCall' \in PLCallRec /\ plCall'.pc = pc /\ plCall'.pr = plCall.pr /\ plCall'.ord = plCall.ord /\ plCall'.prev = plCall.prev
      /\ plCall'.run = plCall.run
  BY <1>1, <1>5, PLGoesTo
<1>7. PLCallOK(plCall')
  <2>1. CASE PLResumed
    <3>1. plCall.ord = PLMaxOrdinal /\ PLUnsent(plCall.ord)
      BY <1>2, <1>3, <1>4, <2>1 DEF PLIsResumed, PLBlank, PLThere
    <3> QED
      BY <1>2, <1>5, <1>6, <2>1, <3>1 DEF PLCallOK, PLPreparing
  <2>2. CASE ~PLResumed
    <3>1. (plCall.ord = PLMaxOrdinal + 1 /\ PLClosed) \/ (plCall.ord = PLMaxOrdinal /\ PLBlank(plCall.ord))
      BY <1>2, <1>3, <2>2, PLCallFields DEF PLIsResumed, PLUnsent
    <3> QED
      BY <1>2, <1>3, <1>5, <1>6, <2>2, <3>1 DEF PLCallOK, PLPreparing
  <2> QED
    BY <2>1, <2>2
<1>8. PLCallOK(plCall)'
  BY <1>1, <1>7, PLCallStays
<1> QED
  BY <1>1, <1>6, <1>8, PLCallStep, PLCallFields

\* The deadline passes before the write is sent.
LEMMA PLNeverSubmittedInv == ASSUME PLInv, PLNeverSubmitted PROVE PLInv'
<1>1. plFaults' \in 0..PLMaxFaults
  BY PLCallFields, PLAssumption, SMTT(20) DEF PLNeverSubmitted, PLFault
<1>2. UNCHANGED <<plRevs, plPrep, plHub, plFly, plSent, plAnswered, plLedger>> /\ PLEnd
  BY DEF PLNeverSubmitted, PLKeepDisk, PLKeepHub
<1> QED
  BY <1>1, <1>2, PLEndStep

\* A read fails, a record does not fit, a stored result does not decode.
LEMMA PLGivesUpInv == ASSUME PLInv, PLReadFails \/ PLNoRoom \/ PLRecoverRefuses \/ PLRecordFails PROVE PLInv'
<1>1. plFaults' \in 0..PLMaxFaults
  BY PLCallFields, PLAssumption, SMTT(20) DEF PLReadFails, PLNoRoom, PLRecoverRefuses, PLRecordFails, PLFault
<1>2. UNCHANGED <<plRevs, plPrep, plHub, plFly, plSent, plAnswered, plLedger>> /\ PLEnd
  BY DEF PLReadFails, PLNoRoom, PLRecoverRefuses, PLRecordFails, PLKeepDisk, PLKeepHub
<1> QED
  BY <1>1, <1>2, PLEndStep

\* A stored result is verified.
LEMMA PLRecoverInv == ASSUME PLInv, PLRecover PROVE PLInv'
<1>1. plCall.pc = "recover" /\ UNCHANGED <<plRevs, plPrep, plHub, plFly, plSent, plAnswered, plLedger, plFaults>> /\ plCall' = [plCall EXCEPT !.pc = "record"]
  BY DEF PLRecover, PLAt, PLTo, PLKeepDisk, PLKeepHub
<1>2. /\ plCall' \in PLCallRec /\ plCall'.pc = "record" /\ plCall'.pr = plCall.pr /\ plCall'.ord = plCall.ord /\ plCall'.run = plCall.run
  <2>1. "record" \in PLPcs
    BY DEF PLPcs
  <2> QED
    BY <1>1, <2>1, PLGoesTo
<1>3. plCall.run \in PLRuns /\ plCall.ord > 0 /\ plCall.ord <= PLMaxOrdinal
  BY <1>1, PLCallFields DEF PLCallOK
<1>4. PLCallOK(plCall')
  BY <1>2, <1>3 DEF PLCallOK, PLPreparing
<1>5. PLCallOK(plCall)'
  BY <1>1, <1>4, PLCallStays
<1> QED
  BY <1>1, <1>2, <1>5, PLCallStep, PLCallFields

\* The pull request of the write is found, or not.
LEMMA PLFindInv == ASSUME PLInv, PLFind PROVE PLInv'
<1>1. /\ plCall.pc = "find" /\ UNCHANGED <<plRevs, plPrep, plHub, plFly, plSent, plAnswered, plLedger, plFaults>>
      /\ \/ PLEnd
         \/ \E n : /\ plCall' = [plCall EXCEPT !.pr = n, !.pc = "compare"]
                   /\ IF plRevs[plCall.ord].pr # 0 THEN n = plRevs[plCall.ord].pr
                      ELSE Cardinality(PLOpenPulls) = 1 /\ n = CHOOSE k \in PLOpenPulls : TRUE
  BY DEF PLFind, PLAt, PLKeepDisk, PLKeepHub, PLRev, PLOrd
<1>2. CASE PLEnd
  BY <1>1, <1>2, PLEndStep, PLCallFields
<1>3. CASE ~PLEnd
  <2>1. PICK n : /\ plCall' = [plCall EXCEPT !.pr = n, !.pc = "compare"]
                 /\ IF plRevs[plCall.ord].pr # 0 THEN n = plRevs[plCall.ord].pr
                    ELSE Cardinality(PLOpenPulls) = 1 /\ n = CHOOSE k \in PLOpenPulls : TRUE
    BY <1>1, <1>3
  <2>2. plCall.run \in PLRuns /\ plCall.ord > 0 /\ plCall.ord = PLMaxOrdinal /\ PLUnanswered(plCall.ord) /\ (plCall.erred \/ plFly = {})
    BY <1>1, PLCallFields DEF PLCallOK
  <2>3. n \in 1..Len(plHub.pulls) /\ n \in Nat /\ n > 0
    <3>1. CASE plRevs[plCall.ord].pr # 0
      <4>1. plRevs[plCall.ord].pr \in 0..Len(plHub.pulls)
        BY <2>2 DEF PLInv, PLNamed, PLNames, PLUnanswered
      <4>2. Len(plHub.pulls) \in Nat
        BY PLCallFields
      <4> QED
        BY <2>1, <3>1, <4>1, <4>2
    <3>2. CASE plRevs[plCall.ord].pr = 0
      <4>1. n \in PLOpenPulls
        BY <2>1, <3>2, PLOpenPullsAre
      <4>2. Len(plHub.pulls) \in Nat
        BY PLCallFields
      <4> QED
        BY <4>1, <4>2, PLOpenPullsAre
    <3> QED
      BY <3>1, <3>2
  <2>4. /\ plCall' \in PLCallRec /\ plCall'.pc = "compare" /\ plCall'.pr = n /\ plCall'.ord = plCall.ord /\ plCall'.run = plCall.run
        /\ plCall'.erred = plCall.erred
    BY <2>1, <2>3, PLCallFields DEF PLCallRec, PLPcs
  <2>5. PLCallOK(plCall')
    BY <2>2, <2>3, <2>4 DEF PLCallOK, PLPreparing
  <2>6. PLCallOK(plCall)'
    BY <1>1, <2>5, PLCallStays
  <2>7. plCall'.pr \in 0..Len(plHub.pulls)
    BY <2>3, <2>4
  <2> QED
    BY <1>1, <2>4, <2>6, <2>7, PLCallStep, PLCallFields
<1> QED
  BY <1>2, <1>3

\* It is compared with the document.
LEMMA PLCompareInv == ASSUME PLInv, PLCompare PROVE PLInv'
<1>1. plCall.pc = "compare" /\ UNCHANGED <<plRevs, plPrep, plHub, plFly, plSent, plAnswered, plLedger, plFaults>>
  BY DEF PLCompare, PLAt, PLKeepDisk, PLKeepHub
<1>2. PICK out : out = PLOutcome(plCall.pr)
  OBVIOUS
<1>3. plCall' = [plCall EXCEPT !.out = out, !.pc = "terminal"]
  BY <1>2 DEF PLCompare
<1>4. /\ out \in {"CONFIRMED", "RECONCILED", "DIVERGED"} /\ (out = "CONFIRMED" => ~plCall.erred)
      /\ out \in {"CONFIRMED", "RECONCILED"} /\ plRevs[plCall.ord].pr = 0 => plHub.pulls[plCall.pr].ours
  BY <1>2 DEF PLOutcome, PLRev, PLOrd
<1>5. /\ plCall' \in PLCallRec /\ plCall'.pc = "terminal" /\ plCall'.pr = plCall.pr /\ plCall'.ord = plCall.ord /\ plCall'.run = plCall.run
      /\ plCall'.erred = plCall.erred /\ plCall'.out = out
  BY <1>3, <1>4, PLCallFields DEF PLCallRec, PLPcs, PLOutcomes
<1>6. /\ plCall.run \in PLRuns /\ plCall.ord > 0 /\ plCall.ord = PLMaxOrdinal /\ PLUnanswered(plCall.ord) /\ (plCall.erred \/ plFly = {})
      /\ plCall.pr > 0
  BY <1>1, PLCallFields DEF PLCallOK
<1>7. PLCallOK(plCall')
  BY <1>4, <1>5, <1>6 DEF PLCallOK, PLPreparing
<1>8. PLCallOK(plCall)'
  BY <1>1, <1>7, PLCallStays
<1> QED
  BY <1>1, <1>5, <1>8, PLCallStep, PLCallFields

\* The result is recorded and answered.
LEMMA PLRecordInv == ASSUME PLInv, PLRecord PROVE PLInv'
<1>1. /\ plCall.pc = "record" /\ plLedger' = plLedger \cup {plCall.ord} /\ plAnswered' = plAnswered \cup {plCall.ord} /\ plCall' = PLIdle
      /\ UNCHANGED <<plRevs, plPrep, plFaults, plHub, plFly, plSent>>
  BY DEF PLRecord, PLAt, PLOrd, PLEnd, PLKeepHub
<1>2. plCall.ord \in 1..PLMaxRevisions
  BY <1>1, PLCallFields, PLAssumption DEF PLCallOK, PLCallRec
<1>3. plLedger' \in SUBSET (1..PLMaxRevisions) /\ plAnswered' \in SUBSET plLedger'
  BY <1>1, <1>2 DEF PLInv, PLTyped
<1>4. plCall' \in PLCallRec /\ plCall'.pr \in 0..Len(plHub.pulls) /\ PLCallOK(plCall)'
  <2>1. 0 \in 0..Len(plHub.pulls)
    BY PLCallFields
  <2> QED
    BY <1>1, <2>1, PLIdleIsFine
<1>5. PLTyped'
  BY <1>1, <1>3, <1>4 DEF PLInv, PLTyped
<1>6. PLMaxOrdinal' = PLMaxOrdinal
  BY <1>1 DEF PLMaxOrdinal
<1>7. PLScans'
  BY <1>1, <1>6 DEF PLInv, PLScans
<1>8. PLNamed' /\ PLMarked' /\ PLOneWrite'
  BY <1>1, <1>4, <1>6 DEF PLInv, PLNamed, PLNames, PLMarked, PLOneWrite
<1>9. PLFull'
  <2>1. PLFiles' = PLFiles
    <3>1. PLFiles = PLPreps + SumOfAll(PLSizes(plRevs), 1..Len(plRevs))
      BY PLFilesAre DEF PLInv, PLTyped
    <3>2. PLFiles' = PLPreps' + SumOfAll(PLSizes(plRevs), 1..Len(plRevs))
      BY <1>1, PLCountsAfter DEF PLInv, PLTyped, PLSizes
    <3> QED
      BY <1>1, <3>1, <3>2, PLPrepsKept DEF PLInv, PLTyped
  <2>2. PLReserving' = PLReserving
    BY <1>1, <1>6 DEF PLReserving
  <2> QED
    BY <2>1, <2>2, PLReservedAfter DEF PLInv, PLFull
<1> QED
  BY <1>4, <1>5, <1>7, <1>8, <1>9 DEF PLInv

\* What the records say when a request is let in.
LEMMA PLRouteIs ==
  ASSUME NEW req, NEW run, NEW route, route = PLRoute(req, run), route # "refuse", PLMaxOrdinal \in Nat
  PROVE  \/ route = "recover" /\ PLMaxOrdinal > 0
         \/ route = "recoverBarrier" /\ PLBarrierOrdinal \in 1..(PLMaxOrdinal - 1)
         \/ route = "next" /\ PLBarrier /\ PLMaxOrdinal > 0 /\ (PLThere(plRevs[PLMaxOrdinal].terminal) \/ PLThere(plRevs[PLMaxOrdinal].superseded))
         \/ route = "next" /\ PLMaxOrdinal = 0
         \/ route \in {"supersede", "again"} /\ PLBarrier /\ PLMaxOrdinal > 0 /\ ~PLUnresolved
            /\ ~PLThere(plRevs[PLMaxOrdinal].terminal) /\ ~PLThere(plRevs[PLMaxOrdinal].superseded)
         \/ route = "reconcile" /\ PLUnresolved /\ PLThere(plRevs[PLMaxOrdinal].submitted)
         \/ route = "resume" /\ PLUnresolved /\ ~PLThere(plRevs[PLMaxOrdinal].submitted) /\ PLBarrier
<1> DEFINE m == PLMaxOrdinal
           same == m > 0 /\ plRevs[m].req = req
           ended == PLThere(plRevs[m].terminal)
           gone == PLThere(plRevs[m].superseded)
           sent == PLThere(plRevs[m].submitted)
           bad == ~PLScans \/ (m > 0 /\ plRevs[m].torn)
           back == PLBarrierOrdinal \in 1..(m - 1)
           fits == back /\ PLZeroWriteAfterBarrier /\ plRevs[PLBarrierOrdinal].req = req
           may == PLBarrier /\ (PLPrevious # 0 => plRevs[m].pr = PLPrevious) /\ plRevs[m].resumes < PLResumeRounds
           other == gone \/ ~PLBarrier \/ (PLPrevious # 0 /\ plRevs[m].pr # PLPrevious)
           decodes == PLReadable(m)
<1>1. route = IF bad THEN "refuse"
              ELSE IF same /\ ended THEN "recover"
              ELSE IF fits THEN "recoverBarrier"
              ELSE IF m > 0 /\ ~same THEN (IF PLUnresolved \/ ~PLBarrier THEN "refuse" ELSE IF ended \/ gone THEN "next" ELSE "supersede")
              ELSE IF same /\ PLUnresolved THEN (IF ~decodes THEN "refuse" ELSE IF sent THEN "reconcile" ELSE IF may THEN "resume" ELSE "refuse")
              ELSE IF same /\ other THEN "refuse"
              ELSE IF m = 0 THEN "next" ELSE "again"
  BY Zenon DEF PLRoute
<1>2. (same => m > 0) /\ (fits => back) /\ (may => PLBarrier) /\ (~other => PLBarrier /\ ~gone) /\ (m = 0 \/ m > 0)
  OBVIOUS
<1> HIDE DEF same, ended, gone, sent, bad, back, fits, may, other, decodes
<1>3. \/ route = "recover" /\ m > 0
      \/ route = "recoverBarrier" /\ back
      \/ route = "next" /\ PLBarrier /\ m > 0 /\ (ended \/ gone)
      \/ route = "next" /\ m = 0
      \/ route \in {"supersede", "again"} /\ PLBarrier /\ m > 0 /\ ~PLUnresolved /\ ~ended /\ ~gone
      \/ route = "reconcile" /\ PLUnresolved /\ sent
      \/ route = "resume" /\ PLUnresolved /\ ~sent /\ PLBarrier
  <2> HIDE DEF m
  <2>1. CASE m > 0 /\ ~same
    BY <1>1, <1>2, <2>1
  <2>2. CASE same
    BY <1>1, <1>2, <2>2
  <2>3. CASE m = 0
    BY <1>1, <1>2, <2>3
  <2> QED
    BY <1>2, <2>1, <2>2, <2>3
<1> QED
  BY <1>3 DEF ended, gone, sent, back

\* No write is under way when the next one is prepared.
LEMMA PLNothingFlies ==
  ASSUME PLInv, PLBarrier,
         PLMaxOrdinal > 0 => \/ PLThere(plRevs[PLMaxOrdinal].terminal) \/ ~PLThere(plRevs[PLMaxOrdinal].submitted)
  PROVE  PLReady
<1>1. PLBarrierOrdinal # 0 => plRevs[PLBarrierOrdinal].outcome = "CONFIRMED"
  BY DEF PLBarrier
<1>2. ASSUME NEW w \in plFly  PROVE FALSE
  <2>1. PLMaxOrdinal > 0 /\ PLThere(plRevs[PLMaxOrdinal].submitted) /\ plRevs[PLMaxOrdinal].outcome # "CONFIRMED"
    BY <1>2 DEF PLInv, PLMarked
  <2>2. PLThere(plRevs[PLMaxOrdinal].terminal)
    BY <2>1
  <2>3. PLBarrierOrdinal = PLMaxOrdinal
    <3>1. PLMaxOrdinal \in 1..PLMaxOrdinal
      BY <2>1, PLCallFields
    <3>2. PLMaxOrdinal <= PLBarrierOrdinal /\ PLBarrierOrdinal \in 0..PLMaxOrdinal
      BY <2>2, <3>1, PLBarrierIs, PLCallFields
    <3> QED
      BY <3>2, PLCallFields
  <2> QED
    BY <1>1, <2>1, <2>3
<1> QED
  BY <1>1, <1>2 DEF PLReady

\* A revision whose names say nothing was sent for it has no marker.
LEMMA PLNotSent ==
  ASSUME PLInv, PLMaxOrdinal > 0
  PROVE  /\ PLThere(plRevs[PLMaxOrdinal].superseded) => ~PLThere(plRevs[PLMaxOrdinal].submitted)
         /\ ~PLThere(plRevs[PLMaxOrdinal].generation) => ~PLThere(plRevs[PLMaxOrdinal].submitted)
         /\ PLMaxOrdinal \in 1..PLMaxOrdinal
<1>1. PLMaxOrdinal \in 1..PLMaxOrdinal
  BY PLCallFields
<1> QED
  BY <1>1 DEF PLInv, PLScans

\* A request is let in.
LEMMA PLUpsertInv == ASSUME PLInv, NEW req \in PLRequests, NEW run \in PLRuns, PLUpsert(req, run) PROVE PLInv'
<1>1. plCall.pc = "idle" /\ UNCHANGED <<plRevs, plPrep, plHub, plFly, plSent, plAnswered, plLedger, plFaults>>
  BY DEF PLUpsert, PLAt, PLKeepDisk, PLKeepHub
<1>2. PICK route : route = PLRoute(req, run)
  OBVIOUS
<1>3. PICK o : o = CASE route \in {"next", "supersede"} -> PLMaxOrdinal + 1 [] route = "recoverBarrier" -> PLBarrierOrdinal [] OTHER -> PLMaxOrdinal
  OBVIOUS
<1>4. PICK pc : pc = CASE route \in {"next", "again"} -> "discover" [] route = "recoverBarrier" -> "recover" [] OTHER -> route
  OBVIOUS
<1>5. /\ route # "refuse" /\ (route \in {"next", "again"} => PLMayPrepare(run)) /\ o <= PLMaxRevisions
      /\ plCall' = [PLIdle EXCEPT !.req = req, !.run = run, !.ord = o, !.prev = PLPrevious, !.erred = (route = "reconcile"), !.pc = pc]
  BY <1>2, <1>3, <1>4 DEF PLUpsert
<1>6. PLPrevious \in Nat
  <2>1. PLBarrierOrdinal # 0 => PLBarrierOrdinal \in 1..Len(plRevs)
    BY PLBarrierIs, PLCallFields DEF PLMaxOrdinal
  <2>2. PLBarrierOrdinal # 0 => plRevs[PLBarrierOrdinal] \in PLRevRec
    BY <2>1, PLCallFields
  <2>3. PLBarrierOrdinal # 0 => plRevs[PLBarrierOrdinal].got \in Nat
    BY <2>2 DEF PLRevRec
  <2> QED
    BY <2>3 DEF PLPrevious
<1>7. PLCallOK(plCall') <=> PLCallOK(plCall')
  OBVIOUS
<1>8. ASSUME pc \in PLPcs, o \in 0..PLMaxRevisions
      PROVE  /\ plCall' \in PLCallRec /\ plCall'.pc = pc /\ plCall'.run = run /\ plCall'.ord = o /\ plCall'.prev = PLPrevious /\ plCall'.pr = 0
             /\ plCall'.erred = (route = "reconcile")
  <2>1. req \in PLWhos /\ (route = "reconcile") \in BOOLEAN /\ "none" \in PLOutcomes
    BY DEF PLWhos, PLOutcomes
  <2>2. plCall' = [pc |-> pc, req |-> req, run |-> run, ord |-> o, prev |-> PLPrevious, pr |-> 0, erred |-> (route = "reconcile"), out |-> "none"]
    BY <1>5 DEF PLIdle
  <2> QED
    BY <1>6, <1>8, <2>1, <2>2 DEF PLCallRec
<1>9. o > 0 /\ pc \in PLPcs /\ o \in 0..PLMaxRevisions /\ (plCall' \in PLCallRec /\ plCall'.pc = pc /\ plCall'.run = run /\ plCall'.ord = o
        /\ plCall'.prev = PLPrevious /\ plCall'.pr = 0 /\ plCall'.erred = (route = "reconcile") => PLCallOK(plCall'))
  <2>1. CASE route = "recover" /\ PLMaxOrdinal > 0
    <3>1. pc = "recover" /\ o = PLMaxOrdinal /\ o > 0 /\ o \in 0..PLMaxRevisions /\ o <= PLMaxOrdinal
      BY <1>3, <1>4, <1>5, <2>1, PLCallFields, PLAssumption
    <3> QED
      BY <3>1 DEF PLCallOK, PLPreparing, PLPcs
  <2>2. CASE route = "recoverBarrier" /\ PLBarrierOrdinal \in 1..(PLMaxOrdinal - 1)
    <3>0. PLBarrierOrdinal \in Nat /\ PLBarrierOrdinal > 0 /\ PLBarrierOrdinal <= PLMaxOrdinal
      BY <2>2, PLCallFields
    <3>1. pc = "recover" /\ o = PLBarrierOrdinal /\ o > 0 /\ o \in 0..PLMaxRevisions /\ o <= PLMaxOrdinal
      BY <1>3, <1>4, <1>5, <2>2, <3>0, PLAssumption
    <3> QED
      BY <3>1 DEF PLCallOK, PLPreparing, PLPcs
  <2>3. CASE \/ route = "next" /\ PLBarrier /\ PLMaxOrdinal > 0 /\ (PLThere(plRevs[PLMaxOrdinal].terminal) \/ PLThere(plRevs[PLMaxOrdinal].superseded))
             \/ route = "next" /\ PLMaxOrdinal = 0
    <3>0. PICK n \in Nat : n = PLMaxOrdinal
      BY PLCallFields
    <3>1. pc = "discover" /\ o = PLMaxOrdinal + 1 /\ o > 0 /\ o \in 0..PLMaxRevisions /\ ~(o <= PLMaxOrdinal)
      <4>1. pc = "discover" /\ o = n + 1
        BY <1>3, <1>4, <2>3, <3>0
      <4> QED
        BY <1>5, <3>0, <4>1, PLAssumption
    <3>2. PLMaxOrdinal = 0 => PLBarrierOrdinal = 0
      BY PLBarrierIs, PLCallFields
    <3>3. PLReady
      BY <2>3, <3>2, PLNothingFlies, PLNotSent DEF PLBarrier
    <3>4. PLClosed
      BY <2>3, PLCallFields DEF PLClosed
    <3>5. plPrep.count[run] < PLPrepareRounds
      BY <1>5, <2>3 DEF PLMayPrepare
    <3> QED
      BY <3>1, <3>3, <3>4, <3>5 DEF PLCallOK, PLPreparing, PLPcs
  <2>4. CASE /\ route \in {"supersede", "again"} /\ PLBarrier /\ PLMaxOrdinal > 0 /\ ~PLUnresolved
             /\ ~PLThere(plRevs[PLMaxOrdinal].terminal) /\ ~PLThere(plRevs[PLMaxOrdinal].superseded)
    <3>1. ~PLThere(plRevs[PLMaxOrdinal].generation)
      BY <2>4 DEF PLUnresolved
    <3>2. PLBlank(PLMaxOrdinal)
      BY <2>4, <3>1, PLNotSent DEF PLBlank, PLThere
    <3>3. PLReady
      BY <2>4, <3>1, PLNothingFlies, PLNotSent
    <3>4. CASE route = "supersede"
      <4>1. pc = "supersede" /\ o = PLMaxOrdinal + 1 /\ o > 0 /\ o \in 0..PLMaxRevisions
        BY <1>3, <1>4, <1>5, <3>4, PLCallFields, PLAssumption, SMTT(20)
      <4> QED
        BY <3>2, <3>3, <4>1 DEF PLCallOK, PLPreparing, PLPcs
    <3>5. CASE route = "again"
      <4>1. pc = "discover" /\ o = PLMaxOrdinal /\ o > 0 /\ o \in 0..PLMaxRevisions
        BY <1>3, <1>4, <1>5, <2>4, <3>5, PLCallFields, PLAssumption
      <4>2. plPrep.count[run] < PLPrepareRounds
        BY <1>5, <3>5 DEF PLMayPrepare
      <4> QED
        BY <3>2, <3>3, <4>1, <4>2 DEF PLCallOK, PLPreparing, PLPcs
    <3> QED
      BY <2>4, <3>4, <3>5
  <2>5. CASE route = "reconcile" /\ PLUnresolved /\ PLThere(plRevs[PLMaxOrdinal].submitted)
    <3>0. PLMaxOrdinal > 0 /\ PLUnanswered(PLMaxOrdinal)
      BY <2>5, PLNotSent DEF PLUnresolved, PLUnanswered, PLThere
    <3>1. pc = "reconcile" /\ o = PLMaxOrdinal /\ o > 0 /\ o \in 0..PLMaxRevisions
      BY <1>3, <1>4, <1>5, <2>5, <3>0, PLCallFields, PLAssumption
    <3> QED
      BY <2>5, <3>0, <3>1 DEF PLCallOK, PLPreparing, PLPcs
  <2>6. CASE route = "resume" /\ PLUnresolved /\ ~PLThere(plRevs[PLMaxOrdinal].submitted) /\ PLBarrier
    <3>0. PLMaxOrdinal > 0 /\ PLUnsent(PLMaxOrdinal)
      BY <2>6, PLNotSent DEF PLUnresolved, PLUnsent, PLThere
    <3>1. pc = "resume" /\ o = PLMaxOrdinal /\ o > 0 /\ o \in 0..PLMaxRevisions
      BY <1>3, <1>4, <1>5, <2>6, <3>0, PLCallFields, PLAssumption
    <3>2. PLReady
      BY <2>6, PLNothingFlies
    <3> QED
      BY <3>0, <3>1, <3>2 DEF PLCallOK, PLPreparing, PLPcs
  <2> QED
    BY <1>2, <1>5, <2>1, <2>2, <2>3, <2>4, <2>5, <2>6, PLRouteIs, PLCallFields
<1>10. plCall' \in PLCallRec /\ plCall'.pr = 0 /\ PLCallOK(plCall')
  BY <1>8, <1>9
<1>11. PLCallOK(plCall)'
  BY <1>1, <1>10, PLCallStays
<1>12. 0 \in 0..Len(plHub.pulls)
  BY PLCallFields
<1> QED
  BY <1>1, <1>10, <1>11, <1>12, PLCallStep, PLCallFields

-----------------------------------------------------------------------------
(* The theorems. *)

\* A store without records satisfies the invariant.
LEMMA PLInitInv == PLInit => PLInv
<1> SUFFICES ASSUME PLInit PROVE PLInv
  OBVIOUS
<1>1. /\ plRevs = <<>> /\ plPrep = PLNoPrep /\ plLedger = {} /\ plCall = PLIdle
      /\ plHub = [pulls |-> <<>>, exact |-> TRUE] /\ plFly = {} /\ plSent = <<>> /\ plAnswered = {} /\ plFaults = 0
  BY DEF PLInit
<1>2. PLMaxOrdinal = 0 /\ Len(plHub.pulls) = 0
  BY <1>1 DEF PLMaxOrdinal
<1>3. plPrep \in PLPrepRec
  BY <1>1, PLAssumption DEF PLNoPrep, PLPrepRec
<1>4. PLTyped
  <2>1. plHub \in PLHubRec /\ plHub.pulls = <<>>
    BY <1>1 DEF PLHubRec
  <2>2. plRevs \in Seq(PLRevRec) /\ plSent \in Seq(PLWrites) /\ Len(plRevs) = 0
    BY <1>1
  <2>3. plCall \in PLCallRec
    BY <1>1, PLIdleIsFine
  <2> QED
    BY <1>1, <1>2, <1>3, <2>1, <2>2, <2>3, PLAssumption DEF PLTyped
<1>5. PLScans
  BY <1>2 DEF PLScans
<1>6. PLNamed /\ PLMarked /\ PLOneWrite
  <2>1. Len(plSent) = 0 /\ DOMAIN plSent = {}
    BY <1>1
  <2>2. plCall.pr = 0
    BY <1>1, PLIdleIsFine
  <2> QED
    BY <1>1, <1>2, <2>1, <2>2 DEF PLNamed, PLMarked, PLOneWrite
<1>7. PLCallOK(plCall)
  <2>1. plCall.pc = "idle"
    BY <1>1 DEF PLIdle
  <2> QED
    BY <2>1 DEF PLCallOK, PLPreparing
<1>8. PLFull
  <2>1. PLPreps = 0
    <3>1. plPrep.count \in [PLRuns -> Nat] /\ plPrep.torn = FALSE /\ \A x \in PLRuns : plPrep.count[x] = 0
      BY <1>1 DEF PLNoPrep
    <3>2. SumOfAll(plPrep.count, PLRuns) = 0
      BY <3>1, PLAssumption, SumOfZeros
    <3> QED
      BY <1>3, <3>1, <3>2, PLPrepsAre
  <2>2. PICK n \in Nat : n = Len(plRevs) /\ n = 0 /\ plRevs \in Seq(PLRevRec)
    BY <1>1
  <2>3. SumOfAll(PLSizes(plRevs), 1..n) = 0
    <3>1. IsFiniteSet(1..n) /\ PLSizes(plRevs) \in [1..n -> Nat]
      BY <2>2, PLSizesAre
    <3>2. \A x \in 1..n : PLSizes(plRevs)[x] = 0
      BY <2>2
    <3> QED
      BY <3>1, <3>2, SumOfZeros
  <2>4. PLFiles = 0
    BY <2>1, <2>2, <2>3, PLFilesAre
  <2>5. PLReservations = 0
    <3>1. PLReserving = {}
      BY <1>2 DEF PLReserving
    <3> QED
      BY <1>4, <3>1, PLReservingIsFinite, FS_EmptySet
  <2> QED
    BY <2>4, <2>5, PLAssumption DEF PLFull
<1> QED
  BY <1>4, <1>5, <1>6, <1>7, <1>8 DEF PLInv

\* Nothing changes.
LEMMA PLStutterInv == ASSUME PLInv, UNCHANGED plVars PROVE PLInv'
<1>1. UNCHANGED <<plRevs, plPrep, plHub, plFly, plSent, plAnswered, plLedger, plFaults, plCall>>
  BY DEF plVars
<1>2. PLCallOK(plCall')
  BY <1>1, PLCallFields
<1> QED
  BY <1>1, <1>2, PLCallStays, PLCallStep, PLCallFields

\* Every step of a call preserves the invariant.
LEMMA PLStepInv == ASSUME PLInv, PLNeeds, PLStep PROVE PLInv'
<1>1. CASE PLSupersede \/ PLDiscover \/ PLInspect \/ PLPrepareFails \/ PLPrepared \/ PLRevise
  BY <1>1, PLSupersedeInv, PLDiscoverInv, PLInspectInv, PLPrepareFailsInv, PLPreparedInv, PLReviseInv
<1>2. CASE PLGenerate \/ PLResume \/ PLMark \/ PLSend \/ PLNeverSubmitted \/ PLBeginReconciliation
  BY <1>2, PLGenerateInv, PLResumeInv, PLMarkInv, PLSendInv, PLNeverSubmittedInv, PLBeginReconciliationInv
<1>3. CASE PLFind \/ PLCompare \/ PLReadFails \/ PLTerminalize \/ PLRecord \/ PLRecordFails \/ PLRecover \/ PLRecoverRefuses
  BY <1>3, PLFindInv, PLCompareInv, PLGivesUpInv, PLTerminalizeInv, PLRecordInv, PLRecoverInv
<1> QED
  BY <1>1, <1>2, <1>3 DEF PLStep

\* The invariant of the pull request of a resource: what a call at each of its
\* steps knows of the records, and what a write under way says of the last result.
THEOREM PullRequestInvariant == PLSpec => []PLInv
<1>1. PLInv /\ [PLNext]_plVars => PLInv'
  <2> SUFFICES ASSUME PLInv, [PLNext]_plVars PROVE PLInv'
    OBVIOUS
  <2>1. CASE \E req \in PLRequests, run \in PLRuns : PLUpsert(req, run)
    BY <2>1, PLUpsertInv
  <2>2. CASE PLWork
    BY <2>2, PLStepInv, PLGivesUpInv DEF PLWork
  <2>3. CASE PLDie \/ PLLands \/ PLOwner
    BY <2>3, PLDieInv, PLLandsInv, PLOwnerInv
  <2>4. CASE UNCHANGED plVars
    BY <2>4, PLStutterInv
  <2> QED
    BY <2>1, <2>2, <2>3, <2>4 DEF PLNext
<1> QED
  BY <1>1, PLInitInv, PTL DEF PLSpec

\* The upsert of a pull request is sound: one write per revision and one pull
\* request per resource, no write overtaken by a later one, no result answered
\* without its event, room for the result of every write sent, and records that
\* scan, wherever calls die (internal/prlifecycle).
THEOREM PullRequestsAreSound == PLSpec => []PLSound
<1>1. PLInv => PLSound
  <2> SUFFICES ASSUME PLInv PROVE PLSound
    OBVIOUS
  <2>1. PLTypeOK
    BY DEF PLInv, PLTyped, PLTypeOK, PLPrepRec, PLCallRec, PLHubRec
  <2>2. PLNoLateWrite
    <3> SUFFICES ASSUME NEW w \in plFly, NEW i \in DOMAIN plSent PROVE plSent[i].ord <= w.ord
      BY DEF PLNoLateWrite
    <3>1. w.ord = PLMaxOrdinal /\ i \in 1..Len(plSent)
      BY DEF PLInv, PLMarked, PLTyped
    <3>2. plSent[i].ord \in 1..PLMaxOrdinal
      BY <3>1 DEF PLInv, PLMarked
    <3> QED
      BY <3>1, <3>2, PLCallFields
  <2>3. PLAppliedIsOurs
    BY DEF PLInv, PLNamed, PLNames, PLAppliedIsOurs
  <2>4. PLTerminalFits
    <3> SUFFICES ASSUME PLAt("terminal") PROVE PLFits(0, 1)
      BY DEF PLTerminalFits
    <3>1. PLFiles + PLReservations <= PLCapacity /\ PLFiles \in Nat /\ PLReservations \in Nat /\ PLCapacity \in Nat
      BY PLNumbers DEF PLInv, PLFull
    <3>2. \A f, r, c \in Nat : f + r <= c => f + 1 + r + 0 - 1 <= c
      OBVIOUS
    <3> QED
      BY <3>1, <3>2 DEF PLFits
  <2>5. plAnswered \subseteq plLedger
    BY DEF PLInv, PLTyped
  <2> QED
    BY <2>1, <2>2, <2>3, <2>4, <2>5 DEF PLInv, PLSound
<1> QED
  BY <1>1, PullRequestInvariant, PTL
=============================================================================
