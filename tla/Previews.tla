-------------------------------- MODULE Previews --------------------------------
(***************************************************************************)
(* internal/preview: the previews of one run, from the request to the      *)
(* removal of containers and files.  Each preview has a worker; HTTP       *)
(* handlers stop previews, forget the run or its app's kept data; all      *)
(* share one store, one mutex (an action is one critical section) and, for *)
(* previews that keep their app's data, one lock per app.                  *)
(*                                                                         *)
(* A preview's ID is the digest of its request, so a request is its        *)
(* preview.  All are of one run and one app; PVKeep are the ones whose     *)
(* profile keeps data.  Docker is what the code sees of it: containers and *)
(* a volume, each there or not.                                            *)
(***************************************************************************)
EXTENDS Naturals, FiniteSets

CONSTANTS PVIds, PVKeep, PVMaxWorkers, PVMaxFaults

ASSUME PVAssumption == PVKeep \subseteq PVIds /\ {PVMaxWorkers, PVMaxFaults} \subseteq Nat

VARIABLES pvRec,       \* status of each preview's record
          pvBroken,    \* the store: an append that did not complete
          pvUnavail,   \* something could not be stopped, removed or written
          pvUp,        \* "up", "closing", "down"
          pvResolving, \* creates that resolve their source outside the mutex
          pvWorker,    \* workers: [pc, cancelled]
          pvObj,       \* [containers, files, volume]: what each preview has
          pvPast,      \* previews past their deadline
          pvKept,      \* the kept lock: "free", a preview, or the data handler
          pvHeld,      \* the previews the lock's holder waits for
          pvForget,    \* ForgetPreviews: [pc, held]
          pvPending,   \* stopPending
          pvForgotten, \* the run is forgotten: s.forgotten, and after a restart the sealed
                       \* forget, written before ForgetPreviews is called, at the API
          pvData, pvFaults

pvVars == <<pvRec, pvBroken, pvUnavail, pvUp, pvResolving, pvWorker, pvObj, pvPast, pvKept, pvHeld, pvForget, pvPending, pvForgotten, pvData, pvFaults>>

PVTerminal == {"FAILED", "EXPIRED", "STOPPED"}
PVLive(id) == pvRec[id] \notin PVTerminal \cup {"none"}
PVGone == [pc |-> "none", cancelled |-> FALSE]
\* What dockerRuntime.Stop and the checkout's Remove leave.
PVNothing == [containers |-> FALSE, files |-> FALSE, volume |-> FALSE]
PVWorks(id) == pvWorker[id].pc # "none"

PVInit ==
  /\ pvRec = [id \in PVIds |-> "none"] /\ pvBroken = FALSE /\ pvUnavail = FALSE /\ pvUp = "up" /\ pvResolving = {}
  /\ pvWorker = [id \in PVIds |-> PVGone] /\ pvObj = [id \in PVIds |-> PVNothing] /\ pvPast = {}
  /\ pvKept = "free" /\ pvHeld = {} /\ pvForget = [pc |-> "none", held |-> {}] /\ pvPending = {}
  /\ pvForgotten = FALSE /\ pvData = FALSE /\ pvFaults = 0

\* store.append: validated, written, anchored and only then applied.  Any
\* failure on the way leaves the store broken.
PVAppend(recs) ==
  \/ ~pvBroken /\ pvRec' = recs /\ UNCHANGED <<pvBroken, pvFaults>>
  \/ /\ ~pvBroken /\ recs # pvRec /\ pvFaults < PVMaxFaults
     /\ pvFaults' = pvFaults + 1 /\ pvBroken' = TRUE /\ UNCHANGED pvRec
PVFault == pvFaults < PVMaxFaults /\ pvFaults' = pvFaults + 1
PVEnd(ids, status) == [id \in PVIds |-> IF id \in ids /\ PVLive(id) THEN status ELSE pvRec[id]]
PVCancel(ids) == [id \in PVIds |-> IF id \in ids /\ PVWorks(id) THEN [pvWorker[id] EXCEPT !.cancelled = TRUE] ELSE pvWorker[id]]

-----------------------------------------------------------------------------
(* CreatePreview: checked, its source resolved outside the mutex, checked again. *)

PVMayCreate(id) ==
  /\ pvUp = "up" /\ ~pvBroken /\ ~pvForgotten /\ pvRec[id] = "none" /\ ~pvUnavail
  /\ Cardinality({w \in PVIds : PVWorks(w)}) < PVMaxWorkers
PVCreateBegin(id) ==
  /\ PVMayCreate(id) /\ id \notin pvResolving /\ pvResolving' = pvResolving \cup {id}
  /\ UNCHANGED <<pvRec, pvBroken, pvUnavail, pvUp, pvWorker, pvObj, pvPast, pvKept, pvHeld, pvForget, pvPending, pvForgotten, pvData, pvFaults>>

\* Mutant of PVMayAdmit: the run is not looked at again.
PVMayAdmitForgotten(id) == pvUp = "up" /\ ~pvBroken /\ pvRec[id] = "none" /\ ~pvUnavail /\ Cardinality({w \in PVIds : PVWorks(w)}) < PVMaxWorkers

\* The second look, under the mutex that also appends and starts the worker.
PVMayAdmit(id) == PVMayCreate(id)
PVCreateEnd(id) ==
  /\ id \in pvResolving /\ pvResolving' = pvResolving \ {id}
  /\ UNCHANGED <<pvUnavail, pvUp, pvObj, pvPast, pvKept, pvHeld, pvForget, pvPending, pvForgotten, pvData>>
  /\ IF ~PVMayAdmit(id) THEN UNCHANGED <<pvRec, pvBroken, pvWorker, pvFaults>>
     ELSE /\ PVAppend([pvRec EXCEPT ![id] = "REQUESTED"])
          /\ pvWorker' = IF pvBroken' THEN pvWorker ELSE [pvWorker EXCEPT ![id] = [pc |-> "validate", cancelled |-> FALSE]]

-----------------------------------------------------------------------------
(* work *)

\* transition: a terminal record, a closed service or a broken store refuses it;
\* past its deadline a preview expires; an append that fails makes the service
\* unavailable.  The worker goes on only when the record is not terminal.
PVTransition(id, status, ok, no) ==
  IF pvRec[id] \in PVTerminal \/ pvUp # "up" \/ pvBroken
  THEN UNCHANGED <<pvRec, pvBroken, pvUnavail, pvFaults>> /\ pvWorker' = [pvWorker EXCEPT ![id].pc = no]
  ELSE LET to == IF id \in pvPast THEN "EXPIRED" ELSE status IN
       /\ PVAppend([pvRec EXCEPT ![id] = to]) /\ pvUnavail' = (pvUnavail \/ pvBroken')
       /\ pvWorker' = [pvWorker EXCEPT ![id].pc = IF pvBroken' \/ to \in PVTerminal THEN no ELSE ok]
PVWorkerKeeps == UNCHANGED <<pvUp, pvResolving, pvPast, pvForget, pvPending, pvForgotten>>

PVGoes(id, to) ==
  /\ pvWorker' = [pvWorker EXCEPT ![id].pc = to]
  /\ UNCHANGED <<pvRec, pvBroken, pvUnavail, pvFaults>>

PVValidate(id) ==
  /\ pvWorker[id].pc = "validate" /\ PVTransition(id, "VALIDATING", "materialize", "stop")
  /\ PVWorkerKeeps /\ UNCHANGED <<pvObj, pvKept, pvHeld, pvData>>

\* Resolve reads the run's records and its worktree, which are not the service's:
\* it finds the source it was given before, or not.
PVResolve == {"exact", "changed or missing"}
\* Materialize: a failing checkout may leave files behind.
PVCheckout(id, out) ==
  \E made \in BOOLEAN : /\ pvObj' = [pvObj EXCEPT ![id].files = made]
                        /\ out = (IF made THEN "made" ELSE "failed") \/ out = "failed"
\* Resolve, Materialize, Resolve, the page files: the source must be the same
\* before and after the checkout; what a failure leaves is the defer's.
PVMaterialize(id) ==
  /\ pvWorker[id].pc = "materialize" /\ PVWorkerKeeps /\ UNCHANGED <<pvKept, pvHeld, pvData>>
  /\ \E before, after \in PVResolve, out \in {"made", "failed"} :
       /\ IF before = "exact" THEN PVCheckout(id, out) ELSE UNCHANGED pvObj
       /\ PVGoes(id, IF before = "exact" /\ out = "made" /\ after = "exact" /\ ~pvWorker[id].cancelled THEN "starting" ELSE "fail")

PVStarting(id) ==
  /\ pvWorker[id].pc = "starting" /\ PVWorkerKeeps /\ UNCHANGED <<pvObj, pvKept, pvHeld, pvData>>
  /\ IF pvWorker[id].cancelled THEN PVGoes(id, "fail")
     ELSE PVTransition(id, "STARTING", IF id \in PVKeep THEN "kept" ELSE "start", "fail")

\* The kept lock; then releaseApp ends the app's other live kept previews.
PVTakeKept(id) ==
  /\ pvWorker[id].pc = "kept" /\ pvKept = "free" /\ pvKept' = id
  /\ LET others == {o \in PVKeep \ {id} : PVLive(o)} IN
     /\ pvHeld' = others
     /\ IF pvBroken THEN UNCHANGED <<pvRec, pvBroken, pvFaults>> ELSE PVAppend(PVEnd(others, "STOPPED"))
     /\ pvUnavail' = (pvUnavail \/ pvBroken')
     /\ pvWorker' = [PVCancel(others) EXCEPT ![id].pc = "release"]
  /\ PVWorkerKeeps /\ UNCHANGED <<pvObj, pvData>>

\* releaseApp waits until no held preview has a worker, then stops each again;
\* after a minute, or when a stop fails, it gives up.
PVReleased == \A o \in pvHeld : ~PVWorks(o)
PVRelease(id) ==
  /\ pvWorker[id].pc = "release" /\ PVWorkerKeeps /\ UNCHANGED pvData
  /\ \/ /\ PVReleased /\ pvHeld' = {} /\ UNCHANGED pvKept
        /\ pvObj' = [o \in PVIds |-> IF o \in pvHeld THEN [pvObj[o] EXCEPT !.containers = FALSE, !.volume = FALSE] ELSE pvObj[o]]
        /\ PVGoes(id, IF pvWorker[id].cancelled THEN "unlock" ELSE "volume")
     \/ /\ ~PVReleased /\ pvHeld' = {} /\ UNCHANGED <<pvObj, pvKept>> /\ PVGoes(id, "unlock")
     \/ /\ PVReleased /\ pvHeld # {} /\ pvHeld' = {} /\ PVFault
        /\ pvWorker' = [pvWorker EXCEPT ![id].pc = "unlock"] /\ UNCHANGED <<pvObj, pvKept, pvRec, pvBroken, pvUnavail>>
PVUnlock(id) ==
  /\ pvWorker[id].pc = "unlock" /\ pvKept' = "free" /\ PVGoes(id, "fail") /\ PVWorkerKeeps /\ UNCHANGED <<pvObj, pvHeld, pvData>>

\* Mutant of PVVolumeFree: a volume in use is not looked for.
PVVolumeFreeUnchecked == TRUE

\* volumeInUse: no container mounts the app's volume.
PVVolumeFree == \A o \in PVIds : ~pvObj[o].volume

\* startGroup: networks, then containers, then a look at what they are; what a
\* start that fails made, it removes itself.
PVStartGroup(id, kept) ==
  \/ /\ ~pvWorker[id].cancelled /\ pvObj' = [pvObj EXCEPT ![id].containers = TRUE, ![id].volume = kept]
     /\ pvData' = (pvData \/ kept) /\ PVGoes(id, "health")
  \/ UNCHANGED <<pvObj, pvData>> /\ PVGoes(id, "fail")
\* StartKept: refused while a container uses the volume.  Start has no volume.
PVStart(id) ==
  /\ \/ pvWorker[id].pc = "volume" /\ pvKept' = "free"
     \/ pvWorker[id].pc = "start" /\ UNCHANGED pvKept
  /\ LET kept == pvWorker[id].pc = "volume" IN
     IF kept /\ ~PVVolumeFree THEN UNCHANGED <<pvObj, pvData>> /\ PVGoes(id, "fail") ELSE PVStartGroup(id, kept)
  /\ PVWorkerKeeps /\ UNCHANGED pvHeld

\* present: the containers are still the ones that were started, and safe.
PVPresent(id) == pvObj[id].containers
\* Healthy within its time: ready, with the route.
PVHealth(id) ==
  /\ pvWorker[id].pc = "health" /\ PVWorkerKeeps /\ UNCHANGED <<pvObj, pvKept, pvHeld, pvData>>
  /\ \/ PVPresent(id) /\ PVTransition(id, "READY", "ready", "fail")
     \/ PVGoes(id, "fail")

\* The ticker: cancelled or no longer safe it fails, a terminal record ends it.
PVTick(id) ==
  /\ pvWorker[id].pc = "ready" /\ PVWorkerKeeps /\ UNCHANGED <<pvObj, pvKept, pvHeld, pvData>>
  /\ \/ PVGoes(id, "fail")
     \/ pvRec[id] \in PVTerminal /\ PVGoes(id, "stop")
     \/ pvRec[id] \notin PVTerminal /\ id \in pvPast /\ PVTransition(id, "EXPIRED", "stop", "stop")

PVFail(id) ==
  /\ pvWorker[id].pc = "fail" /\ PVWorkerKeeps /\ UNCHANGED <<pvObj, pvKept, pvHeld, pvData>>
  /\ PVTransition(id, IF id \in pvPast THEN "EXPIRED" ELSE "FAILED", "stop", "stop")

\* Mutant of PVCleanUp: the files go first, so a stop that fails leaves containers without a source.
PVCleanUpFilesFirst(id) ==
  /\ pvWorker[id].pc = "stop" /\ pvWorker' = [pvWorker EXCEPT ![id] = PVGone]
  /\ \/ pvObj' = [pvObj EXCEPT ![id] = PVNothing] /\ UNCHANGED pvFaults
     \/ PVFault /\ pvObj' = [pvObj EXCEPT ![id].files = FALSE]
  /\ UNCHANGED pvUnavail
  /\ UNCHANGED <<pvRec, pvBroken, pvKept, pvHeld, pvData>> /\ PVWorkerKeeps

\* work's defer: Stop, then the checkout, then the page files; what fails makes
\* the service unavailable, and the worker is gone either way.
PVCleanUp(id) ==
  /\ pvWorker[id].pc = "stop" /\ pvWorker' = [pvWorker EXCEPT ![id] = PVGone]
  /\ \/ pvObj' = [pvObj EXCEPT ![id] = PVNothing] /\ UNCHANGED <<pvUnavail, pvFaults>>
     \/ PVFault /\ pvUnavail' = TRUE
        /\ \E stopped \in BOOLEAN : pvObj' = IF stopped THEN [pvObj EXCEPT ![id].containers = FALSE, ![id].volume = FALSE] ELSE pvObj
  /\ UNCHANGED <<pvRec, pvBroken, pvKept, pvHeld, pvData>> /\ PVWorkerKeeps

-----------------------------------------------------------------------------
(* The other handlers. *)

PVOpen == pvUp = "up" /\ ~pvBroken

\* StopPreview; and expire, by whatever reads a preview past its deadline.
PVStop(id) ==
  /\ PVOpen /\ PVLive(id)
  /\ PVAppend(PVEnd({id}, IF id \in pvPast THEN "EXPIRED" ELSE "STOPPED"))
  /\ pvWorker' = IF pvBroken' THEN pvWorker ELSE PVCancel({id})
  /\ UNCHANGED <<pvUnavail, pvUp, pvResolving, pvObj, pvPast, pvKept, pvHeld, pvForget, pvPending, pvForgotten, pvData>>

\* ForgetPreviewData: under the kept lock every live preview of the app ends, and
\* the volume goes unless a container uses it.
PVForgetData ==
  /\ PVOpen /\ pvKept = "free" /\ \E id \in PVIds : pvRec[id] # "none"
  /\ LET live == {o \in PVIds : PVLive(o)} IN
     /\ pvHeld' = live /\ PVAppend(PVEnd(live, "STOPPED")) /\ pvWorker' = PVCancel(live)
  /\ pvKept' = "data" /\ pvUnavail' = (pvUnavail \/ pvBroken')
  /\ UNCHANGED <<pvUp, pvResolving, pvObj, pvPast, pvForget, pvPending, pvForgotten, pvData>>
PVDataForgotten ==
  /\ pvKept = "data" /\ pvKept' = "free" /\ pvHeld' = {}
  /\ \/ /\ PVReleased
        /\ LET stopped == [o \in PVIds |-> IF o \in pvHeld THEN [pvObj[o] EXCEPT !.containers = FALSE, !.volume = FALSE] ELSE pvObj[o]]
           IN  pvObj' = stopped /\ pvData' = (pvData /\ \E o \in PVIds : stopped[o].volume)
     \/ UNCHANGED <<pvObj, pvData>>
  /\ UNCHANGED <<pvRec, pvBroken, pvUnavail, pvUp, pvResolving, pvWorker, pvPast, pvForget, pvPending, pvForgotten, pvFaults>>

\* SweepKeptData: idle data goes, looked at again under the kept lock.
PVSweep ==
  /\ PVOpen /\ pvKept = "free" /\ pvData /\ (\A id \in PVKeep : ~PVLive(id)) /\ PVVolumeFree /\ pvData' = FALSE
  /\ UNCHANGED <<pvRec, pvBroken, pvUnavail, pvUp, pvResolving, pvWorker, pvObj, pvPast, pvKept, pvHeld, pvForget, pvPending, pvForgotten, pvFaults>>

\* ForgetPreviews: the run is forgotten and its live previews end; it waits for
\* their workers, stops what it ended itself once more, and removes the files.
PVForgetMark ==
  /\ PVOpen /\ pvForget.pc \in {"none", "done"} /\ pvForgotten' = TRUE
  /\ LET live == {id \in PVIds : PVLive(id)} IN
     /\ PVAppend(PVEnd(live, "STOPPED"))
     /\ IF pvBroken' THEN pvUnavail' = TRUE /\ UNCHANGED <<pvPending, pvForget, pvWorker>>
        ELSE /\ pvPending' = pvPending \cup live /\ pvForget' = [pc |-> "wait", held |-> pvPending \cup live]
             /\ pvWorker' = PVCancel(PVIds) /\ UNCHANGED pvUnavail
  /\ UNCHANGED <<pvUp, pvResolving, pvObj, pvPast, pvKept, pvHeld, pvData>>
PVForgetWait ==
  /\ pvForget.pc = "wait"
  /\ pvForget' = [pvForget EXCEPT !.pc = IF \E id \in PVIds : pvRec[id] # "none" /\ PVWorks(id) THEN "none" ELSE "stop"]
  /\ UNCHANGED <<pvRec, pvBroken, pvUnavail, pvUp, pvResolving, pvWorker, pvObj, pvPast, pvKept, pvHeld, pvPending, pvForgotten, pvData, pvFaults>>
PVForgetStop ==
  /\ pvForget.pc = "stop" /\ UNCHANGED <<pvRec, pvBroken, pvUnavail, pvUp, pvResolving, pvWorker, pvPast, pvKept, pvHeld, pvForgotten, pvData>>
  /\ IF pvForget.held = {}
     THEN /\ pvForget' = [pc |-> "done", held |-> {}] /\ UNCHANGED <<pvPending, pvFaults>>
          /\ pvObj' = [o \in PVIds |-> [pvObj[o] EXCEPT !.files = FALSE]]
     ELSE \E id \in pvForget.held :
            \/ /\ pvForget' = [pvForget EXCEPT !.held = @ \ {id}] /\ pvPending' = pvPending \ {id} /\ UNCHANGED pvFaults
               /\ pvObj' = [pvObj EXCEPT ![id].containers = FALSE, ![id].volume = FALSE]
            \/ PVFault /\ pvForget' = [pc |-> "none", held |-> {}] /\ UNCHANGED <<pvPending, pvObj>>

\* A deadline passes; the worker's context ends with it.
PVDeadline(id) ==
  /\ pvUp = "up" /\ PVLive(id) /\ id \notin pvPast /\ pvPast' = pvPast \cup {id} /\ pvWorker' = PVCancel({id})
  /\ UNCHANGED <<pvRec, pvBroken, pvUnavail, pvUp, pvResolving, pvObj, pvKept, pvHeld, pvForget, pvPending, pvForgotten, pvData, pvFaults>>

\* Close: every live preview ends, then the workers are waited for.
PVClose ==
  /\ pvUp = "up" /\ pvUp' = "closing" /\ pvWorker' = PVCancel(PVIds)
  /\ IF pvBroken THEN UNCHANGED <<pvRec, pvBroken, pvFaults>> ELSE PVAppend(PVEnd(PVIds, "STOPPED"))
  /\ UNCHANGED <<pvUnavail, pvResolving, pvObj, pvPast, pvKept, pvHeld, pvForget, pvPending, pvForgotten, pvData>>

\* The process ends: after Close, or killed, perhaps within an append.
PVDown ==
  /\ pvUp' = "down" /\ UNCHANGED <<pvRec, pvUnavail, pvObj, pvPast, pvForgotten, pvData>>
  /\ \/ pvUp = "closing" /\ (\A id \in PVIds : ~PVWorks(id)) /\ UNCHANGED <<pvBroken, pvFaults>>
     \/ pvUp # "down" /\ PVFault /\ pvBroken' \in {pvBroken, TRUE}
  /\ pvWorker' = [id \in PVIds |-> PVGone] /\ pvResolving' = {} /\ pvKept' = "free" /\ pvHeld' = {} /\ pvPending' = {}
  /\ pvForget' = [pc |-> IF pvForget.pc = "done" THEN "done" ELSE "none", held |-> {}]

\* load: an append that did not complete is a frame without its anchor.
PVLoads == ~pvBroken
\* newService: every object of the namespace goes, and no preview is resumed.  A
\* store that does not load leaves the service unavailable.
PVRestart ==
  /\ pvUp = "down" /\ pvUp' = "up" /\ pvObj' = [id \in PVIds |-> PVNothing] /\ pvUnavail' = ~PVLoads
  /\ pvRec' = IF ~PVLoads THEN pvRec ELSE [id \in PVIds |-> IF PVLive(id) THEN IF id \in pvPast THEN "EXPIRED" ELSE "FAILED" ELSE pvRec[id]]
  /\ UNCHANGED <<pvBroken, pvResolving, pvWorker, pvPast, pvKept, pvHeld, pvForget, pvPending, pvForgotten, pvData, pvFaults>>

PVWork(id) ==
  \/ PVValidate(id) \/ PVMaterialize(id) \/ PVStarting(id) \/ PVTakeKept(id) \/ PVRelease(id) \/ PVUnlock(id) \/ PVStart(id)
  \/ PVHealth(id) \/ PVTick(id) \/ PVFail(id) \/ PVCleanUp(id)
PVNext ==
  \/ \E id \in PVIds : PVCreateBegin(id) \/ PVCreateEnd(id) \/ PVStop(id) \/ PVDeadline(id) \/ PVWork(id)
  \/ PVForgetData \/ PVDataForgotten \/ PVSweep \/ PVForgetMark \/ PVForgetWait \/ PVForgetStop
  \/ PVClose \/ PVDown \/ PVRestart
PVSpec == PVInit /\ [][PVNext]_pvVars

-----------------------------------------------------------------------------
PVTypeOK ==
  /\ \A id \in PVIds : pvRec[id] \in PVTerminal \cup {"none", "REQUESTED", "VALIDATING", "STARTING", "READY"}
  /\ {pvBroken, pvUnavail, pvForgotten, pvData} \subseteq BOOLEAN /\ pvUp \in {"up", "closing", "down"}
  /\ pvKept \in PVIds \cup {"free", "data"} /\ pvHeld \cup pvPast \cup pvPending \cup pvResolving \subseteq PVIds /\ pvFaults \in 0..PVMaxFaults

\* Two previews of one app never run their databases on one volume, whichever is
\* still stopping while the next starts (releaseApp passes previews that have
\* ended already; StartKept's look at the volume is what covers them).
PVOneDatabase == Cardinality({id \in PVIds : pvObj[id].volume}) <= 1

\* A forgotten run has no preview left: once ForgetPreviews has answered, no
\* worker, container or file of the run is left or comes back, however a create
\* that was resolving its source, a stop or a worker's own end fell around it.
\* What could not be stopped has made the service unavailable.
PVForgottenIsGone ==
  pvForget.pc = "done" /\ pvUp # "down" /\ ~pvUnavail => \A id \in PVIds : ~PVWorks(id) /\ pvObj[id] = PVNothing

\* "One preview of an app holds its kept data: the others end, and their
\* containers are gone, first": so what releaseApp waits for, under the kept
\* lock, is never a worker that waits for that same lock.
PVKeptLockIsNotAwaited == \A id \in pvHeld : pvWorker[id].pc # "kept"

\* One database per volume, and nothing of a forgotten run's previews is left.
PVSound == PVTypeOK /\ PVOneDatabase /\ PVForgottenIsGone
=============================================================================
