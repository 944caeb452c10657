------------------------------- MODULE StackJobs -------------------------------
(***************************************************************************)
(* internal/stackjob Manager: checks and scans of customers' code, run one *)
(* at a time by one worker goroutine.                                      *)
(*                                                                         *)
(* Every critical section of m.mu is one action.  The worker is between    *)
(* two of them wherever sjWorker.pc says, and callers may start and stop   *)
(* jobs there.  sjDisk is what jobs/*.json holds: a crash keeps it and     *)
(* loses everything else, and load() answers for what it finds.  The parts *)
(* and steps a running job shows are kept with the worker that changes     *)
(* them: load() reads only the state, so their saves are left out.         *)
(***************************************************************************)
EXTENDS StackSteps, FiniteSets, SequencesExt

CONSTANTS SJMaxJobs,   \* bound: jobs ever made; IDs in the order of CreatedAt
          SJRequests,  \* request IDs
          SJKept,      \* keptJobs
          SJMaxQueued, \* maxQueued
          SJScan,      \* the requests of scans; the others are checks
          SJPrivate,   \* the requests that carry private registries
          SJSource(_), \* what the source folder of a request may hold: sequences of parts
          SJMaxFaults  \* bound: crashes and failed writes

\* A part as it is found (Detect): its stack, whether it has a build script and
\* tests, and the version its files ask for.
SJPartKind == [stack : STRING, build : BOOLEAN, test : BOOLEAN, version : STRING]

ASSUME SJAssumption ==
  /\ {SJMaxJobs, SJKept, SJMaxQueued, SJMaxFaults} \subseteq Nat
  /\ \A r \in SJRequests : SJSource(r) \subseteq Seq(SJPartKind)

VARIABLES sjRec, sjDisk, sjQueue, sjMade, sjWorker, sjUp, sjReg, sjSettings, sjFaults

sjVars == <<sjRec, sjDisk, sjQueue, sjMade, sjWorker, sjUp, sjReg, sjSettings, sjFaults>>

SJJobs == 1..SJMaxJobs
SJNone == [state |-> "NONE"]
SJActive == {"QUEUED", "RUNNING"}
SJEnded == {"PASSED", "FAILED", "STOPPED", "UNKNOWN"}
SJIdle == [pc |-> "idle", id |-> 0, scan |-> FALSE, parts |-> <<>>, part |-> 0, step |-> 0, fail |-> "", pfail |-> "", ran |-> FALSE, cancelled |-> FALSE]

\* New: nothing kept yet, the worker waiting.
SJInit ==
  /\ sjRec = [j \in SJJobs |-> SJNone] /\ sjDisk = [j \in SJJobs |-> SJNone]
  /\ sjQueue = <<>> /\ sjMade = 0 /\ sjWorker = SJIdle /\ sjUp = "up"
  /\ sjReg = {} /\ sjSettings = 0 /\ sjFaults = 0

SJHas(j) == sjRec[j] # SJNone

\* byRequest: kept and dropped with the record it names.
SJByRequest(r) == {j \in SJJobs : SJHas(j) /\ sjRec[j].req = r}

\* prune: of the ended jobs the newest SJKept stay, with their files.
SJPruned(recs) ==
  LET ended == {j \in SJJobs : recs[j].state \in SJEnded}
  IN  {j \in ended : Cardinality({k \in ended : k > j}) >= SJKept}
SJDrop(recs, gone) == [j \in SJJobs |-> IF j \in gone THEN SJNone ELSE recs[j]]

\* save: the whole record, renamed into place, or a failed write.
SJSave(j, rec, ok) ==
  /\ sjDisk' = IF ok THEN [sjDisk EXCEPT ![j] = rec] ELSE sjDisk
  /\ ok \/ sjFaults < SJMaxFaults
  /\ sjFaults' = IF ok THEN sjFaults ELSE sjFaults + 1

\* StartStackJob, past replay, the source and scan checks: queued, saved, the
\* registries kept in memory only, and the ended jobs pruned.  A failed save
\* leaves nothing.
SJStart(r) ==
  /\ sjUp # "down" /\ SJByRequest(r) = {} /\ sjMade < SJMaxJobs /\ Len(sjQueue) < SJMaxQueued
  /\ LET j == sjMade + 1
         rec == [state |-> "QUEUED", req |-> r]
         recs == [sjRec EXCEPT ![j] = rec]
         gone == SJPruned(recs)
     IN  \/ /\ sjMade' = j /\ sjRec' = SJDrop(recs, gone)
            /\ sjDisk' = SJDrop([sjDisk EXCEPT ![j] = rec], gone)
            /\ sjQueue' = Append(sjQueue, j)
            /\ sjReg' = IF r \in SJPrivate THEN sjReg \cup {j} ELSE sjReg
            /\ UNCHANGED sjFaults
         \/ SJSave(j, rec, FALSE) /\ UNCHANGED <<sjMade, sjRec, sjQueue, sjReg>>
  /\ UNCHANGED <<sjWorker, sjUp, sjSettings>>

\* StopStackJob of a queued job: off the queue and stopped at once, whether or
\* not the worker has already taken it off.
SJStopQueued(j) ==
  /\ sjUp # "down" /\ SJHas(j) /\ sjRec[j].state = "QUEUED"
  /\ LET rec == [sjRec[j] EXCEPT !.state = "STOPPED"]
     IN  sjRec' = [sjRec EXCEPT ![j] = rec] /\ \E ok \in BOOLEAN : SJSave(j, rec, ok)
  /\ sjQueue' = RemoveFirst(sjQueue, j)
  /\ UNCHANGED <<sjMade, sjWorker, sjUp, sjReg, sjSettings>>

\* StopStackJob of the running job: its context is cancelled.
SJStopRunning(j) ==
  /\ sjUp # "down" /\ SJHas(j) /\ sjRec[j].state = "RUNNING" /\ sjWorker.id = j
  /\ sjWorker.pc \notin {"idle", "taken", "exited"} /\ ~sjWorker.cancelled
  /\ sjWorker' = [sjWorker EXCEPT !.cancelled = TRUE]
  /\ UNCHANGED <<sjRec, sjDisk, sjQueue, sjMade, sjUp, sjReg, sjSettings, sjFaults>>

-----------------------------------------------------------------------------
(* The worker. *)

\* work: the first queued job is taken, under the lock.
SJTake ==
  /\ sjUp = "up" /\ sjWorker.pc = "idle" /\ sjQueue # <<>>
  /\ sjWorker' = [SJIdle EXCEPT !.pc = "taken", !.id = Head(sjQueue)] /\ sjQueue' = Tail(sjQueue)
  /\ UNCHANGED <<sjRec, sjDisk, sjMade, sjUp, sjReg, sjSettings, sjFaults>>

\* run, its first section: the job it took is marked running and saved,
\* without another look at its state.  A job pruned meanwhile is a nil record.
SJMark ==
  /\ sjWorker.pc = "taken" /\ SJHas(sjWorker.id)
  /\ LET rec == [sjRec[sjWorker.id] EXCEPT !.state = "RUNNING"]
     IN  sjRec' = [sjRec EXCEPT ![sjWorker.id] = rec] /\ \E ok \in BOOLEAN : SJSave(sjWorker.id, rec, ok)
  /\ sjWorker' = [sjWorker EXCEPT !.pc = "prepare", !.scan = sjRec[sjWorker.id].req \in SJScan, !.cancelled = (sjUp # "up")]
  /\ UNCHANGED <<sjQueue, sjMade, sjUp, sjReg, sjSettings>>

\* runJob ends before any part runs.
SJGiveUp(failure) == sjWorker' = [sjWorker EXCEPT !.pc = "finish", !.fail = failure]

\* runJob up to its parts: no disk or a source that cannot be copied, nothing
\* found, or the parts shown waiting and the registries' settings written.
SJPrepare ==
  /\ sjWorker.pc = "prepare" /\ sjUp # "down"
  /\ \/ \E failure \in {"SANDBOX_UNAVAILABLE", "SOURCE_REFUSED", "NO_STACK"} : SJGiveUp(failure) /\ UNCHANGED sjSettings
     \/ \E parts \in SJSource(sjRec[sjWorker.id].req) :
          LET shown == [sjWorker EXCEPT !.pc = "part", !.part = 1, !.parts =
                          [n \in DOMAIN parts |-> [part |-> parts[n], steps |-> partSteps(parts[n], sjWorker.scan)]]]
          IN  \/ sjWorker' = [shown EXCEPT !.pc = "finish", !.fail = "SANDBOX_UNAVAILABLE"] /\ UNCHANGED sjSettings
              \/ sjWorker' = shown /\ sjSettings' = IF sjWorker.id \in sjReg THEN sjWorker.id ELSE sjSettings
  /\ UNCHANGED <<sjRec, sjDisk, sjQueue, sjMade, sjUp, sjReg, sjFaults>>

SJPart == sjWorker.parts[sjWorker.part]

\* Mutant of SJAfterPart: the last failure is the job's.
SJAfterPartLast(failure) ==
  [sjWorker EXCEPT !.pc = IF failure \in {"STOPPED", "SANDBOX_UNAVAILABLE"} THEN "finish" ELSE "part",
                   !.part = @ + 1, !.fail = failure, !.pfail = "", !.ran = TRUE, !.step = 0]

\* The loop of runJob after a part: the first failure is the job's, and a stop
\* or a broken sandbox ends the loop.
SJAfterPart(failure) ==
  LET fail == IF sjWorker.fail = "" THEN failure ELSE sjWorker.fail
  IN  [sjWorker EXCEPT !.pc = IF fail \in {"STOPPED", "SANDBOX_UNAVAILABLE"} THEN "finish" ELSE "part",
                       !.part = @ + 1, !.fail = fail, !.pfail = "", !.ran = TRUE, !.step = 0]

\* The loop passes a part of a stack that is not run, and ends.
SJNextPart ==
  /\ sjWorker.pc = "part" /\ sjUp # "down"
  /\ \/ /\ sjWorker.part > Len(sjWorker.parts)
        /\ sjWorker' = [sjWorker EXCEPT !.pc = "finish", !.fail = IF sjWorker.ran THEN @ ELSE "UNSUPPORTED_STACK"]
     \/ /\ sjWorker.part <= Len(sjWorker.parts) /\ SJPart.part.stack = Unsupported
        /\ sjWorker' = [sjWorker EXCEPT !.part = @ + 1]
  /\ UNCHANGED <<sjRec, sjDisk, sjQueue, sjMade, sjUp, sjReg, sjSettings, sjFaults>>

\* runSteps, its head: the profile is proved and the container opened, or not.
SJOpen ==
  /\ sjWorker.pc = "part" /\ sjUp # "down" /\ sjWorker.part <= Len(sjWorker.parts) /\ SJPart.part.stack # Unsupported
  /\ \/ sjWorker' = SJAfterPart("SANDBOX_UNAVAILABLE")
     \/ sjWorker' = [sjWorker EXCEPT !.pc = "step", !.step = 1]
  /\ UNCHANGED <<sjRec, sjDisk, sjQueue, sjMade, sjUp, sjReg, sjSettings, sjFaults>>

\* update, from a step: its state is shown.
SJTold(worker, state) == [worker EXCEPT !.parts[sjWorker.part].steps[sjWorker.step].state = state]

\* runSteps, before Exec: a step is skipped, not run after a failure, or runs.
SJBeforeStep ==
  /\ sjWorker.pc = "step" /\ sjUp # "down" /\ sjWorker.step <= Len(SJPart.steps)
  /\ LET state == CASE SJPart.steps[sjWorker.step].skip -> "SKIPPED" [] sjWorker.pfail # "" -> "NOT_RUN" [] OTHER -> "RUNNING"
         moved == IF state = "RUNNING" THEN [sjWorker EXCEPT !.pc = "exec"] ELSE [sjWorker EXCEPT !.step = @ + 1]
     IN  sjWorker' = SJTold(moved, state)
  /\ UNCHANGED <<sjRec, sjDisk, sjQueue, sjMade, sjUp, sjReg, sjSettings, sjFaults>>

\* runSteps, after Exec: the result, then the growth of the work folder; a
\* stopped step ends the part.
SJExec ==
  /\ sjWorker.pc = "exec" /\ sjUp # "down"
  /\ \E outcome \in Outcome, large \in BOOLEAN :
       LET name == SJPart.steps[sjWorker.step].name
           result == StepResult(sjWorker.scan, name, SJPart.part.stack = "python", outcome, sjWorker.cancelled)
           told == IF large /\ result[2] = "" THEN <<"FAILED", "TOO_LARGE">> ELSE result
           moved == IF told[2] = "STOPPED" THEN SJAfterPart("STOPPED")
                    ELSE [sjWorker EXCEPT !.pc = "step", !.step = @ + 1, !.pfail = told[2]]
       IN  sjWorker' = SJTold(moved, told[1])
  /\ UNCHANGED <<sjRec, sjDisk, sjQueue, sjMade, sjUp, sjReg, sjSettings, sjFaults>>

\* runSteps, its tail: the container has ended, a scan's result is read, and a
\* scan whose result cannot be read has failed.
SJEndPart ==
  /\ sjWorker.pc = "step" /\ sjUp # "down" /\ sjWorker.step > Len(SJPart.steps)
  /\ \/ sjWorker' = SJAfterPart(sjWorker.pfail)
     \/ \E i \in DOMAIN SJPart.steps :
          /\ sjWorker.pfail = "" /\ SJPart.steps[i].name = "scan" /\ SJPart.steps[i].state = "PASSED"
          /\ sjWorker' = [SJAfterPart("SCAN_FAILED") EXCEPT !.parts[sjWorker.part].steps[i].state = "FAILED"]
  /\ UNCHANGED <<sjRec, sjDisk, sjQueue, sjMade, sjUp, sjReg, sjSettings, sjFaults>>

\* run, its last update: the verdict, and the steps the job never reached.  The
\* settings of its registries are removed as runJob returns.
SJFinish ==
  /\ sjWorker.pc = "finish" /\ sjUp # "down"
  /\ LET state == CASE sjWorker.fail = "" -> "PASSED" [] sjWorker.fail = "STOPPED" -> "STOPPED" [] OTHER -> "FAILED"
         rec == [sjRec[sjWorker.id] EXCEPT !.state = state]
     IN  sjRec' = [sjRec EXCEPT ![sjWorker.id] = rec] /\ \E ok \in BOOLEAN : SJSave(sjWorker.id, rec, ok)
  /\ sjSettings' = IF sjSettings = sjWorker.id THEN 0 ELSE sjSettings
  /\ sjWorker' = [sjWorker EXCEPT !.pc = "clear",
                               !.parts = [n \in DOMAIN sjWorker.parts |-> [sjWorker.parts[n] EXCEPT !.steps = NotRun(sjWorker.parts[n].steps)]]]
  /\ UNCHANGED <<sjQueue, sjMade, sjUp, sjReg>>

\* run, its last section: the registries are forgotten, nothing runs.
SJClear ==
  /\ sjWorker.pc = "clear" /\ sjUp # "down"
  /\ sjWorker' = SJIdle /\ sjReg' = sjReg \ {sjWorker.id}
  /\ UNCHANGED <<sjRec, sjDisk, sjQueue, sjMade, sjUp, sjSettings, sjFaults>>

-----------------------------------------------------------------------------
(* The service. *)

\* Close: the context ends, and with it the running job's.
SJClose ==
  /\ sjUp = "up" /\ sjUp' = "closing"
  /\ sjWorker' = IF sjWorker.pc \in {"idle", "taken"} THEN sjWorker ELSE [sjWorker EXCEPT !.cancelled = TRUE]
  /\ UNCHANGED <<sjRec, sjDisk, sjQueue, sjMade, sjReg, sjSettings, sjFaults>>

\* The process ends: after Close once the worker has returned, by a crash, or
\* by the nil record of a job pruned between work and run.
SJDown ==
  /\ sjUp # "down"
  /\ \/ sjUp = "closing" /\ sjWorker.pc = "idle" /\ UNCHANGED sjFaults
     \/ sjWorker.pc = "taken" /\ ~SJHas(sjWorker.id) /\ UNCHANGED sjFaults
     \/ sjFaults < SJMaxFaults /\ sjFaults' = sjFaults + 1
  /\ sjUp' = "down" /\ sjWorker' = SJIdle /\ sjQueue' = <<>> /\ sjReg' = {}
  /\ sjRec' = [j \in SJJobs |-> SJNone]
  /\ UNCHANGED <<sjDisk, sjMade, sjSettings>>

\* load: a job left queued or running is told as unknown and saved; then prune.
SJLoad ==
  /\ sjUp = "down" /\ sjUp' = "up"
  /\ LET told == [j \in SJJobs |-> IF sjDisk[j].state \in SJActive THEN [sjDisk[j] EXCEPT !.state = "UNKNOWN"] ELSE sjDisk[j]]
         kept == SJDrop(told, SJPruned(told))
     IN  sjRec' = kept /\ sjDisk' = kept
  /\ UNCHANGED <<sjQueue, sjMade, sjWorker, sjReg, sjSettings, sjFaults>>

SJNext ==
  \/ \E r \in SJRequests : SJStart(r)
  \/ \E j \in SJJobs : SJStopQueued(j) \/ SJStopRunning(j)
  \/ SJTake \/ SJMark \/ SJPrepare \/ SJNextPart \/ SJOpen \/ SJBeforeStep \/ SJExec \/ SJEndPart \/ SJFinish \/ SJClear
  \/ SJClose \/ SJDown \/ SJLoad

SJSpec == SJInit /\ [][SJNext]_sjVars

-----------------------------------------------------------------------------
SJTypeOK ==
  /\ \A j \in SJJobs : sjRec[j] = SJNone \/ sjRec[j].state \in SJActive \cup SJEnded
  /\ \A j \in SJJobs : sjDisk[j] = SJNone \/ sjDisk[j].state \in SJActive \cup SJEnded
  /\ sjQueue \in Seq(SJJobs) /\ sjMade \in 0..SJMaxJobs /\ sjWorker.id \in 0..SJMaxJobs
  /\ sjUp \in {"up", "closing", "down"} /\ sjReg \subseteq SJJobs /\ sjSettings \in 0..SJMaxJobs

\* A job's verdict is the evidence it shows (run, runJob, runSteps): a passed job
\* ran at least one part and no step of it failed but a scan's install or build;
\* a job failed by a step shows that step failed; a job that ended leaves no
\* step waiting or running; and only the worker's job is running.
SJVerdictIsEvidence ==
  LET shown == UNION {{p.steps[i] : i \in DOMAIN p.steps} : p \in {sjWorker.parts[n] : n \in DOMAIN sjWorker.parts}}
      failed(name) == \E s \in shown : s.name = name /\ s.state = "FAILED"
      rec == IF sjWorker.id = 0 THEN SJNone ELSE sjRec[sjWorker.id]
  IN  /\ sjWorker.pc = "clear" =>
           /\ rec.state = "PASSED" =>
                /\ shown # {}
                /\ \A s \in shown : s.state \in {"PASSED", "SKIPPED"} \/ (sjWorker.scan /\ s.name \in {"install", "build"})
           /\ rec.state = "FAILED" => \A name \in {"install", "build", "test", "scan"} :
                                        sjWorker.fail = FailureOf(name) => failed(name)
           /\ \A s \in shown : s.state \notin {"WAITING", "RUNNING"}
      /\ \A j \in SJJobs : sjRec[j].state = "RUNNING" => sjWorker.id = j

\* "an ended job is answered as it is" (StopStackJob): nothing moves a job out of
\* an ended state but its being forgotten.
SJEndedStaysEnded == [][\A j \in SJJobs : sjRec[j].state \in SJEnded => sjRec'[j] = SJNone \/ sjRec'[j] = sjRec[j]]_sjVars

\* The verdicts of stack jobs can be trusted.
SJSound == SJTypeOK /\ SJVerdictIsEvidence
=============================================================================
