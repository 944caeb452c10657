------------------------------ MODULE ChangeJobs ------------------------------
(***************************************************************************)
(* internal/stackjob ChangeManager: a customer's code changed by an agent, *)
(* checked before and after, and handed back as a patch only when it is no *)
(* worse.  Two workers, one job per project (cache key) at a time; the     *)
(* agent runs commands only through the job's broker.                      *)
(*                                                                         *)
(* A job has one part the agent works on.  What a check showed of it is    *)
(* [install, build, test, tests]: the states of its steps and its tests'   *)
(* counts.  What the agent left is a member of CJWork: nothing, a change   *)
(* too large, one of a forbidden path, one with a secret, or a clean one.  *)
(* The phase a job shows is its worker's position, and the reason code of   *)
(* an end is named where it ends but not kept: nothing reads either back.  *)
(* The checks are kept with the worker, and with the record once they are   *)
(* the evidence of a job handed back.                                       *)
(***************************************************************************)
EXTENDS StackSteps, FiniteSets, SequencesExt

CONSTANTS CJMaxJobs,     \* bound: jobs ever made
          CJRequests,    \* request IDs
          CJProject(_), CJKind(_),  \* a request's cache key and kind
          CJWorkers,     \* changeWorkers
          CJMaxQueued,   \* changeQueued
          CJKept,        \* changeKept
          CJCommands,    \* brokerCommands
          CJChecks(_),   \* what a check of a request's code may show of the part
          CJMaxFaults    \* bound: crashes and failed writes

\* A cache key has the form of an identifier (serviceapi checks it), so it is not empty.
ASSUME CJAssumption ==
  /\ {CJMaxJobs, CJMaxQueued, CJKept, CJCommands, CJMaxFaults} \subseteq Nat
  /\ IsFiniteSet(CJWorkers) /\ \A r \in CJRequests : CJProject(r) # ""

VARIABLES cjRec, cjDisk, cjPatch, cjQueue, cjMade, cjBusy, cjWorker, cjWake, cjUp, cjFaults

cjVars == <<cjRec, cjDisk, cjPatch, cjQueue, cjMade, cjBusy, cjWorker, cjWake, cjUp, cjFaults>>

CJJobs == 1..CJMaxJobs
CJWork == {"none", "large", "forbidden", "secret", "clean"}
CJNone == [state |-> "NONE"]
CJActive == {"QUEUED", "RUNNING"}
CJEnded == {"HANDED_BACK", "ASSESSED", "NOT_HANDED_BACK", "FAILED", "STOPPED", "UNKNOWN"}
CJNoCheck == [install |-> "WAITING", build |-> "WAITING", test |-> "WAITING", tests |-> NoTests]
CJNoResult == [patch |-> "none", before |-> CJNoCheck, after |-> CJNoCheck]
CJIdle == [pc |-> "idle", id |-> 0, project |-> "", ctx |-> "live", leaked |-> FALSE, left |-> "none", end |-> "", before |-> CJNoCheck, after |-> CJNoCheck,
           broker |-> "closed", commands |-> 0]

\* NewChangeManager: nothing kept yet, the workers waiting.
CJInit ==
  /\ cjRec = [j \in CJJobs |-> CJNone] /\ cjDisk = [j \in CJJobs |-> CJNone] /\ cjPatch = [j \in CJJobs |-> "none"]
  /\ cjQueue = <<>> /\ cjMade = 0 /\ cjBusy = {} /\ cjWorker = [w \in CJWorkers |-> [CJIdle EXCEPT !.pc = "asleep"]]
  /\ cjWake = 0 /\ cjUp = "up" /\ cjFaults = 0

CJHas(j) == cjRec[j] # CJNone
CJByRequest(r) == {j \in CJJobs : CJHas(j) /\ cjRec[j].req = r}

\* prune: the newest CJKept ended jobs stay, with their patches.
CJPruned(recs) ==
  LET ended == {j \in CJJobs : recs[j].state \in CJEnded}
  IN  {j \in ended : Cardinality({k \in ended : k > j}) >= CJKept}
CJDrop(recs, gone) == [j \in CJJobs |-> IF j \in gone THEN CJNone ELSE recs[j]]
CJDropPatches(gone) == [j \in CJJobs |-> IF j \in gone THEN "none" ELSE cjPatch[j]]

\* save.
CJSave(j, rec, ok) ==
  /\ cjDisk' = IF ok THEN [cjDisk EXCEPT ![j] = rec] ELSE cjDisk
  /\ ok \/ cjFaults < CJMaxFaults
  /\ cjFaults' = IF ok THEN cjFaults ELSE cjFaults + 1

\* nudge: the wake channel holds at most one token per worker.
CJNudged == Cardinality(CJWorkers)

\* StartChangeJob, past replay and the source check.
CJStart(r) ==
  /\ cjUp # "down" /\ CJByRequest(r) = {} /\ cjMade < CJMaxJobs /\ Len(cjQueue) < CJMaxQueued
  /\ LET j == cjMade + 1
         rec == [state |-> "QUEUED", req |-> r, result |-> CJNoResult]
         recs == [cjRec EXCEPT ![j] = rec]
         gone == CJPruned(recs)
     IN  \/ /\ cjMade' = j /\ cjRec' = CJDrop(recs, gone) /\ cjDisk' = CJDrop([cjDisk EXCEPT ![j] = rec], gone)
            /\ cjPatch' = CJDropPatches(gone) /\ cjQueue' = Append(cjQueue, j) /\ cjWake' = CJNudged
            /\ UNCHANGED cjFaults
         \/ CJSave(j, rec, FALSE) /\ UNCHANGED <<cjMade, cjRec, cjPatch, cjQueue, cjWake>>
  /\ UNCHANGED <<cjBusy, cjWorker, cjUp>>

\* StopChangeJob of a queued job.
CJStopQueued(j) ==
  /\ cjUp # "down" /\ CJHas(j) /\ cjRec[j].state = "QUEUED"
  /\ LET rec == [cjRec[j] EXCEPT !.state = "STOPPED"]
     IN  cjRec' = [cjRec EXCEPT ![j] = rec] /\ \E ok \in BOOLEAN : CJSave(j, rec, ok)
  /\ cjQueue' = RemoveFirst(cjQueue, j)
  /\ UNCHANGED <<cjPatch, cjMade, cjBusy, cjWorker, cjWake, cjUp>>

\* A running job's context ends: StopChangeJob, or changeJobTime has passed.
CJEndContext(w, how) ==
  /\ cjUp # "down" /\ cjWorker[w].pc \notin {"idle", "asleep", "taken", "clear"} /\ cjWorker[w].ctx = "live"
  /\ cjWorker' = [cjWorker EXCEPT ![w].ctx = how]
  /\ UNCHANGED <<cjRec, cjDisk, cjPatch, cjQueue, cjMade, cjBusy, cjWake, cjUp, cjFaults>>

-----------------------------------------------------------------------------
(* The workers. *)

\* Mutant of CJFree: a project may have two jobs at once.
CJAnyQueued(j) == TRUE

\* next: the project of a queued job has none running.
CJFree(j) == CJProject(cjRec[j].req) \notin cjBusy

\* next: the first queued job whose project is free, if there is one.
CJTakeOr(w, none) ==
  \/ \E i \in DOMAIN cjQueue :
       /\ CJFree(cjQueue[i]) /\ \A k \in 1..(i - 1) : ~CJFree(cjQueue[k])
       /\ cjQueue' = RemoveAt(cjQueue, i)
       /\ cjBusy' = cjBusy \cup {CJProject(cjRec[cjQueue[i]].req)}
       /\ cjWorker' = [cjWorker EXCEPT ![w] = [CJIdle EXCEPT !.pc = "taken", !.id = cjQueue[i], !.project = CJProject(cjRec[cjQueue[i]].req)]]
  \/ /\ \A i \in DOMAIN cjQueue : ~CJFree(cjQueue[i])
     /\ cjWorker' = [cjWorker EXCEPT ![w].pc = none] /\ UNCHANGED <<cjQueue, cjBusy>>

\* work: the worker comes round its loop, and waits when there is nothing to take.
CJTake(w) ==
  /\ cjUp = "up" /\ cjWorker[w].pc = "idle" /\ CJTakeOr(w, "asleep")
  /\ UNCHANGED <<cjRec, cjDisk, cjPatch, cjMade, cjWake, cjUp, cjFaults>>

\* work: a waiting worker takes a token and comes round again.
CJAwake(w) ==
  /\ cjUp = "up" /\ cjWorker[w].pc = "asleep" /\ cjWake > 0 /\ CJTakeOr(w, "asleep")
  /\ cjWake' = cjWake - 1
  /\ UNCHANGED <<cjRec, cjDisk, cjPatch, cjMade, cjUp, cjFaults>>

\* update of worker w's job and of its own position; a failed save is ignored.
CJUpdate(w, rec, mine, ok) ==
  /\ cjRec' = [cjRec EXCEPT ![cjWorker[w].id] = rec] /\ CJSave(cjWorker[w].id, rec, ok)
  /\ cjWorker' = [cjWorker EXCEPT ![w] = mine]
  /\ UNCHANGED <<cjQueue, cjMade, cjBusy, cjWake, cjUp>>

\* The job moves on to a phase; it ends with a state and a reason, its broker
\* closed (the defers of runChange).
CJPhase(w, phase, pc) == CJUpdate(w, cjRec[cjWorker[w].id], [cjWorker[w] EXCEPT !.pc = pc], TRUE) /\ UNCHANGED cjPatch
CJEnd(w, state, reason) ==
  /\ cjWorker' = [cjWorker EXCEPT ![w] = [CJIdle EXCEPT !.pc = "finish", !.id = cjWorker[w].id, !.project = cjWorker[w].project, !.ctx = cjWorker[w].ctx, !.end = state]]
  /\ UNCHANGED <<cjRec, cjDisk, cjPatch, cjQueue, cjMade, cjBusy, cjWake, cjUp, cjFaults>>

\* stopped.
CJStopped(w) == IF cjWorker[w].ctx = "expired" THEN CJEnd(w, "FAILED", "TIMED_OUT") ELSE CJEnd(w, "STOPPED", "STOPPED")

\* What a step that needs the sandbox or the engine ends in when it fails.
CJFailed(w, reason) == IF cjWorker[w].ctx # "live" THEN CJStopped(w) ELSE CJEnd(w, "FAILED", reason)

\* run, its first section.
CJMark(w) ==
  /\ cjUp # "down" /\ cjWorker[w].pc = "taken" /\ CJHas(cjWorker[w].id)
  /\ \E ok \in BOOLEAN :
       CJUpdate(w, [cjRec[cjWorker[w].id] EXCEPT !.state = "RUNNING"],
                [cjWorker[w] EXCEPT !.pc = "prepare", !.ctx = IF cjUp = "up" THEN "live" ELSE "cancelled"], ok)
  /\ UNCHANGED cjPatch

\* runChange up to the baseline: no disk, no copy, no Git directory, nothing
\* found or nothing supported ends the job; the registries' settings are written.
CJPrepare(w) ==
  /\ cjUp # "down" /\ cjWorker[w].pc = "prepare"
  /\ \/ \E reason \in {"SANDBOX_UNAVAILABLE", "SOURCE_REFUSED", "NO_STACK", "UNSUPPORTED_STACK"} : CJEnd(w, "FAILED", reason)
     \/ CJPhase(w, "BASELINE", "baseline")

CJKindOf(w) == CJKind(cjRec[cjWorker[w].id].req)

\* check: what the steps may show of the part.  With the context ended every
\* step is stopped and there is nothing to show.
CJCheck(w) == IF cjWorker[w].ctx = "live" THEN CJChecks(cjRec[cjWorker[w].id].req) ELSE {}

CJBaseline(w) ==
  /\ cjUp # "down" /\ cjWorker[w].pc = "baseline"
  /\ \/ CJFailed(w, "SANDBOX_UNAVAILABLE")
     \/ \E seen \in CJCheck(w) :
          /\ CJUpdate(w, cjRec[cjWorker[w].id],
                      [cjWorker[w] EXCEPT !.before = seen, !.pc = IF CJKindOf(w) = "assess" THEN "moved" ELSE "ready"], TRUE)
          /\ UNCHANGED cjPatch

CJFine(state) == state \in {"PASSED", "SKIPPED"}

\* Mutant of baselineReady: a test job needs no build.
baselineReadyLax(kind, seen) == kind = "migrate" \/ CJFine(seen.install)

\* baselineReady.
baselineReady(kind, seen) ==
  CASE kind = "tests" -> CJFine(seen.install) /\ CJFine(seen.build)
    [] kind = "migrate" -> TRUE
    [] OTHER -> CJFine(seen.install)

\* Mutant of noWorse: fewer passing tests are not looked at.
noWorseUncounted(kind, b, a) ==
  /\ (CJFine(b.install) \/ kind = "migrate") => CJFine(a.install)
  /\ (CJFine(b.build) \/ kind = "migrate") => CJFine(a.build)
  /\ b.test = "PASSED" => a.test = "PASSED"

\* noWorse, for the part the agent works on.
noWorse(kind, b, a) ==
  /\ (CJFine(b.install) \/ kind = "migrate") => CJFine(a.install)
  /\ (CJFine(b.build) \/ kind = "migrate") => CJFine(a.build)
  /\ kind = "migrate" /\ ~b.tests.known /\ b.test # "PASSED" => CJFine(a.test)
  /\ b.test = "PASSED" => a.test = "PASSED"
  /\ b.tests.known => a.tests.known /\ a.tests.passed >= b.tests.passed /\ a.tests.failed <= b.tests.failed
  /\ kind = "tests" => a.tests.known /\ a.tests.passed > b.tests.passed /\ a.tests.failed <= b.tests.failed

\* The agent may start: openBroker and the MCP file, or an end.
CJReady(w) ==
  /\ cjUp # "down" /\ cjWorker[w].pc = "ready"
  /\ \/ /\ CJKindOf(w) # "assess" /\ ~baselineReady(CJKindOf(w), cjWorker[w].before)
        /\ CJEnd(w, "NOT_HANDED_BACK", "BASELINE_FAILED")
     \/ /\ CJKindOf(w) = "assess" \/ baselineReady(CJKindOf(w), cjWorker[w].before)
        /\ \/ CJFailed(w, "SANDBOX_UNAVAILABLE")
           \/ /\ cjWorker[w].ctx = "live"
              /\ CJUpdate(w, cjRec[cjWorker[w].id],
                          [cjWorker[w] EXCEPT !.pc = "agent", !.broker = "open"], TRUE)
              /\ UNCHANGED cjPatch

\* assess, its first half: the parts the targets move are checked again on a
\* copy of the source.
CJAssess(w) ==
  /\ cjUp # "down" /\ cjWorker[w].pc = "moved"
  /\ \/ CJPhase(w, "AGENT", "ready")
     \/ CJEnd(w, "FAILED", "SANDBOX_UNAVAILABLE")
     \/ CJFailed(w, "SANDBOX_UNAVAILABLE")
     \/ /\ CJCheck(w) # {}
        /\ CJUpdate(w, cjRec[cjWorker[w].id], [cjWorker[w] EXCEPT !.pc = "ready"], TRUE)
        /\ UNCHANGED cjPatch

\* broker.run: one command at a time and at most CJCommands, while the broker is
\* open and the job's context lives; a container that cannot be opened counts none.
CJCommand(w) ==
  /\ cjUp # "down" /\ cjWorker[w].broker = "open" /\ cjWorker[w].ctx = "live" /\ cjWorker[w].commands < CJCommands
  /\ cjWorker' = [cjWorker EXCEPT ![w].commands = @ + 1]
  /\ UNCHANGED <<cjRec, cjDisk, cjPatch, cjQueue, cjMade, cjBusy, cjWake, cjUp, cjFaults>>

\* The agent's session: it may leave the files as they were, and its summary
\* may have carried a secret (recordAgent, which masks it).  What it changed is
\* read after the review.
CJAgent(w) ==
  /\ cjUp # "down" /\ cjWorker[w].pc = "agent" /\ CJKindOf(w) # "assess"
  /\ \/ CJFailed(w, "ENGINE_UNAVAILABLE")
     \/ CJEnd(w, "FAILED", "SANDBOX_UNAVAILABLE")
     \/ CJEnd(w, "NOT_HANDED_BACK", "NO_CHANGE")
     \/ \E leaked \in BOOLEAN :
          CJUpdate(w, cjRec[cjWorker[w].id], [cjWorker[w] EXCEPT !.pc = "review", !.leaked = leaked], TRUE)
          /\ UNCHANGED cjPatch

\* assess, its second half: the agent's answer is the plan, the broker closes.
CJPlan(w) ==
  /\ cjUp # "down" /\ cjWorker[w].pc = "agent" /\ CJKindOf(w) = "assess"
  /\ \/ CJFailed(w, "ENGINE_UNAVAILABLE")
     \/ CJEnd(w, "NOT_HANDED_BACK", "SECRET_IN_CHANGE")
     \/ CJEnd(w, "NOT_HANDED_BACK", "NO_PLAN")
     \/ CJEnd(w, "ASSESSED", "")

\* The review session may correct the change; then the broker closes.
CJReview(w) ==
  /\ cjUp # "down" /\ cjWorker[w].pc = "review"
  /\ \/ CJFailed(w, "ENGINE_UNAVAILABLE")
     \/ \E left \in CJWork, leaked \in BOOLEAN :
          CJUpdate(w, cjRec[cjWorker[w].id],
                   [cjWorker[w] EXCEPT !.pc = "result", !.left = left, !.leaked = @ \/ leaked, !.broker = "closed"], TRUE)
          /\ UNCHANGED cjPatch

\* Mutant of makeResult: a forbidden path is not looked for.
makeResultAnyPath(left) ==
  CASE left = "none" -> "NO_CHANGE" [] left = "large" -> "TOO_LARGE" [] OTHER -> ""

\* makeResult: the reason a change cannot be handed back, "" when it can.
makeResult(left) ==
  CASE left = "none" -> "NO_CHANGE" [] left = "large" -> "TOO_LARGE" [] left = "forbidden" -> "FORBIDDEN_PATH" [] OTHER -> ""

\* The result is made before the checks after write anything; a secret in it or
\* in what the agent said ends the job.
CJResult(w) ==
  /\ cjUp # "down" /\ cjWorker[w].pc = "result"
  /\ LET left == cjWorker[w].left IN
     \/ CJEnd(w, "FAILED", "SANDBOX_UNAVAILABLE")
     \/ makeResult(left) # "" /\ CJEnd(w, "NOT_HANDED_BACK", makeResult(left))
     \/ makeResult(left) = "" /\ (cjWorker[w].leaked \/ left = "secret") /\ CJEnd(w, "NOT_HANDED_BACK", "SECRET_IN_CHANGE")
     \/ /\ makeResult(left) = "" /\ ~cjWorker[w].leaked /\ left # "secret"
        /\ CJPhase(w, "CHECKING", IF CJKindOf(w) = "fix" THEN "proof" ELSE "after")

\* prove: a fix's tests on the code before the change are shown, never required.
CJProve(w) ==
  /\ cjUp # "down" /\ cjWorker[w].pc = "proof"
  /\ \/ cjWorker[w].ctx # "live" /\ CJStopped(w)
     \/ cjWorker[w].ctx = "live" /\ CJPhase(w, "CHECKING", "after")

\* The checks after, on the changed files.
CJAfter(w) ==
  /\ cjUp # "down" /\ cjWorker[w].pc = "after"
  /\ \/ CJFailed(w, "SANDBOX_UNAVAILABLE")
     \/ \E seen \in CJCheck(w) :
          /\ CJUpdate(w, cjRec[cjWorker[w].id], [cjWorker[w] EXCEPT !.pc = "compare", !.after = seen], TRUE)
          /\ UNCHANGED cjPatch

\* The patch is written, then the result is shown; a worse change is not.
CJHandBack(w) ==
  /\ cjUp # "down" /\ cjWorker[w].pc = "compare"
  /\ LET j == cjWorker[w].id IN
     \/ ~noWorse(CJKindOf(w), cjWorker[w].before, cjWorker[w].after) /\ CJEnd(w, "NOT_HANDED_BACK", "WORSE_AFTER")
     \/ /\ noWorse(CJKindOf(w), cjWorker[w].before, cjWorker[w].after)
        /\ \/ CJEnd(w, "FAILED", "SANDBOX_UNAVAILABLE")
           \/ /\ cjPatch' = [cjPatch EXCEPT ![j] = cjWorker[w].left]
              /\ CJUpdate(w, [cjRec[j] EXCEPT !.result = [patch |-> cjWorker[w].left, before |-> cjWorker[w].before, after |-> cjWorker[w].after]],
                          [CJIdle EXCEPT !.pc = "finish", !.id = j, !.project = cjWorker[w].project, !.ctx = cjWorker[w].ctx, !.end = "HANDED_BACK"], TRUE)

\* run, its last update: a deadline overrides every end but the ones that stand.
CJFinish(w) ==
  /\ cjUp # "down" /\ cjWorker[w].pc = "finish"
  /\ LET end == IF cjWorker[w].ctx = "expired" /\ cjWorker[w].end \notin {"HANDED_BACK", "NOT_HANDED_BACK", "ASSESSED"}
                THEN "FAILED" ELSE cjWorker[w].end
         rec == [cjRec[cjWorker[w].id] EXCEPT !.state = end]
     IN  \E ok \in BOOLEAN : CJUpdate(w, rec, [CJIdle EXCEPT !.pc = "clear", !.project = cjWorker[w].project], ok)
  /\ UNCHANGED cjPatch

\* Mutant of CJClear: the other worker is not woken when a project is free again.
CJClearSilently(w) ==
  /\ cjUp # "down" /\ cjWorker[w].pc = "clear"
  /\ cjBusy' = cjBusy \ {cjWorker[w].project} /\ cjWorker' = [cjWorker EXCEPT ![w] = [CJIdle EXCEPT !.pc = "asleep"]]
  /\ UNCHANGED <<cjRec, cjDisk, cjPatch, cjQueue, cjMade, cjWake, cjUp, cjFaults>>

\* run, its last section, and work's nudge.
CJClear(w) ==
  /\ cjUp # "down" /\ cjWorker[w].pc = "clear"
  /\ cjBusy' = cjBusy \ {cjWorker[w].project} /\ cjWorker' = [cjWorker EXCEPT ![w] = CJIdle]
  /\ cjWake' = CJNudged
  /\ UNCHANGED <<cjRec, cjDisk, cjPatch, cjQueue, cjMade, cjUp, cjFaults>>

-----------------------------------------------------------------------------
(* The service. *)

\* Close.
CJClose ==
  /\ cjUp = "up" /\ cjUp' = "closing"
  /\ cjWorker' = [w \in CJWorkers |-> IF cjWorker[w].pc \in {"idle", "asleep", "taken"} \/ cjWorker[w].ctx # "live"
                                      THEN cjWorker[w] ELSE [cjWorker[w] EXCEPT !.ctx = "cancelled"]]
  /\ UNCHANGED <<cjRec, cjDisk, cjPatch, cjQueue, cjMade, cjBusy, cjWake, cjFaults>>

\* The process ends: closed, crashed, or on the nil record of a pruned job.
CJDown ==
  /\ cjUp # "down"
  /\ \/ cjUp = "closing" /\ (\A w \in CJWorkers : cjWorker[w].pc \in {"idle", "asleep"}) /\ UNCHANGED cjFaults
     \/ (\E w \in CJWorkers : cjWorker[w].pc = "taken" /\ ~CJHas(cjWorker[w].id)) /\ UNCHANGED cjFaults
     \/ cjFaults < CJMaxFaults /\ cjFaults' = cjFaults + 1
  /\ cjUp' = "down" /\ cjWorker' = [w \in CJWorkers |-> [CJIdle EXCEPT !.pc = "asleep"]] /\ cjQueue' = <<>> /\ cjBusy' = {} /\ cjWake' = 0
  /\ cjRec' = [j \in CJJobs |-> CJNone]
  /\ UNCHANGED <<cjDisk, cjPatch, cjMade>>

\* load.
CJLoad ==
  /\ cjUp = "down" /\ cjUp' = "up"
  /\ LET told == [j \in CJJobs |-> IF cjDisk[j].state \in CJActive THEN [cjDisk[j] EXCEPT !.state = "UNKNOWN"] ELSE cjDisk[j]]
         gone == CJPruned(told)
     IN  cjRec' = CJDrop(told, gone) /\ cjDisk' = CJDrop(told, gone) /\ cjPatch' = CJDropPatches(gone)
  /\ UNCHANGED <<cjQueue, cjMade, cjBusy, cjWorker, cjWake, cjFaults>>

CJWorkerStep(w) ==
  \/ CJTake(w) \/ CJAwake(w) \/ CJMark(w) \/ CJPrepare(w) \/ CJBaseline(w) \/ CJAssess(w) \/ CJReady(w)
  \/ CJAgent(w) \/ CJPlan(w) \/ CJReview(w) \/ CJResult(w) \/ CJProve(w) \/ CJAfter(w) \/ CJHandBack(w) \/ CJFinish(w) \/ CJClear(w)

CJNext ==
  \/ \E r \in CJRequests : CJStart(r)
  \/ \E j \in CJJobs : CJStopQueued(j)
  \/ \E w \in CJWorkers : CJWorkerStep(w) \/ CJCommand(w) \/ \E how \in {"cancelled", "expired"} : CJEndContext(w, how)
  \/ CJClose \/ CJDown \/ CJLoad

\* The workers' goroutines keep running while the process is up.
CJFairness == \A w \in CJWorkers : WF_cjVars(CJWorkerStep(w))
CJSpec == CJInit /\ [][CJNext]_cjVars /\ CJFairness

-----------------------------------------------------------------------------
CJTypeOK ==
  /\ \A j \in CJJobs : cjRec[j] = CJNone \/ cjRec[j].state \in CJActive \cup CJEnded
  /\ cjPatch \in [CJJobs -> CJWork] /\ cjQueue \in Seq(CJJobs) /\ cjBusy \subseteq {CJProject(r) : r \in CJRequests}
  /\ cjWake \in 0..Cardinality(CJWorkers) /\ cjUp \in {"up", "closing", "down"}

\* A job is handed back only with the patch its record names, and that patch is
\* a change, of no forbidden path, with no secret, made on a baseline that was
\* ready and no worse after (runChange); a restart and pruning keep it so.
CJHandedBackIsSound == \A j \in CJJobs : \A rec \in {cjRec[j], cjDisk[j]} :
  rec.state = "HANDED_BACK" =>
    /\ rec.result.patch = "clean" /\ cjPatch[j] = rec.result.patch
    /\ CJKind(rec.req) # "assess"
    /\ CJKind(rec.req) = "tests" => rec.result.after.tests.passed > rec.result.before.tests.passed /\ CJFine(rec.result.before.build)
    /\ rec.result.before.tests.known => rec.result.after.tests.passed >= rec.result.before.tests.passed
    /\ CJFine(rec.result.before.install) => CJFine(rec.result.after.install)

\* "at most two at once and one per project" (ChangeManager): no two workers have
\* jobs of one project, and a project is busy exactly while one has.
CJOnePerProject ==
  /\ \A v, w \in CJWorkers : v # w /\ cjWorker[v].project # "" => cjWorker[v].project # cjWorker[w].project
  /\ cjBusy = {cjWorker[w].project : w \in CJWorkers} \ {""}

\* A queued job is taken and ends while the service stays up, whoever held its
\* project (next, nudge).
CJQueuedEnds == \A j \in CJJobs :
  (cjRec[j].state = "QUEUED") ~> cjRec[j].state \notin CJActive \/ cjUp # "up"

\* What is handed back is sound, and the projects are worked on one job at a time.
CJSound == CJTypeOK /\ CJHandedBackIsSound /\ CJOnePerProject
=============================================================================
