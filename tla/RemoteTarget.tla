------------------------------ MODULE RemoteTarget ------------------------------
(***************************************************************************)
(* internal/remotetarget: one server that ABCP deploys to.  The record of  *)
(* the target (its sites, releases and backups), the plans and the         *)
(* operations are files, written one after another under one mutex; an     *)
(* operation is a goroutine that runs scripts on the server step by step,  *)
(* one operation at a time (busy), and takes the mutex for each write.     *)
(*                                                                         *)
(* RTNode is the site that is an app with data; the others are static.     *)
(* What a release needs of the data is RTForm; data converted for another  *)
(* release has another form, and data no app has started on has none yet.  *)
(* A script that fails has done nothing, or has done its work and only its *)
(* answer is lost: an ssh session that times out, an output that does not  *)
(* parse, a query that fails after what came before it was committed.      *)
(***************************************************************************)
EXTENDS Naturals, Sequences, FiniteSets

CONSTANTS RTSites, RTNode, RTReleases, RTReleasesOf(_), RTForm(_), RTRequests, RTKept, RTMaxFaults

ASSUME RTAssumption ==
  /\ RTNode \in RTSites /\ "none" \notin RTReleases /\ \A d \in RTReleases : RTForm(d) \notin {"none", "new"}
  /\ {RTKept, RTMaxFaults} \cup RTRequests \subseteq Nat /\ 0 \notin {RTKept} \cup RTRequests

VARIABLES rtSite,     \* the record's sites: [state, release, op]
          rtRel,      \* the record's releases
          rtData,     \* the record has the app's database
          rtBackups,  \* the record's backups of it, oldest first: [id, rel, form]
          rtPlan,     \* the plan last made: [site, rel, replaces, kind, backup, applied]
          rtOps,      \* operations by request: none, queued or running, ended, unknown
          rtRun,      \* the running operation: [q, todo, taken, ...]
          rtSrv,      \* the server: [rel, link, app, data, prev, files], files of the backups
          rtUp, rtTold, rtRuns, rtFaults,
          rtStray,    \* history: a plan was applied to a site that was removed since it was made
          rtLost      \* history: the steps whose script took effect and was answered as failed

rtVars == <<rtSite, rtRel, rtData, rtBackups, rtPlan, rtOps, rtRun, rtSrv, rtUp, rtTold, rtRuns, rtFaults, rtStray, rtLost>>

RTNoSite == [state |-> "absent", release |-> "none", op |-> 0]
RTNoPlan == [site |-> "none", rel |-> "none", replaces |-> "none", kind |-> "none", backup |-> 0, applied |-> TRUE]
RTIdle == [q |-> 0]
RTNoServer == [rel |-> {}, link |-> [s \in RTSites |-> "none"], app |-> "none", data |-> "none", prev |-> "none", files |-> {}]

RTInit ==
  /\ rtSite = [s \in RTSites |-> RTNoSite] /\ rtRel = {} /\ rtData = FALSE /\ rtBackups = <<>> /\ rtPlan = RTNoPlan
  /\ rtOps = [q \in RTRequests |-> "none"] /\ rtRun = RTIdle /\ rtSrv = RTNoServer
  /\ rtUp = TRUE /\ rtTold = FALSE /\ rtRuns = 0 /\ rtFaults = 0 /\ rtStray = FALSE /\ rtLost = {}

RTBusy == rtRun # RTIdle
\* served: its link is on the server and it is not being removed.
RTServed(s) == rtSite[s].release # "none" /\ rtSite[s].state # "removing"
RTRuns(s) == RTServed(s) /\ rtSite[s].state # "stopped"
RTBackup(id) == {i \in DOMAIN rtBackups : rtBackups[i].id = id}
\* operationByRequest: a request that has its operation is answered with it, so
\* every operation is of a new request; requests are numbered as they come.
RTNewRequest(q) == rtOps[q] = "none" /\ \A o \in RTRequests : o < q => rtOps[o] # "none"
RTFault == rtFaults < RTMaxFaults /\ rtFaults' = rtFaults + 1

-----------------------------------------------------------------------------
(* Plans. *)

\* The steps of each operation, in order: nodeSteps and a static site's,
\* convertSteps, startFromSteps, restoreSteps, and what the run functions do.
RTApplySteps(s, replaces) ==
  IF s # RTNode THEN <<"send", "switch", "door", "check", "prune">>
  ELSE <<"send", "make">> \o (IF replaces # "none" THEN <<"back_up">> ELSE <<>>) \o <<"switch", "start", "health", "door", "check", "prune">>
RTConvertSteps == <<"send", "make", "stop", "back_up", "convert", "switch", "start", "health", "door", "check", "prune">>
RTStartFromSteps == <<"send", "make", "stop", "back_up", "restore_data", "switch", "start", "health", "door", "check", "clean_up", "prune">>
RTRestoreSteps == <<"back_up", "copy", "stop", "switch_data", "start", "health", "check", "clean_up">>
RTRemoveSteps(s) == (IF s = RTNode THEN <<"stop">> ELSE <<>>) \o <<"unlink", "door", "prune">>
RTStopSteps == <<"stop", "door">>
RTStartSteps == <<"start", "health", "door", "check">>
RTNightlySteps == <<"back_up", "copy", "read_server">>
RTRemoveDataSteps == <<"drop", "remove_backups">>
RTCleanSteps == <<"remove_volume", "remove_files">>
RTCheckSiteSteps == <<"check">>
RTSteps(kind, s, replaces) ==
  CASE kind = "apply" -> RTApplySteps(s, replaces)
    [] kind = "convert" -> RTConvertSteps
    [] kind = "start_from" -> RTStartFromSteps
    [] kind = "restore" -> RTRestoreSteps
    [] kind = "remove" -> RTRemoveSteps(s)
    [] kind = "stop" -> RTStopSteps
    [] kind = "start" -> RTStartSteps
    [] kind = "backup" -> <<"back_up">>
    [] kind = "check_backup" -> <<"copy">>
    [] kind = "nightly" -> RTNightlySteps
    [] kind = "remove_data" -> RTRemoveDataSteps
    [] kind = "clean" -> RTCleanSteps
    [] kind = "check_site" -> RTCheckSiteSteps
    [] kind = "relay" -> <<"door">>
    [] kind = "drift" -> <<"read_server">>

\* CreatePlan, for a release.
RTCreatePlan(s, d, kind, id) ==
  LET was == rtSite[s].release
      replaces == IF was = d THEN "none" ELSE was
  IN  /\ rtUp
      /\ CASE kind = "apply" -> id = 0
           [] kind = "convert" -> id = 0 /\ s = RTNode /\ replaces # "none" /\ rtData /\ rtSite[s].state # "stopped" /\ RTForm(d) # RTForm(was)
           [] kind = "start_from" -> /\ s = RTNode /\ replaces # "none" /\ rtData /\ rtSite[s].state # "stopped"
                                     /\ \E i \in RTBackup(id) : rtBackups[i].rel = d
      /\ rtPlan' = [site |-> s, rel |-> d, replaces |-> replaces, kind |-> kind, backup |-> id, applied |-> FALSE]
      /\ rtRuns' = 0
      /\ UNCHANGED <<rtSite, rtRel, rtData, rtBackups, rtOps, rtRun, rtSrv, rtUp, rtTold, rtFaults, rtStray, rtLost>>
\* createRestorePlan: a running app with its data, and a backup that is kept.
RTCreateRestorePlan(id) ==
  /\ rtUp /\ RTRuns(RTNode) /\ rtData /\ RTBackup(id) # {}
  /\ rtPlan' = [site |-> RTNode, rel |-> rtSite[RTNode].release, replaces |-> "none", kind |-> "restore", backup |-> id, applied |-> FALSE]
  /\ rtRuns' = 0
  /\ UNCHANGED <<rtSite, rtRel, rtData, rtBackups, rtOps, rtRun, rtSrv, rtUp, rtTold, rtFaults, rtStray, rtLost>>

\* Mutant of RTStale: an applied plan is not stale.
RTStaleUnapplied ==
  rtSite[rtPlan.site].state # "absent" /\ rtSite[rtPlan.site].release # rtPlan.replaces
  /\ ~(rtPlan.replaces = "none" /\ rtSite[rtPlan.site].release = rtPlan.rel)

\* Apply's checks, with restoreStale and startFromStale: a plan is applied once,
\* to the site it was made for, as that site was.
RTStale ==
  \/ rtPlan.applied
  \/ /\ rtSite[rtPlan.site].state # "absent" /\ rtSite[rtPlan.site].release # rtPlan.replaces
     /\ ~(rtPlan.replaces = "none" /\ rtSite[rtPlan.site].release = rtPlan.rel)
  \/ rtPlan.kind = "restore" /\ (~RTRuns(RTNode) \/ ~rtData \/ rtSite[RTNode].release # rtPlan.rel \/ RTBackup(rtPlan.backup) = {})
  \/ rtPlan.kind = "convert" /\ rtSite[RTNode].state = "stopped"
  \/ rtPlan.kind = "start_from" /\ (~rtData \/ rtSite[RTNode].state = "stopped" \/ RTBackup(rtPlan.backup) = {})

\* The owner's part: a plain update is of a release that the data fits, and that
\* leaves it fit for the one it replaces; a restore is of a backup that fits.
RTOwnerMeans ==
  /\ rtPlan.kind = "apply" /\ rtPlan.site = RTNode /\ rtData => rtSrv.data \in {"none", "new", RTForm(rtPlan.rel)} /\ (rtPlan.replaces # "none" => RTForm(rtPlan.replaces) = RTForm(rtPlan.rel))
  /\ rtPlan.kind = "restore" => \A i \in RTBackup(rtPlan.backup) : rtBackups[i].form \in {"new", RTForm(rtPlan.rel)}
RTBegin(q, kind, s, rel, replaces, id) ==
  [q |-> q, kind |-> kind, site |-> s, rel |-> rel, replaces |-> replaces, backup |-> id, taken |-> 0, paused |-> FALSE, failed |-> FALSE,
   todo |-> <<"open">> \o RTSteps(kind, s, replaces)]

\* Apply: the operation, the plan and the target are written in turn; when a
\* later write fails, the ones before it stay and nothing runs.
RTApply(q) ==
  /\ rtUp /\ ~RTBusy /\ RTNewRequest(q) /\ rtPlan # RTNoPlan /\ ~RTStale /\ RTOwnerMeans
  /\ LET p == rtPlan IN \E written \in 1..3 :
     /\ IF written < 3 THEN RTFault ELSE UNCHANGED rtFaults
     /\ rtOps' = [rtOps EXCEPT ![q] = "queued"]
     /\ rtPlan' = [p EXCEPT !.applied = written > 1]
     /\ rtStray' = (rtStray \/ (p.replaces # "none" /\ rtSite[p.site].state = "absent"))
     /\ IF written = 3
        THEN /\ rtSite' = [rtSite EXCEPT ![p.site] = [state |-> "deploying", release |-> @.release, op |-> q]]
             /\ rtRun' = RTBegin(q, p.kind, p.site, p.rel, p.replaces, p.backup) /\ rtRuns' = rtRuns + 1
        ELSE UNCHANGED <<rtSite, rtRun, rtRuns>>
  /\ UNCHANGED <<rtRel, rtData, rtBackups, rtSrv, rtUp, rtTold, rtLost>>

-----------------------------------------------------------------------------
(* The other operations: lifecycleTarget, then startLifecycle.             *)

RTMayRemove(s) == rtSite[s].state # "absent"
RTMayStartStop(kind, s) == s = RTNode /\ RTServed(s) /\ (rtSite[s].state = "stopped") = (kind = "start")
RTMayBackUp(s) == s = RTNode /\ rtData
RTMayCheckBackup(s) == s = RTNode /\ rtData /\ rtBackups # <<>>
\* startNightly: a stopped app's data cannot change, so it is not backed up again.
RTMayNightly(s) == s = RTNode /\ RTRuns(s) /\ rtData
RTMayRemoveData(s) == s = RTNode /\ rtData /\ rtSite[s].state = "absent"
RTMayClean(s) == s = RTNode /\ ~rtData /\ \A o \in RTSites : rtSite[o].state = "absent"
\* A site left unknown is the drift check's to reconcile.
RTMayCheckSite(s) == RTServed(s) /\ rtSite[s].state \in {"live", "failed"}
RTMayRelay(s) == RTServed(s)
RTMay(kind, s) ==
  CASE kind = "remove" -> RTMayRemove(s)
    [] kind \in {"stop", "start"} -> RTMayStartStop(kind, s)
    [] kind = "backup" -> RTMayBackUp(s)
    [] kind = "check_backup" -> RTMayCheckBackup(s)
    [] kind = "nightly" -> RTMayNightly(s)
    [] kind = "remove_data" -> RTMayRemoveData(s)
    [] kind = "clean" -> RTMayClean(s)
    [] kind = "check_site" -> RTMayCheckSite(s)
    [] kind = "relay" -> RTMayRelay(s)
    [] kind = "drift" -> s = RTNode
\* The state an operation gives its site as it starts, and "" when it leaves it.
RTMarks(kind) == CASE kind = "remove" -> "removing" [] kind = "stop" -> "stopped" [] kind = "start" -> "deploying" [] OTHER -> ""
RTKinds == {"remove", "stop", "start", "backup", "check_backup", "nightly", "remove_data", "clean", "check_site", "relay", "drift"}

RTSubmit(q) ==
  /\ rtUp /\ ~RTBusy /\ RTNewRequest(q)
  /\ rtOps' = [rtOps EXCEPT ![q] = "queued"]
  /\ \E kind \in RTKinds, s \in RTSites : RTMay(kind, s) /\
     \/ /\ rtRun' = RTBegin(q, kind, s, rtSite[s].release, "none", 0) /\ UNCHANGED rtFaults
        /\ rtSite' = IF RTMarks(kind) = "" THEN rtSite ELSE [rtSite EXCEPT ![s] = [@ EXCEPT !.state = RTMarks(kind), !.op = q]]
     \/ RTMarks(kind) # "" /\ RTFault /\ UNCHANGED <<rtRun, rtSite>>
  /\ UNCHANGED <<rtRel, rtData, rtBackups, rtPlan, rtSrv, rtUp, rtTold, rtRuns, rtStray, rtLost>>

-----------------------------------------------------------------------------
(* The steps: what a script does to the server.                            *)

RTStep == Head(rtRun.todo)
RTForms(id) == {rtBackups[i].form : i \in RTBackup(id)}

\* sendRelease: received beside the others, checked file by file, then moved into
\* place, unless it is there already.
RTSent(v) == [v EXCEPT !.rel = @ \cup {rtRun.rel}]
\* switchDatabaseScript, in a restore or by restoreData: today's database is kept
\* beside the one that replaces it.
RTSwapped(v) == [v EXCEPT !.prev = v.data, !.data = CHOOSE f \in RTForms(rtRun.backup) : TRUE]

\* startApp: the app runs the release its link names, and makes new data its own.
RTStarted(v, d) == [v EXCEPT !.app = d, !.data = IF @ = "new" /\ d # "none" THEN RTForm(d) ELSE @]

\* Mutant of RTPruned: the sites of the record are not looked at.
RTPrunedAll == rtRel \ {rtRun.rel}

\* pruneReleases: the record's releases that no site of the record uses.
RTPruned == {d \in rtRel : \A s \in RTSites : (rtRun.kind = "remove" /\ s = rtRun.site) \/ rtSite[s].release # d}

RTEffect(v) ==
  LET r == rtRun IN
  CASE RTStep = "send" -> RTSent(v)
    [] RTStep = "make" -> [v EXCEPT !.data = IF @ = "none" THEN "new" ELSE @]
    [] RTStep = "stop" -> [v EXCEPT !.app = "none"]
    [] RTStep = "back_up" -> [v EXCEPT !.files = @ \cup {r.q}]
    [] RTStep = "convert" -> [v EXCEPT !.data = RTForm(r.rel)]
    [] RTStep \in {"restore_data", "switch_data"} -> RTSwapped(v)
    [] RTStep = "switch" -> [v EXCEPT !.link[r.site] = r.rel]
    [] RTStep = "start" -> RTStarted(v, v.link[r.site])
    [] RTStep = "clean_up" -> [v EXCEPT !.prev = "none"]
    [] RTStep = "unlink" -> [v EXCEPT !.link[r.site] = "none"]
    [] RTStep \in {"drop", "remove_volume"} -> [v EXCEPT !.data = "none", !.prev = "none"]
    [] RTStep = "remove_backups" -> [v EXCEPT !.files = {}]
    [] RTStep = "remove_files" -> [v EXCEPT !.rel = {}, !.link = RTNoServer.link, !.files = {}]
    [] RTStep = "prune" -> [v EXCEPT !.rel = @ \ RTPruned]
    [] OTHER -> v
\* What a script needs: data to dump, a backup that is kept and its file.
RTCan ==
  /\ RTStep = "back_up" => rtSrv.data # "none"
  /\ RTStep \in {"restore_data", "switch_data"} => RTForms(rtRun.backup) # {}
  /\ RTStep = "restore_data" \/ (RTStep = "copy" /\ rtRun.kind = "restore") => rtRun.backup \in rtSrv.files

\* Mutant of RTPruneList: the backup a restore needs is not kept.
RTPruneListNone(seq, keep) == SubSeq(seq, IF Len(seq) > RTKept THEN Len(seq) - RTKept + 1 ELSE 1, Len(seq))

\* pruneBackupList: the newest stays, and the one named keep; RTKept stand for
\* the days and the number that are kept.
RTPruneList(seq, keep) ==
  LET old == Len(seq) - RTKept IN
  SelectSeq(seq, LAMBDA b : b.id = keep \/ \E i \in DOMAIN seq : seq[i] = b /\ i > old)

\* backUp: dumped, recorded under an id of its own and pruned.  Only a restore
\* names the one to keep.
RTBackedUp ==
  LET id == rtRun.q
      rel == IF rtRun.kind \in {"apply", "convert", "start_from"} THEN rtRun.replaces ELSE rtSite[RTNode].release
  IN  /\ rtBackups' = RTPruneList(Append(rtBackups, [id |-> id, rel |-> rel, form |-> rtSrv.data]), IF rtRun.kind = "restore" THEN rtRun.backup ELSE 0)
      /\ rtSrv' = [rtSrv EXCEPT !.files = {rtBackups'[i].id : i \in DOMAIN rtBackups'}]
      /\ rtRun' = [rtRun EXCEPT !.todo = Tail(@), !.taken = id]

\* compare: a site left unknown takes the release its link names, when ABCP
\* keeps it, it is there and, for an app, the container runs.
RTReconciled ==
  [s \in RTSites |->
     LET d == rtSrv.link[s] IN
     IF rtSite[s].state = "unknown" /\ d \in rtRel \cap rtSrv.rel /\ (s = RTNode => rtSrv.app # "none")
     THEN [rtSite[s] EXCEPT !.release = d, !.state = "live"] ELSE rtSite[s]]

\* What a step that succeeded records, and the next one.
RTStepDone ==
  LET r == rtRun
      next == rtRun' = [r EXCEPT !.todo = Tail(@)]
  IN
  /\ RTBusy /\ rtUp /\ r.todo # <<>> /\ RTCan
  /\ CASE RTStep = "prune" ->
            /\ \/ rtRel' = rtRel \ RTPruned /\ rtSrv' = RTEffect(rtSrv) /\ UNCHANGED rtFaults
               \/ RTPruned # {} /\ RTFault /\ rtSrv' \in {rtSrv, RTEffect(rtSrv)} /\ UNCHANGED rtRel
            /\ next /\ UNCHANGED <<rtSite, rtData, rtBackups>>
       [] RTStep = "back_up" -> RTBackedUp /\ UNCHANGED <<rtSite, rtRel, rtData, rtFaults>>
       [] RTStep = "read_server" -> rtSite' = RTReconciled /\ next /\ UNCHANGED <<rtRel, rtData, rtBackups, rtSrv, rtFaults>>
       [] OTHER ->
            /\ rtSrv' = RTEffect(rtSrv) /\ next /\ UNCHANGED rtFaults
            /\ rtRel' = CASE RTStep = "send" -> rtRel \cup {r.rel} [] RTStep = "remove_files" -> {} [] OTHER -> rtRel
            /\ rtData' = CASE RTStep = "make" -> TRUE [] RTStep = "remove_backups" -> FALSE [] OTHER -> rtData
            /\ rtBackups' = IF RTStep = "remove_backups" THEN <<>> ELSE rtBackups
            /\ rtSite' = CASE RTStep = "switch" -> [rtSite EXCEPT ![r.site].release = r.rel]
                           [] RTStep = "check" /\ r.kind = "check_site" /\ rtSite[r.site].state = "failed" /\ rtSite[r.site].release = r.rel
                                -> [rtSite EXCEPT ![r.site].state = "live"]
                           [] OTHER -> rtSite
  /\ UNCHANGED <<rtPlan, rtOps, rtUp, rtTold, rtRuns, rtStray, rtLost>>

-----------------------------------------------------------------------------
(* A step that fails: what it undoes.                                      *)

\* again: the app that ran is started on the data it had.
RTAgain(v) == RTStarted(v, v.link[RTNode])
\* unConvert, unStartFrom: the data comes back from the backup just taken, or
\* from the database that was replaced.
RTPutBack(v) ==
  IF rtRun.kind = "convert" THEN [v EXCEPT !.app = "none", !.data = IF RTForms(rtRun.taken) = {} THEN @ ELSE CHOOSE f \in RTForms(rtRun.taken) : TRUE, !.prev = "none"]
  ELSE [v EXCEPT !.app = "none", !.data = v.prev, !.prev = "none"]

\* Mutant of RTRollBack: the release is put back without starting it on the old link.
RTRollBackUnlinked(v) == IF rtRun.replaces = "none" THEN [v EXCEPT !.app = "none"] ELSE RTStarted(v, v.link[rtRun.site])

\* rollBack: the release it replaced is linked and started, or the new app stopped.
RTRollBack(v) ==
  IF rtRun.replaces = "none" THEN [v EXCEPT !.app = "none"]
  ELSE IF rtRun.replaces \notin v.rel THEN v
  ELSE RTStarted([v EXCEPT !.link[rtRun.site] = rtRun.replaces], rtRun.replaces)
\* unRestore: the databases are swapped back and the app started.
RTUnRestore(v) == RTStarted([v EXCEPT !.data = v.prev, !.prev = "none"], v.link[RTNode])

RTConverts == rtRun.kind \in {"convert", "start_from"}
\* The compensation of the step that failed: the server, and whether the record's
\* site goes back to the release it had.
RTCompensated(v) ==
  CASE RTConverts /\ RTStep \in {"stop", "back_up", "convert", "restore_data"} -> RTAgain(v)
    [] RTConverts /\ RTStep \in {"switch", "start", "health"} -> RTRollBack(RTPutBack(v))
    [] rtRun.kind = "apply" /\ RTStep = "health" -> RTRollBack(v)
    [] rtRun.kind = "restore" /\ RTStep \in {"stop", "switch_data"} -> RTAgain(v)
    [] rtRun.kind = "restore" /\ RTStep \in {"start", "health"} -> RTUnRestore(v)
    [] rtRun.kind = "start" /\ RTStep = "health" -> [v EXCEPT !.app = "none"]
    [] OTHER -> v
RTGoesBack ==
  /\ rtRun.replaces \in rtSrv.rel
  /\ \/ RTConverts /\ RTStep \in {"switch", "start", "health"}
     \/ rtRun.kind = "apply" /\ RTStep = "health"

\* waitHealth and checkSite: an app may never answer, and a name may not point
\* here yet; a backup's copy may hold other rows.
RTMayDisappoint == {"health", "check", "copy"}
\* What the operations take to have done nothing when it is answered as failed.
RTTakenBack == {"convert", "restore_data", "switch"}
\* Any other failure of what could succeed is a fault, and the script has done
\* nothing or all of its work, which the compensation does not ask.  With a second
\* fault the compensation fails too, and says so.
RTStepFails ==
  LET r == rtRun
      said == r.kind # "nightly"
  IN
  /\ RTBusy /\ rtUp /\ r.todo # <<>> /\ RTStep # "prune"
  /\ IF RTStep \in RTMayDisappoint \/ ~RTCan THEN UNCHANGED rtFaults ELSE RTFault
  /\ \E v \in {rtSrv} \cup (IF RTCan THEN {RTEffect(rtSrv)} ELSE {}) :
     /\ rtLost' = rtLost \cup (IF v # rtSrv THEN {RTStep} \cap RTTakenBack ELSE {})
     /\ \/ /\ rtSrv' = RTCompensated(v) /\ UNCHANGED rtTold
           /\ rtSite' = CASE RTGoesBack -> [rtSite EXCEPT ![r.site].release = r.replaces]
                          [] r.kind = "start" /\ RTStep = "health" -> [rtSite EXCEPT ![r.site].state = "stopped"]
                          [] OTHER -> rtSite
           /\ rtRun' = [r EXCEPT !.todo = IF said THEN <<>> ELSE Tail(@), !.failed = TRUE, !.paused = r.kind = "start" /\ RTStep = "health"]
        \/ /\ RTCompensated(v) # v /\ rtFaults' < RTMaxFaults /\ rtSrv' = v /\ rtTold' = TRUE
           /\ rtRun' = [r EXCEPT !.todo = <<>>, !.failed = TRUE] /\ UNCHANGED rtSite
  /\ UNCHANGED <<rtRel, rtData, rtBackups, rtPlan, rtOps, rtUp, rtRuns, rtStray>>

\* run's defer: the operation's end, and the site's state if it is still its own.
RTEnd ==
  LET r == rtRun
      mine == rtSite[r.site].op = r.q
  IN
  /\ RTBusy /\ rtUp /\ r.todo = <<>> /\ rtRun' = RTIdle
  /\ rtOps' = [rtOps EXCEPT ![r.q] = "ended"]
  /\ rtSite' = CASE r.kind = "remove" /\ ~r.failed -> [rtSite EXCEPT ![r.site] = RTNoSite]
                 [] mine /\ ~r.failed -> [rtSite EXCEPT ![r.site].state = IF r.kind = "stop" THEN "stopped" ELSE "live"]
                 [] mine /\ r.failed -> [rtSite EXCEPT ![r.site].state = IF r.paused THEN "stopped" ELSE "failed"]
                 [] OTHER -> rtSite
  /\ UNCHANGED <<rtRel, rtData, rtBackups, rtPlan, rtSrv, rtUp, rtTold, rtRuns, rtFaults, rtStray, rtLost>>

\* The controller dies; the script under way is done or not.
RTDies ==
  /\ rtUp /\ RTFault /\ rtUp' = FALSE /\ rtRun' = RTIdle
  /\ rtSrv' \in {rtSrv} \cup (IF RTBusy /\ rtRun.todo # <<>> /\ RTCan THEN {RTEffect(rtSrv)} ELSE {})
  /\ UNCHANGED <<rtSite, rtRel, rtData, rtBackups, rtPlan, rtOps, rtTold, rtRuns, rtStray, rtLost>>

\* interrupted: what was queued or running is unknown, and its site with it.
RTNew ==
  /\ ~rtUp /\ rtUp' = TRUE
  /\ LET left == {q \in RTRequests : rtOps[q] = "queued"} IN
     /\ rtOps' = [q \in RTRequests |-> IF q \in left THEN "unknown" ELSE rtOps[q]]
     /\ rtSite' = [s \in RTSites |-> IF rtSite[s].op \in left THEN [rtSite[s] EXCEPT !.state = "unknown"] ELSE rtSite[s]]
     /\ rtTold' = (rtTold \/ left # {})
  /\ UNCHANGED <<rtRel, rtData, rtBackups, rtPlan, rtRun, rtSrv, rtRuns, rtFaults, rtStray, rtLost>>

RTNext ==
  \/ \E s \in RTSites : \E d \in RTReleasesOf(s), kind \in {"apply", "convert"} : RTCreatePlan(s, d, kind, 0)
  \/ \E d \in RTReleasesOf(RTNode), i \in DOMAIN rtBackups : RTCreatePlan(RTNode, d, "start_from", rtBackups[i].id)
  \/ \E i \in DOMAIN rtBackups : RTCreateRestorePlan(rtBackups[i].id)
  \/ \E q \in RTRequests : RTApply(q) \/ RTSubmit(q)
  \/ RTStepDone \/ RTStepFails \/ RTEnd \/ RTDies \/ RTNew
RTSpec == RTInit /\ [][RTNext]_rtVars /\ WF_rtVars(RTStepDone \/ RTEnd)

-----------------------------------------------------------------------------
RTTypeOK ==
  /\ \A s \in RTSites : rtSite[s].state \in {"absent", "deploying", "live", "failed", "removing", "unknown", "stopped"}
  /\ rtRel \subseteq RTReleases /\ rtSrv.rel \subseteq RTReleases /\ rtData \in BOOLEAN /\ rtUp \in BOOLEAN /\ rtTold \in BOOLEAN
  /\ \A q \in RTRequests : rtOps[q] \in {"none", "queued", "ended", "unknown"}

\* "an applied plan becomes an operation ... carries out a plan ... once": however
\* the writes of Apply are cut off and the request is made again, a plan runs once.
RTPlanRunsOnce == rtRuns <= 1

\* The app that runs when the target is idle runs on data of the form it needs.
RTAppFits == ~RTBusy /\ rtUp /\ rtSrv.app # "none" => RTForm(rtSrv.app) = rtSrv.data

\* A conversion, a start on a backup and a restore are undone with their release,
\* at whatever step and however their scripts fail: the app that runs afterwards
\* fits its data. Excepted are an operation that said it could not put the data back
\* or ended unknown, a plan applied to a site that was removed since, and a script
\* of the steps convert and restore_data that changed the data and was answered as
\* failed: the old release is started on the data it left.
RTDataFitsTheApp == ~rtTold /\ ~rtStray /\ rtLost \cap {"convert", "restore_data"} = {} => RTAppFits

\* "a failing conversion changes nothing and the app that ran is started again",
\* and so a start on a backup: the same without the last exception.
RTFailureChangesNothing == ~rtTold /\ ~rtStray => RTAppFits

\* A restore's own backup of today's data never drops the backup it restores.
RTRestoreKeepsItsBackup == RTBusy /\ rtRun.kind = "restore" /\ rtRun.taken # 0 => RTBackup(rtRun.backup) # {}

\* pruneReleases "removes from the target the releases no site uses": what a
\* site's link on the server names is there.
RTLinkIsThere == \A s \in RTSites : rtSrv.link[s] # "none" => rtSrv.link[s] \in rtSrv.rel

\* The same, of a target on which no operation ended unknown, and no switch was
\* answered as failed and done: the record of its site does not name the release.
RTLinkIsThereUnlessUnknown == ~rtTold /\ "switch" \notin rtLost /\ rtUp => RTLinkIsThere

\* The server is what the sites' records say: a plan runs once, the app runs on
\* data it can read, a backup in use is kept and so is a linked release.
RTSound == RTTypeOK /\ RTPlanRunsOnce /\ RTDataFitsTheApp /\ RTRestoreKeepsItsBackup /\ RTLinkIsThereUnlessUnknown
=============================================================================
