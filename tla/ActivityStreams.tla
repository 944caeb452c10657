--------------------------- MODULE ActivityStreams ---------------------------
(***************************************************************************)
(* internal/activity Service (service.go, runtime.go, provider.go): the    *)
(* streams of clients, one collector per run that is read, and the progress*)
(* servers (sidecars) that collectors of one repository and binary share.  *)
(*                                                                         *)
(* An action is what one thread does under Service.mu, or between two waits*)
(* outside it.  What a refresh and a batch find is a choice; the events    *)
(* they store are not kept here.                                           *)
(***************************************************************************)
EXTENDS Naturals, FiniteSets

CONSTANTS AVRuns, AVKeys, AVKeyOf(_),   \* the sidecar a run's collector shares
          AVCollectors,                 \* bound: collectors at a time, those that end included
          AVClients, AVMaxStreams,
          AVMaxFaults                   \* bound: failed refreshes and starts, dead sidecars

NoCollector == 0
ASSUME AVAssumption == NoCollector \notin AVCollectors /\ AVMaxStreams \in Nat /\ AVMaxFaults \in Nat /\ \A r \in AVRuns : AVKeyOf(r) \in AVKeys

VARIABLES avService,   \* open, closing (Close waits for the collectors), closed
          avWorkers,   \* Service.workers: the collector of each run
          avFault,     \* Service.faults
          avC,         \* the collectors: where they are, their run, subscriptions,
                       \* whether untouched for a minute, whether they hold a sidecar, what follows its release
          avStream,    \* per client: the collector its stream subscribed to
          avEntry,     \* Service.sidecars
          avUp,        \* the sidecar processes of each key
          avLock,      \* who holds the lock of activity-sidecars
          avFaults

avVars == <<avService, avWorkers, avFault, avC, avStream, avEntry, avUp, avLock, avFaults>>

NoAVEntry == [refs |-> 0, at |-> "none"]
NoAVCollector == [pc |-> "free", run |-> "", subs |-> 0, idle |-> FALSE, held |-> FALSE, then |-> ""]

AVInit ==
  /\ avService = "open" /\ avWorkers = [r \in AVRuns |-> NoCollector] /\ avFault = {}
  /\ avC = [c \in AVCollectors |-> NoAVCollector] /\ avStream = [k \in AVClients |-> NoCollector]
  /\ avEntry = [y \in AVKeys |-> NoAVEntry] /\ avUp = [y \in AVKeys |-> 0]
  /\ avLock = NoCollector /\ avFaults = 0

AVKey(c) == AVKeyOf(avC[c].run)
AVAt(c, pc) == avC[c].pc = pc
AVGo(c, pc) == avC' = [avC EXCEPT ![c].pc = pc]
\* The sidecar is released, if there is one, and then the loop goes on or ends.
AVRelease(c, then) == avC' = [avC EXCEPT ![c].pc = IF avC[c].held THEN "release" ELSE then, ![c].then = IF avC[c].held THEN then ELSE ""]
AVFaulty == avFaults < AVMaxFaults /\ avFaults' = avFaults + 1
AVStopping == avService # "open"

-----------------------------------------------------------------------------
\* prepare, after its refresh: a page or a stream makes the collector of its run,
\* or touches the one there is.  Above the ceiling a page is served without one.
AVTouch(c, n) == avC' = [avC EXCEPT ![c].idle = FALSE, ![c].subs = @ + n]
AVAdmit(r, n) ==
  /\ ~AVStopping /\ r \notin avFault
  /\ \/ avWorkers[r] # NoCollector /\ AVTouch(avWorkers[r], n) /\ UNCHANGED avWorkers
     \/ /\ avWorkers[r] = NoCollector /\ Cardinality({q \in AVRuns : avWorkers[q] # NoCollector}) < AVMaxStreams
        /\ \E c \in AVCollectors :
             /\ AVAt(c, "free") /\ \A d \in AVCollectors : AVAt(d, "free") => c <= d
             /\ avWorkers' = [avWorkers EXCEPT ![r] = c]
             /\ avC' = [avC EXCEPT ![c] = [NoAVCollector EXCEPT !.pc = "loop", !.run = r, !.subs = n]]
  /\ UNCHANGED <<avService, avFault, avEntry, avUp, avLock, avFaults>>
ReadActivity(r) == AVAdmit(r, 0) /\ UNCHANGED avStream
OpenActivityStream(k, r) == avStream[k] = NoCollector /\ AVAdmit(r, 1) /\ avStream' = [avStream EXCEPT ![k] = avWorkers'[r]]

\* releaseSubscription: of the worker it subscribed to, which may have ended.
releaseSubscription(k) ==
  LET c == avStream[k] IN
  /\ c # NoCollector /\ avStream' = [avStream EXCEPT ![k] = NoCollector]
  /\ avC' = [avC EXCEPT ![c] = IF AVAt(c, "ended") /\ @.subs = 1 THEN NoAVCollector ELSE [@ EXCEPT !.subs = @ - 1, !.idle = FALSE]]
  /\ UNCHANGED <<avService, avWorkers, avFault, avEntry, avUp, avLock, avFaults>>
\* A minute passes without a touch.
AVAge(c) == avC[c].pc \notin {"free", "end", "end idle", "ended"} /\ avC[c].subs = 0 /\ ~avC[c].idle /\ avC' = [avC EXCEPT ![c].idle = TRUE] /\ UNCHANGED <<avService, avWorkers, avFault, avStream, avEntry, avUp, avLock, avFaults>>

-----------------------------------------------------------------------------
\* The top of collect's loop: it ends with the service; with nobody to read, and
\* then it leaves the workers in the same critical section; or at a failed refresh.
AVStops(c) == AVAt(c, "loop") /\ AVStopping /\ AVRelease(c, "end") /\ UNCHANGED <<avService, avWorkers, avFault, avStream, avEntry, avUp, avLock, avFaults>>
\* Mutant of AVRetire: it leaves the workers when it ends.
AVRetireLater(c) ==
  /\ AVAt(c, "loop") /\ ~AVStopping /\ avC[c].subs = 0 /\ avC[c].idle
  /\ AVRelease(c, "end idle")
  /\ UNCHANGED <<avService, avWorkers, avFault, avStream, avEntry, avUp, avLock, avFaults>>
AVRetire(c) ==
  /\ AVAt(c, "loop") /\ ~AVStopping /\ avC[c].subs = 0 /\ avC[c].idle
  /\ avWorkers' = [avWorkers EXCEPT ![avC[c].run] = NoCollector] /\ AVRelease(c, "end idle")
  /\ UNCHANGED <<avService, avFault, avStream, avEntry, avUp, avLock, avFaults>>
AVRefreshFails(c) == AVAt(c, "loop") /\ ~AVStopping /\ AVFaulty /\ AVRelease(c, "end") /\ UNCHANGED <<avService, avWorkers, avFault, avStream, avEntry, avUp, avLock>>
\* A scope to read from; without one it sleeps and is at the top again.
AVReads(c) ==
  /\ AVAt(c, "loop") /\ ~AVStopping /\ (avC[c].subs = 0 => ~avC[c].idle)
  /\ AVGo(c, IF avC[c].held THEN "got" ELSE "acquire")
  /\ UNCHANGED <<avService, avWorkers, avFault, avStream, avEntry, avUp, avLock, avFaults>>

\* acquireSidecar: the first one of a key starts it, others wait until it is ready,
\* or until the one that closes is closed.
acquireSidecar(c) ==
  LET e == avEntry[AVKey(c)] IN
  /\ AVAt(c, "acquire")
  /\ \/ e.at = "closing" /\ AVGo(c, "wait closed") /\ UNCHANGED avEntry
     \/ /\ e.at # "closing"
        /\ avEntry' = [avEntry EXCEPT ![AVKey(c)] = [refs |-> e.refs + 1, at |-> IF e.at = "none" THEN "starting" ELSE e.at]]
        /\ avC' = [avC EXCEPT ![c].held = TRUE, ![c].pc = IF e.at = "none" THEN "lock" ELSE "wait ready"]
  /\ UNCHANGED <<avService, avWorkers, avFault, avStream, avUp, avLock, avFaults>>
AVReady(c) == AVAt(c, "wait ready") /\ avEntry[AVKey(c)].at # "starting" /\ AVGo(c, "got") /\ UNCHANGED <<avService, avWorkers, avFault, avStream, avEntry, avUp, avLock, avFaults>>

\* startSidecar: a runtime directory under the lock of activity-sidecars, which
\* lockFile does not wait for, then the process.
AVStarted(c, at) == AVGo(c, "got") /\ avEntry' = [avEntry EXCEPT ![AVKey(c)].at = at]
newSidecarRuntime(c) ==
  /\ AVAt(c, "lock")
  /\ IF avLock = NoCollector /\ ~AVStopping THEN avLock' = c /\ AVGo(c, "runtime") /\ UNCHANGED avEntry
                                            ELSE AVStarted(c, "failed") /\ UNCHANGED avLock
  /\ UNCHANGED <<avService, avWorkers, avFault, avStream, avUp, avFaults>>
AVRuntimeMade(c) == AVAt(c, "runtime") /\ AVGo(c, "launch") /\ avLock' = NoCollector /\ UNCHANGED <<avService, avWorkers, avFault, avStream, avEntry, avUp, avFaults>>
startSidecar(c) ==
  /\ AVAt(c, "launch")
  /\ IF AVStopping THEN AVStarted(c, "failed") /\ UNCHANGED avUp
                   ELSE AVStarted(c, "up") /\ avUp' = [avUp EXCEPT ![AVKey(c)] = @ + 1]
  /\ UNCHANGED <<avService, avWorkers, avFault, avStream, avLock, avFaults>>
startSidecarFails(c) ==
  /\ avC[c].pc \in {"lock", "runtime", "launch"} /\ AVFaulty /\ AVStarted(c, "failed")
  /\ avLock' = (IF avLock = c THEN NoCollector ELSE avLock)
  /\ UNCHANGED <<avService, avWorkers, avFault, avStream, avUp>>

\* A sidecar that did not start: the run is marked, and the next round tries again.
AVUnavailable(c) ==
  /\ AVAt(c, "got") /\ avEntry[AVKey(c)].at = "failed"
  /\ AVRelease(c, IF AVStopping THEN "end" ELSE "loop")
  /\ UNCHANGED <<avService, avWorkers, avFault, avStream, avEntry, avUp, avLock, avFaults>>
\* A batch, of whatever outcome; a sidecar that has ended is released after it.
AVBatch(c) ==
  LET gone == avEntry[AVKey(c)].at = "dead" IN
  /\ AVAt(c, "got") /\ avEntry[AVKey(c)].at # "failed"
  /\ IF gone THEN AVRelease(c, IF AVStopping THEN "end" ELSE "loop") ELSE AVGo(c, "loop")
  /\ UNCHANGED <<avService, avWorkers, avFault, avStream, avEntry, avUp, avLock, avFaults>>
\* The store refuses: the collector ends.
AVStoreFails(c) ==
  /\ AVAt(c, "got") /\ AVFaulty /\ AVRelease(c, "end")
  /\ UNCHANGED <<avService, avWorkers, avFault, avStream, avEntry, avUp, avLock>>

\* Mutant of releaseSidecar: the last one out forgets it, then closes it.
releaseSidecarForgets(c) ==
  LET last == avEntry[AVKey(c)].refs = 1 IN
  /\ AVAt(c, "release")
  /\ avEntry' = [avEntry EXCEPT ![AVKey(c)] = IF last THEN NoAVEntry ELSE [@ EXCEPT !.refs = @ - 1]]
  /\ avC' = [avC EXCEPT ![c].held = FALSE, ![c].pc = IF last THEN "close" ELSE avC[c].then, ![c].then = IF last THEN @ ELSE ""]
  /\ UNCHANGED <<avService, avWorkers, avFault, avStream, avUp, avLock, avFaults>>
\* The last one out closes it, and forgets it when it has ended.
releaseSidecar(c) ==
  LET last == avEntry[AVKey(c)].refs = 1 IN
  /\ AVAt(c, "release")
  /\ avEntry' = [avEntry EXCEPT ![AVKey(c)] = [refs |-> @.refs - 1, at |-> IF last THEN "closing" ELSE @.at]]
  /\ avC' = [avC EXCEPT ![c].held = FALSE, ![c].pc = IF last THEN "close" ELSE avC[c].then, ![c].then = IF last THEN @ ELSE ""]
  /\ UNCHANGED <<avService, avWorkers, avFault, avStream, avUp, avLock, avFaults>>
AVCloses(c) ==
  /\ AVAt(c, "close")
  /\ avUp' = [avUp EXCEPT ![AVKey(c)] = 0] /\ avEntry' = [avEntry EXCEPT ![AVKey(c)] = NoAVEntry]
  /\ avC' = [d \in AVCollectors |->
               IF d = c THEN [avC[c] EXCEPT !.pc = avC[c].then, !.then = ""]
               ELSE IF AVAt(d, "wait closed") /\ AVKey(d) = AVKey(c) THEN [avC[d] EXCEPT !.pc = "acquire"] ELSE avC[d]]
  /\ UNCHANGED <<avService, avWorkers, avFault, avStream, avLock, avFaults>>

\* collect's last deferred step.  A stream may remember the collector that ended.
AVEnds(c) ==
  /\ avC[c].pc \in {"end", "end idle"}
  /\ IF \E k \in AVClients : avStream[k] = c THEN AVGo(c, "ended") ELSE avC' = [avC EXCEPT ![c] = NoAVCollector]
  /\ avWorkers' = (IF avWorkers[avC[c].run] = c THEN [avWorkers EXCEPT ![avC[c].run] = NoCollector] ELSE avWorkers)
  /\ avFault' = (IF AVAt(c, "end") /\ ~AVStopping THEN avFault \cup {avC[c].run} ELSE avFault)
  /\ UNCHANGED <<avService, avStream, avEntry, avUp, avLock, avFaults>>

-----------------------------------------------------------------------------
\* A sidecar ends by itself, or with the service's context.
AVSidecarEnds(y) ==
  /\ avEntry[y].at = "up" /\ avEntry' = [avEntry EXCEPT ![y].at = "dead"] /\ avUp' = [avUp EXCEPT ![y] = @ - 1]
  /\ AVFaulty \/ (AVStopping /\ UNCHANGED avFaults)
  /\ UNCHANGED <<avService, avWorkers, avFault, avC, avStream, avLock>>
\* Service.Close.
AVClose == avService = "open" /\ avService' = "closing" /\ UNCHANGED <<avWorkers, avFault, avC, avStream, avEntry, avUp, avLock, avFaults>>
AVClosed ==
  /\ avService = "closing" /\ \A c \in AVCollectors : avC[c].pc \in {"free", "ended"}
  /\ avService' = "closed" /\ UNCHANGED <<avWorkers, avFault, avC, avStream, avEntry, avUp, avLock, avFaults>>

AVNext ==
  \/ \E r \in AVRuns : ReadActivity(r) \/ \E k \in AVClients : OpenActivityStream(k, r)
  \/ \E k \in AVClients : releaseSubscription(k)
  \/ \E c \in AVCollectors :
       \/ AVAge(c) \/ AVStops(c) \/ AVRetire(c) \/ AVRefreshFails(c) \/ AVReads(c) \/ acquireSidecar(c) \/ AVReady(c)
       \/ newSidecarRuntime(c) \/ AVRuntimeMade(c) \/ startSidecar(c) \/ startSidecarFails(c)
       \/ AVUnavailable(c) \/ AVBatch(c) \/ AVStoreFails(c) \/ releaseSidecar(c) \/ AVCloses(c) \/ AVEnds(c)
  \/ \E y \in AVKeys : AVSidecarEnds(y)
  \/ AVClose \/ AVClosed

AVSpec == AVInit /\ [][AVNext]_avVars
-----------------------------------------------------------------------------
AVTypeOK ==
  /\ avService \in {"open", "closing", "closed"} /\ avWorkers \in [AVRuns -> AVCollectors \cup {NoCollector}]
  /\ avFault \subseteq AVRuns /\ avFaults \in 0..AVMaxFaults
  /\ \A c \in AVCollectors : avC[c].subs \in 0..Cardinality(AVClients)

\* "a new subscriber cannot attach to a collector that has already decided to
\* stop": an open stream's collector is the one that works for its run, or the
\* stream is told (a fault, or the service stops).
AVStreamIsServed ==
  \A k \in AVClients :
    LET c == avStream[k] IN
    c # NoCollector => AVStopping \/ avC[c].run \in avFault \/ (avWorkers[avC[c].run] = c /\ avC[c].pc # "ended")

AVHolders(y) == {c \in AVCollectors : avC[c].held /\ AVKey(c) = y}
\* Collectors share one sidecar: its count is who holds it, nobody reads from one
\* that is closed, and there are never two processes for a key, nor one that
\* nobody will close.
AVSidecarIsHeld ==
  \A y \in AVKeys :
    /\ avEntry[y].refs = Cardinality(AVHolders(y)) /\ avUp[y] <= 1
    /\ AVHolders(y) # {} => avEntry[y].at \in {"starting", "up", "dead", "failed"}
    /\ avUp[y] = 1 => avEntry[y].at \in {"up", "closing"}

\* Whoever waits for a sidecar is waited on by one that does not wait itself: it
\* is starting it, or closing it.
AVWaitsAreAnswered ==
  \A c \in AVCollectors :
    /\ AVAt(c, "wait ready") /\ avEntry[AVKey(c)].at = "starting" => \E d \in AVHolders(AVKey(c)) : avC[d].pc \in {"lock", "runtime", "launch"}
    /\ AVAt(c, "wait closed") => \E d \in AVCollectors : AVKey(d) = AVKey(c) /\ AVAt(d, "close")

\* Close returns when nothing of the service runs: no collector that would write
\* to the closed store, and no sidecar.
AVClosedIsQuiet == avService = "closed" => (\A c \in AVCollectors : avC[c].pc \in {"free", "ended"}) /\ \A y \in AVKeys : avUp[y] = 0 /\ avEntry[y] = NoAVEntry

\* The streams, the collectors and the sidecars agree on who lives.
AVSound == AVTypeOK /\ AVStreamIsServed /\ AVSidecarIsHeld /\ AVWaitsAreAnswered /\ AVClosedIsQuiet

\* runtime.go: "an exclusive namespace lock serialize runtime creation with
\* reconciliation".  A sidecar is called unavailable, which makes the run's
\* checkpoints ineligible, only after something failed.  Refuted: the lock is not
\* waited for, and of two sidecars that start together one is called unavailable.
AVMarkerIsEarned == \A c \in AVCollectors : AVAt(c, "got") /\ avEntry[AVKey(c)].at = "failed" => AVStopping \/ avFaults > 0
=============================================================================
