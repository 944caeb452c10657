----------------------------- MODULE JobsProofs ------------------------------
(***************************************************************************)
(* Proofs about the two job managers of internal/stackjob, each for every  *)
(* value of its constants: any requests, sources, checks and number of     *)
(* workers, and any bound on jobs and faults.                              *)
(*                                                                         *)
(* Stack jobs: the one worker holds the only running job, and what it has  *)
(* gathered of its parts is the evidence of the steps it ran in their      *)
(* order; a state told of a job is the one its evidence gives.             *)
(*                                                                         *)
(* Change jobs: a worker's position says what was already required of its  *)
(* job, a clean change at the checks after and a ready baseline at the     *)
(* agent, so the result it writes is good; a project is busy exactly while *)
(* a worker holds it, so two workers never hold one.                       *)
(***************************************************************************)
EXTENDS MCJobs, WellFoundedInduction, FiniteSetTheorems, SequenceTheorems, TLAPS

-----------------------------------------------------------------------------
(* A queue that loses one of its entries.                                  *)

\* A set of numbers that is not empty holds its minimum.
LEMMA MinIsMember ==
  ASSUME NEW I \in SUBSET Nat, I # {}
  PROVE  Min(I) \in I
<1>1. PICK x \in I : \A y \in I : ~(<<y, x>> \in OpToRel(<, Nat))
  BY NatLessThanWellFounded, WFMin
<1>2. \A y \in I : ~(y < x)
  BY <1>1, Zenon DEF OpToRel
<1>3. \A y \in I : x <= y
  BY <1>2
<1> QED
  BY <1>3 DEF Min

\* RemoveAt closes the gap that the entry leaves.
LEMMA RemoveAtShifts ==
  ASSUME NEW S, NEW s \in Seq(S), NEW i \in 1..Len(s)
  PROVE  /\ RemoveAt(s, i) \in Seq(S) /\ Len(RemoveAt(s, i)) = Len(s) - 1
         /\ \A k \in 1..Len(s) - 1 : RemoveAt(s, i)[k] = IF k < i THEN s[k] ELSE s[k + 1]
<1> DEFINE a == SubSeq(s, 1, i - 1)
           b == SubSeq(s, i + 1, Len(s))
<1>1. a \in Seq(S) /\ Len(a) = i - 1 /\ \A k \in 1..i - 1 : a[k] = s[k]
  OBVIOUS
<1>2. b \in Seq(S) /\ Len(b) = Len(s) - i /\ \A k \in 1..Len(s) - i : b[k] = s[i + k]
  OBVIOUS
<1>3. RemoveAt(s, i) = a \o b
  BY DEF RemoveAt
<1> HIDE DEF a, b
<1>4. a \o b \in Seq(S) /\ Len(a \o b) = Len(s) - 1
  BY <1>1, <1>2
<1>5. ASSUME NEW k \in 1..Len(s) - 1  PROVE (a \o b)[k] = IF k < i THEN s[k] ELSE s[k + 1]
  BY <1>1, <1>2
<1> QED
  BY <1>3, <1>4, <1>5

\* RemoveFirst takes out one entry, or finds none (StopStackJob, StopChangeJob).
LEMMA RemoveFirstRemoves ==
  ASSUME NEW S, NEW s \in Seq(S), NEW e
  PROVE  \/ RemoveFirst(s, e) = s /\ \A i \in 1..Len(s) : s[i] # e
         \/ \E i \in 1..Len(s) : s[i] = e /\ RemoveFirst(s, e) = RemoveAt(s, i)
<1> DEFINE I == {i \in 1..Len(s) : s[i] = e}
<1>1. CASE I = {}
  BY <1>1 DEF RemoveFirst
<1>2. CASE I # {}
  <2>1. Min(I) \in I
    <3>1. I \in SUBSET Nat
      OBVIOUS
    <3> HIDE DEF I
    <3> QED
      BY <1>2, <3>1, MinIsMember
  <2>2. RemoveFirst(s, e) = RemoveAt(s, Min(I))
    BY <1>2 DEF RemoveFirst, SelectInSeq
  <2> QED
    BY <2>1, <2>2
<1> QED
  BY <1>1, <1>2

\* What is left of a queue after one entry was taken out was in it before.
LEMMA RemoveFirstLeaves ==
  ASSUME NEW S, NEW s \in Seq(S), NEW e
  PROVE  /\ RemoveFirst(s, e) \in Seq(S)
         /\ \A k \in 1..Len(RemoveFirst(s, e)) : \E n \in 1..Len(s) : RemoveFirst(s, e)[k] = s[n]
<1>1. CASE RemoveFirst(s, e) = s
  BY <1>1
<1>2. ASSUME NEW i \in 1..Len(s), RemoveFirst(s, e) = RemoveAt(s, i)
      PROVE  RemoveFirst(s, e) \in Seq(S) /\ \A k \in 1..Len(RemoveFirst(s, e)) : \E n \in 1..Len(s) : RemoveFirst(s, e)[k] = s[n]
  <2> DEFINE t == RemoveAt(s, i)
  <2>1. t \in Seq(S) /\ Len(t) = Len(s) - 1 /\ \A k \in 1..Len(s) - 1 : t[k] = IF k < i THEN s[k] ELSE s[k + 1]
    BY RemoveAtShifts
  <2> HIDE DEF t
  <2>2. ASSUME NEW k \in 1..Len(t)  PROVE \E n \in 1..Len(s) : t[k] = s[n]
    <3>1. k \in 1..Len(s) - 1 /\ k + 1 \in 1..Len(s) /\ k \in 1..Len(s)
      BY <2>1
    <3>2. t[k] = s[k] \/ t[k] = s[k + 1]
      BY <2>1, <3>1
    <3> QED
      BY <3>1, <3>2
  <2>3. RemoveFirst(s, e) = t
    BY <1>2 DEF t
  <2> QED
    BY <2>1, <2>2, <2>3
<1> QED
  BY <1>1, <1>2, RemoveFirstRemoves

\* Nothing is in an empty range: for places where strings are about.
LEMMA NoneIn ==
  ASSUME NEW n, n = 0
  PROVE  (\A i \in 1..n : FALSE) /\ 0 <= n + 1
OBVIOUS

\* The same of two neighbours.
LEMMA Below ==
  ASSUME NEW n \in Int, NEW m \in Int, n < m + 1, n # m
  PROVE  n < m
OBVIOUS

-----------------------------------------------------------------------------
(* Stack jobs: one worker, the job it works on and what its steps showed.  *)

SJStepNames == {"install", "build", "test", "scan"}
SJStepRecs == [name : SJStepNames, state : StepState, tests : {NoTests}, skip : BOOLEAN]
SJPartRecs == [part : SJPartKind, steps : Seq(SJStepRecs)]
SJFailures == {"", "STOPPED", "TIMED_OUT", "SANDBOX_UNAVAILABLE", "SOURCE_REFUSED", "NO_STACK", "UNSUPPORTED_STACK", "TOO_LARGE"}
              \cup {FailureOf(name) : name \in SJStepNames}
SJAtWork == {"prepare", "part", "step", "exec", "finish"}
SJRecords == [state : SJActive \cup SJEnded, req : SJRequests]
SJWorkers == [pc : SJAtWork \cup {"idle", "taken", "clear"}, id : 0..SJMaxJobs, scan : BOOLEAN, parts : Seq(SJPartRecs),
              part : Nat, step : Nat, fail : SJFailures, pfail : SJFailures, ran : BOOLEAN, cancelled : BOOLEAN]

\* What the variables hold.
SJKinds ==
  /\ sjRec \in [SJJobs -> SJRecords \cup {SJNone}] /\ sjDisk \in [SJJobs -> SJRecords \cup {SJNone}]
  /\ sjQueue \in Seq(SJJobs) /\ sjMade \in 0..SJMaxJobs /\ sjWorker \in SJWorkers
  /\ sjUp \in {"up", "closing", "down"} /\ sjReg \subseteq SJJobs /\ sjSettings \in 0..SJMaxJobs

\* The job of the worker was made, and nothing is queued that was not; from its
\* mark to its verdict it is the one job running.
SJOneRuns ==
  /\ sjWorker.id <= sjMade /\ \A i \in 1..Len(sjQueue) : sjQueue[i] <= sjMade
  /\ sjWorker.pc # "idle" => sjWorker.id # 0
  /\ sjWorker.pc = "idle" => sjWorker.id = 0
  /\ sjUp = "down" => sjWorker.pc = "idle"
  /\ sjWorker.pc \in SJAtWork => sjRec[sjWorker.id].state = "RUNNING"
  /\ \A j \in SJJobs : sjRec[j].state = "RUNNING" => sjWorker.id = j /\ sjWorker.pc \in SJAtWork

\* A step that did not fail its part: it passed or was skipped, or a scan went on
\* without it.
SJFair(scan, s) == s.state \in {"PASSED", "SKIPPED"} \/ (scan /\ s.name \in {"install", "build"})
\* The first n steps of part p hold one of that name that failed.
SJFailedIn(p, n, name) == \E i \in 1..n : p.steps[i].name = name /\ p.steps[i].state = "FAILED"

\* Where the worker is in its parts.
SJPlace ==
  LET w == sjWorker IN
  /\ w.pc \in {"prepare", "taken", "idle"} => w.parts = <<>> /\ w.fail = "" /\ w.pfail = "" /\ w.part = 0 /\ ~w.ran
  /\ w.pc \in {"part", "step", "exec"} => w.part \in 1..Len(w.parts) + 1
  /\ w.pc \in {"step", "exec"} => w.part <= Len(w.parts) /\ w.step \in 1..Len(w.parts[w.part].steps) + 1 /\ SJPart.part.stack # Unsupported
  /\ w.pc = "exec" => w.step <= Len(w.parts[w.part].steps) /\ w.pfail = ""
  /\ w.pc = "part" => w.pfail = ""
  /\ w.pc \in {"finish", "clear"} /\ w.fail = "" => w.part = Len(w.parts) + 1 /\ w.ran
  /\ \A n \in 1..Len(w.parts) : (w.parts[n].part.stack # Unsupported) = (Len(w.parts[n].steps) > 0)
  /\ w.part <= Len(w.parts) + 1
  /\ w.ran => \E n \in 1..Len(w.parts) : n < w.part /\ w.parts[n].part.stack # Unsupported

\* Without a failure every step of the parts behind the worker is fair, and so is
\* every step of the part it is in that it has told.
SJFairSoFar ==
  LET w == sjWorker IN
  /\ w.fail = "" => \A n \in 1..Len(w.parts) : n < w.part => \A i \in 1..Len(w.parts[n].steps) : SJFair(w.scan, w.parts[n].steps[i])
  /\ w.pc \in {"step", "exec"} /\ w.pfail = "" => \A i \in 1..Len(SJPart.steps) : i < w.step => SJFair(w.scan, SJPart.steps[i])

\* A failure that names a step is one of a step that was told to have failed.
SJFailureIsShown ==
  LET w == sjWorker IN
  \A name \in SJStepNames :
    /\ w.fail = FailureOf(name) => \E n \in 1..Len(w.parts) : n < w.part /\ SJFailedIn(w.parts[n], Len(w.parts[n].steps), name)
    /\ w.pc \in {"step", "exec"} /\ w.pfail = FailureOf(name) => SJFailedIn(SJPart, w.step - 1, name)

\* The verdict recorded is the worker's, and by then no step is left open.
SJVerdict ==
  sjWorker.pc = "clear" =>
    /\ sjRec[sjWorker.id].state = "PASSED" => sjWorker.fail = ""
    /\ \A n \in 1..Len(sjWorker.parts) : \A i \in 1..Len(sjWorker.parts[n].steps) : sjWorker.parts[n].steps[i].state \notin {"WAITING", "RUNNING"}

SJInv == SJKinds /\ SJOneRuns /\ SJPlace /\ SJFairSoFar /\ SJFailureIsShown /\ SJVerdict

\* The start satisfies the invariant.
LEMMA SJStarts == SJInit => SJInv
<1> SUFFICES ASSUME SJInit  PROVE SJInv
  OBVIOUS
<1>1. SJMaxJobs \in Nat /\ 0 \in 0..SJMaxJobs
  BY SJAssumption
<1>2. SJIdle \in SJWorkers /\ sjWorker = SJIdle
  <2>1. <<>> \in Seq(SJPartRecs)
    OBVIOUS
  <2>2. "" \in SJFailures
    BY DEF SJFailures
  <2> HIDE DEF SJFailures, SJPartRecs
  <2> QED
    BY <1>1, <2>1, <2>2 DEF SJInit, SJIdle, SJWorkers, SJAtWork
<1>3. SJKinds
  BY <1>1, <1>2 DEF SJInit, SJKinds, SJJobs
<1>4. SJOneRuns
  <2>1. sjWorker.pc = "idle" /\ sjWorker.id = 0 /\ sjMade = 0 /\ sjUp = "up" /\ Len(sjQueue) = 0
    BY DEF SJInit, SJIdle
  <2>2. \A j \in SJJobs : sjRec[j].state = "NONE"
    BY DEF SJInit, SJNone
  <2>3. \A i \in 1..Len(sjQueue) : sjQueue[i] <= sjMade
    BY <2>1
  <2> QED
    BY <2>1, <2>2, <2>3 DEF SJOneRuns, SJAtWork
<1>5. sjWorker.pc = "idle" /\ sjWorker.parts = <<>> /\ sjWorker.fail = "" /\ sjWorker.pfail = "" /\ sjWorker.part = 0 /\ sjWorker.ran = FALSE /\ Len(sjWorker.parts) = 0
  BY DEF SJInit, SJIdle
<1>6. SJPlace /\ SJFairSoFar /\ SJVerdict
  <2>0. Len(sjWorker.parts) = 0 /\ sjWorker.part = 0
    BY <1>5, Zenon
  <2>1. \A n \in 1..Len(sjWorker.parts) : FALSE
    BY <2>0
  <2>2. sjWorker.part <= Len(sjWorker.parts) + 1
    BY <2>0
  <2>3. SJPlace
    BY <1>5, <2>1, <2>2, Zenon DEF SJPlace
  <2>4. SJFairSoFar /\ SJVerdict
    BY <1>5, <2>1 DEF SJFairSoFar, SJVerdict
  <2> QED
    BY <2>3, <2>4
<1>7. SJFailureIsShown
  BY <1>5 DEF SJFailureIsShown, SJStepNames, FailureOf
<1> QED
  BY <1>3, <1>4, <1>6, <1>7 DEF SJInv

\* While the worker's state stays, so does what is said of its parts.
LEMMA SJWorkerStays ==
  ASSUME SJPlace, SJFairSoFar, SJFailureIsShown, sjWorker' = sjWorker
  PROVE  SJPlace' /\ SJFairSoFar' /\ SJFailureIsShown'
<1>1. SJPlace'
  BY DEF SJPlace, SJPart
<1>2. SJFairSoFar'
  BY DEF SJFairSoFar, SJPart
<1>3. SJFailureIsShown'
  BY DEF SJFailureIsShown, SJPart
<1> QED
  BY <1>1, <1>2, <1>3

\* A record that gets another state is a record.
LEMMA SJRecordTold ==
  ASSUME NEW rec \in SJRecords, NEW state \in SJActive \cup SJEnded
  PROVE  [rec EXCEPT !.state = state] \in SJRecords /\ [rec EXCEPT !.state = state].state = state
         /\ [rec EXCEPT !.state = state].req = rec.req
BY DEF SJRecords

\* prune drops ended jobs only.
LEMMA SJPruneKeeps ==
  ASSUME NEW recs \in [SJJobs -> SJRecords \cup {SJNone}], NEW disk \in [SJJobs -> SJRecords \cup {SJNone}]
  PROVE  LET gone == SJPruned(recs) IN
         /\ SJDrop(recs, gone) \in [SJJobs -> SJRecords \cup {SJNone}]
         /\ SJDrop(disk, gone) \in [SJJobs -> SJRecords \cup {SJNone}]
         /\ \A j \in SJJobs : SJDrop(recs, gone)[j] = recs[j] \/ (SJDrop(recs, gone)[j] = SJNone /\ recs[j].state \in SJEnded)
<1> DEFINE gone == SJPruned(recs)
<1>1. \A j \in gone : recs[j].state \in SJEnded
  BY DEF SJPruned
<1> HIDE DEF gone
<1>2. /\ SJDrop(recs, gone) \in [SJJobs -> SJRecords \cup {SJNone}]
      /\ SJDrop(disk, gone) \in [SJJobs -> SJRecords \cup {SJNone}]
      /\ \A j \in SJJobs : SJDrop(recs, gone)[j] = recs[j] \/ (SJDrop(recs, gone)[j] = SJNone /\ recs[j].state \in SJEnded)
  BY <1>1 DEF SJDrop
<1> QED
  BY <1>2 DEF gone

\* StartStackJob.
LEMMA SJStartKeeps ==
  ASSUME SJInv, NEW r \in SJRequests, SJStart(r)
  PROVE  SJInv'
<1> DEFINE j == sjMade + 1
           rec == [state |-> "QUEUED", req |-> r]
           recs == [sjRec EXCEPT ![j] = rec]
           disk == [sjDisk EXCEPT ![j] = rec]
           gone == SJPruned(recs)
<1>1. SJMaxJobs \in Nat /\ sjMade \in Nat /\ sjMade < SJMaxJobs /\ j \in SJJobs /\ j \in 0..SJMaxJobs /\ j = sjMade + 1
  BY SJAssumption DEF SJStart, SJInv, SJKinds, SJJobs
<1>2. rec \in SJRecords /\ rec.state = "QUEUED" /\ rec # SJNone
  BY DEF SJRecords, SJActive, SJNone
<1>3. sjWorker' = sjWorker /\ sjUp' = sjUp /\ sjSettings' = sjSettings
  BY DEF SJStart
<1>4. SJPlace' /\ SJFairSoFar' /\ SJFailureIsShown'
  BY <1>3, SJWorkerStays DEF SJInv
<1>5. sjWorker \in SJWorkers /\ sjWorker.id \in 0..SJMaxJobs /\ sjWorker.id <= sjMade
  BY DEF SJInv, SJKinds, SJWorkers, SJOneRuns
<1>6. CASE SJSave(j, rec, FALSE) /\ UNCHANGED <<sjMade, sjRec, sjQueue, sjReg>>
  <2>1. sjDisk' = sjDisk
    BY <1>6 DEF SJSave
  <2>2. SJKinds'
    BY <1>3, <1>6, <2>1 DEF SJInv, SJKinds
  <2>3. SJOneRuns' /\ SJVerdict'
    BY <1>3, <1>6 DEF SJInv, SJOneRuns, SJVerdict
  <2> QED
    BY <1>4, <2>2, <2>3 DEF SJInv
<1>7. CASE /\ sjMade' = j /\ sjRec' = SJDrop(recs, gone) /\ sjDisk' = SJDrop(disk, gone)
           /\ sjQueue' = Append(sjQueue, j)
           /\ sjReg' = IF r \in SJPrivate THEN sjReg \cup {j} ELSE sjReg
  <2>1. recs \in [SJJobs -> SJRecords \cup {SJNone}] /\ disk \in [SJJobs -> SJRecords \cup {SJNone}]
    BY <1>1, <1>2 DEF SJInv, SJKinds
  <2>2. recs[j] = rec /\ \A k \in SJJobs : k # j => recs[k] = sjRec[k]
    BY <1>1 DEF SJInv, SJKinds
  <2> HIDE DEF rec, recs, disk
  <2>3. /\ sjRec' \in [SJJobs -> SJRecords \cup {SJNone}] /\ sjDisk' \in [SJJobs -> SJRecords \cup {SJNone}]
        /\ \A k \in SJJobs : sjRec'[k] = recs[k] \/ (sjRec'[k] = SJNone /\ recs[k].state \in SJEnded)
    BY <1>7, <2>1, SJPruneKeeps
  <2> HIDE DEF gone, j
  <2>4. sjQueue' \in Seq(SJJobs) /\ Len(sjQueue') = Len(sjQueue) + 1 /\ sjQueue \in Seq(SJJobs)
        /\ \A i \in 1..Len(sjQueue') : sjQueue'[i] = j \/ (i \in 1..Len(sjQueue) /\ sjQueue'[i] = sjQueue[i])
    BY <1>1, <1>7 DEF SJInv, SJKinds
  <2>5. sjReg' \subseteq SJJobs
    BY <1>1, <1>7 DEF SJInv, SJKinds
  <2>6. SJKinds'
    BY <1>1, <1>3, <1>7, <2>3, <2>4, <2>5 DEF SJInv, SJKinds
  <2>7. \A i \in 1..Len(sjQueue') : sjQueue'[i] <= sjMade'
    <3> SUFFICES ASSUME NEW i \in 1..Len(sjQueue')  PROVE sjQueue'[i] <= sjMade'
      OBVIOUS
    <3>1. CASE sjQueue'[i] = j
      BY <1>1, <1>7, <3>1
    <3>2. CASE i \in 1..Len(sjQueue) /\ sjQueue'[i] = sjQueue[i]
      <4>1. sjQueue[i] \in SJJobs
        BY <2>4, <3>2
      <4>2. sjQueue[i] <= sjMade /\ sjQueue[i] \in Nat
        BY <3>2, <4>1 DEF SJInv, SJOneRuns, SJJobs
      <4> QED
        BY <1>1, <1>7, <3>2, <4>2
    <3> QED
      BY <2>4, <3>1, <3>2
  <2>8. sjWorker.id # j /\ sjWorker.id <= sjMade' /\ (sjWorker.id # 0 => sjWorker.id \in SJJobs)
    BY <1>1, <1>5, <1>7 DEF SJJobs
  <2>9. ASSUME NEW k \in SJJobs, sjRec'[k].state = "RUNNING"  PROVE sjRec[k].state = "RUNNING"
    BY <1>2, <2>2, <2>3, <2>9 DEF SJNone
  <2>10. ASSUME NEW k \in SJJobs, k # j, sjRec[k].state = "RUNNING"  PROVE sjRec'[k].state = "RUNNING"
    BY <2>2, <2>3, <2>10 DEF SJEnded
  <2>11. sjWorker.pc \in SJAtWork => sjWorker.id \in SJJobs
    BY <2>8 DEF SJInv, SJOneRuns, SJAtWork
  <2>12. SJOneRuns'
    <3>1. sjWorker.pc \in SJAtWork => sjRec'[sjWorker.id].state = "RUNNING"
      BY <2>8, <2>10, <2>11 DEF SJInv, SJOneRuns
    <3>2. \A k \in SJJobs : sjRec'[k].state = "RUNNING" => sjWorker.id = k /\ sjWorker.pc \in SJAtWork
      BY <2>9 DEF SJInv, SJOneRuns
    <3> QED
      BY <1>3, <2>7, <2>8, <3>1, <3>2 DEF SJInv, SJOneRuns
  <2>13. SJVerdict'
    <3> SUFFICES ASSUME sjWorker.pc = "clear"  PROVE SJVerdict'
      BY <1>3 DEF SJVerdict
    <3>1. sjWorker.id \in SJJobs
      BY <2>8 DEF SJInv, SJOneRuns
    <3>2. sjRec'[sjWorker.id].state = "PASSED" => sjRec[sjWorker.id].state = "PASSED"
      BY <2>2, <2>3, <2>8, <3>1 DEF SJNone
    <3> QED
      BY <1>3, <3>2 DEF SJInv, SJVerdict
  <2> QED
    BY <1>4, <2>6, <2>12, <2>13 DEF SJInv
<1> QED
  BY <1>6, <1>7 DEF SJStart

\* Where the worker's job is a job.
LEMMA SJWorkersJob ==
  ASSUME SJInv
  PROVE  sjWorker.pc # "idle" => sjWorker.id \in SJJobs
BY SJAssumption DEF SJInv, SJKinds, SJWorkers, SJJobs, SJOneRuns

\* The failures that name a step.
LEMMA SJNamedFailures ==
  ASSUME NEW name \in SJStepNames
  PROVE  /\ FailureOf(name) \notin {"", "STOPPED", "TIMED_OUT", "SANDBOX_UNAVAILABLE", "SOURCE_REFUSED", "NO_STACK", "UNSUPPORTED_STACK", "TOO_LARGE"}
         /\ FailureOf(name) \in SJFailures /\ \A other \in SJStepNames : FailureOf(other) = FailureOf(name) => other = name
<1>1. FailureOf("install") = "INSTALL_FAILED" /\ FailureOf("build") = "BUILD_FAILED" /\ FailureOf("test") = "TESTS_FAILED" /\ FailureOf("scan") = "SCAN_FAILED"
  BY DEF FailureOf
<1>2. FailureOf(name) \in SJFailures
  BY DEF SJFailures
<1> QED
  BY <1>1, <1>2 DEF SJStepNames

\* A worker that has found no part yet.
LEMMA SJBareWorker ==
  ASSUME sjWorker'.pc \in {"idle", "taken", "prepare"}, sjWorker'.parts = <<>>, sjWorker'.fail = "", sjWorker'.pfail = "",
         sjWorker'.part = 0, ~sjWorker'.ran
  PROVE  SJPlace' /\ SJFairSoFar' /\ SJFailureIsShown' /\ SJVerdict'
<1>1. Len(sjWorker'.parts) = 0 /\ sjWorker'.part = 0
  BY Zenon
<1>2. (\A n \in 1..Len(sjWorker'.parts) : FALSE) /\ sjWorker'.part <= Len(sjWorker'.parts) + 1
  BY <1>1, NoneIn, Zenon
<1>3. sjWorker'.pc \notin {"part", "step", "exec", "finish", "clear"}
  OBVIOUS
<1>4. SJPlace'
  <2>1. sjWorker'.pc \in {"prepare", "taken", "idle"} =>
          sjWorker'.parts = <<>> /\ sjWorker'.fail = "" /\ sjWorker'.pfail = "" /\ sjWorker'.part = 0 /\ ~sjWorker'.ran
    OBVIOUS
  <2> QED
    BY <1>2, <1>3, <2>1, Zenon DEF SJPlace
<1>5. SJFairSoFar' /\ SJVerdict'
  BY <1>2, <1>3 DEF SJFairSoFar, SJVerdict
<1>6. SJFailureIsShown'
  <2>1. \A name \in SJStepNames : FailureOf(name) # ""
    BY SJNamedFailures
  <2> QED
    BY <1>3, <2>1 DEF SJFailureIsShown
<1> QED
  BY <1>4, <1>5, <1>6

\* StopStackJob of a queued job.
LEMMA SJStopQueuedKeeps ==
  ASSUME SJInv, NEW j \in SJJobs, SJStopQueued(j)
  PROVE  SJInv'
<1> DEFINE rec == [sjRec[j] EXCEPT !.state = "STOPPED"]
<1>1. sjRec[j].state = "QUEUED" /\ sjRec[j] \in SJRecords
  BY DEF SJStopQueued, SJHas, SJInv, SJKinds
<1>2. rec \in SJRecords /\ rec.state = "STOPPED"
  BY <1>1, SJRecordTold DEF SJActive, SJEnded
<1> HIDE DEF rec
<1>3. /\ sjRec' = [sjRec EXCEPT ![j] = rec]
      /\ sjDisk' = sjDisk \/ sjDisk' = [sjDisk EXCEPT ![j] = rec]
  BY DEF SJStopQueued, SJSave, rec
<1>4. sjQueue' = RemoveFirst(sjQueue, j) /\ UNCHANGED <<sjMade, sjWorker, sjUp, sjReg, sjSettings>>
  BY DEF SJStopQueued
<1>5. SJPlace' /\ SJFairSoFar' /\ SJFailureIsShown'
  BY <1>4, SJWorkerStays DEF SJInv
<1>6. sjQueue \in Seq(SJJobs)
  BY DEF SJInv, SJKinds
<1>7. sjQueue' \in Seq(SJJobs) /\ \A k \in 1..Len(sjQueue') : \E n \in 1..Len(sjQueue) : sjQueue'[k] = sjQueue[n]
  BY <1>4, <1>6, RemoveFirstLeaves
<1>8. sjRec' \in [SJJobs -> SJRecords \cup {SJNone}] /\ sjDisk' \in [SJJobs -> SJRecords \cup {SJNone}]
  BY <1>2, <1>3 DEF SJInv, SJKinds
<1>9. SJKinds'
  BY <1>4, <1>7, <1>8 DEF SJInv, SJKinds
<1>10. sjRec'[j].state = "STOPPED" /\ \A k \in SJJobs : k # j => sjRec'[k] = sjRec[k]
  BY <1>2, <1>3 DEF SJInv, SJKinds
<1>11. \A k \in 1..Len(sjQueue') : sjQueue'[k] <= sjMade
  BY <1>7 DEF SJInv, SJOneRuns
<1>12. sjWorker.pc # "idle" => sjWorker.id \in SJJobs
  BY SJWorkersJob
<1>13. SJOneRuns'
  <2>1. sjWorker.pc \in SJAtWork => sjRec'[sjWorker.id].state = "RUNNING"
    BY <1>1, <1>10, <1>12 DEF SJInv, SJOneRuns, SJAtWork
  <2>2. \A k \in SJJobs : sjRec'[k].state = "RUNNING" => sjWorker.id = k /\ sjWorker.pc \in SJAtWork
    BY <1>10 DEF SJInv, SJOneRuns
  <2> QED
    BY <1>4, <1>11, <2>1, <2>2 DEF SJInv, SJOneRuns
<1>14. SJVerdict'
  <2>1. sjWorker.pc = "clear" => (sjRec'[sjWorker.id].state = "PASSED" => sjRec[sjWorker.id].state = "PASSED")
    BY <1>10, <1>12
  <2> QED
    BY <1>4, <2>1 DEF SJInv, SJVerdict
<1> QED
  BY <1>5, <1>9, <1>13, <1>14 DEF SJInv

\* work.
LEMMA SJTakeKeeps ==
  ASSUME SJInv, SJTake
  PROVE  SJInv'
<1>1. sjQueue \in Seq(SJJobs) /\ sjQueue # <<>> /\ Len(sjQueue) > 0 /\ Head(sjQueue) = sjQueue[1] /\ 1 \in 1..Len(sjQueue)
  BY DEF SJInv, SJKinds, SJTake
<1>2. Head(sjQueue) \in SJJobs /\ Head(sjQueue) <= sjMade
  BY <1>1 DEF SJInv, SJOneRuns
<1>3. sjQueue' \in Seq(SJJobs) /\ Len(sjQueue') = Len(sjQueue) - 1 /\ \A i \in 1..Len(sjQueue') : sjQueue'[i] = sjQueue[i + 1]
  BY <1>1 DEF SJTake
<1>4. \A i \in 1..Len(sjQueue') : sjQueue'[i] <= sjMade
  BY <1>1, <1>3 DEF SJInv, SJOneRuns
<1>5. UNCHANGED <<sjRec, sjDisk, sjMade, sjUp, sjReg, sjSettings>> /\ sjUp = "up" /\ sjWorker.pc = "idle"
  BY DEF SJTake
<1>6. /\ sjWorker' = [SJIdle EXCEPT !.pc = "taken", !.id = Head(sjQueue)]
      /\ sjWorker'.pc = "taken" /\ sjWorker'.id = Head(sjQueue) /\ sjWorker'.parts = <<>> /\ sjWorker'.fail = "" /\ sjWorker'.pfail = "" /\ sjWorker'.part = 0 /\ ~sjWorker'.ran
  BY DEF SJTake, SJIdle
<1>7. sjWorker' \in SJWorkers
  <2>1. <<>> \in Seq(SJPartRecs) /\ "" \in SJFailures
    BY DEF SJFailures
  <2>2. Head(sjQueue) \in 0..SJMaxJobs
    BY <1>2 DEF SJJobs
  <2> HIDE DEF SJFailures, SJPartRecs
  <2> QED
    BY <1>6, <2>1, <2>2 DEF SJIdle, SJWorkers, SJAtWork
<1>8. SJKinds'
  BY <1>3, <1>5, <1>7 DEF SJInv, SJKinds
<1>9. SJOneRuns'
  <2>1. \A j \in SJJobs : sjRec[j].state # "RUNNING"
    BY <1>5 DEF SJInv, SJOneRuns, SJAtWork
  <2>2. sjWorker'.id # 0 /\ sjWorker'.id <= sjMade
    <3>1. sjWorker'.id \in 1..SJMaxJobs /\ sjWorker'.id <= sjMade
      BY <1>2, <1>6, Zenon DEF SJJobs
    <3> QED
      BY <3>1
  <2> QED
    BY <1>4, <1>5, <1>6, <2>1, <2>2 DEF SJOneRuns, SJAtWork
<1>10. SJPlace' /\ SJFairSoFar' /\ SJFailureIsShown' /\ SJVerdict'
  BY <1>6, SJBareWorker
<1> QED
  BY <1>8, <1>9, <1>10 DEF SJInv

\* run, its first section.
LEMMA SJMarkKeeps ==
  ASSUME SJInv, SJMark
  PROVE  SJInv'
<1> DEFINE j == sjWorker.id
           rec == [sjRec[j] EXCEPT !.state = "RUNNING"]
<1>1. sjWorker.pc = "taken" /\ j \in SJJobs /\ sjRec[j] \in SJRecords
  BY SJWorkersJob DEF SJMark, SJHas, SJInv, SJKinds
<1>2. rec \in SJRecords /\ rec.state = "RUNNING"
  BY <1>1, SJRecordTold DEF SJActive
<1> HIDE DEF rec
<1>3. /\ sjRec' = [sjRec EXCEPT ![j] = rec]
      /\ sjDisk' = sjDisk \/ sjDisk' = [sjDisk EXCEPT ![j] = rec]
  BY DEF SJMark, SJSave, rec
<1>4. UNCHANGED <<sjQueue, sjMade, sjUp, sjReg, sjSettings>>
  BY DEF SJMark
<1>5. sjRec' \in [SJJobs -> SJRecords \cup {SJNone}] /\ sjDisk' \in [SJJobs -> SJRecords \cup {SJNone}]
  BY <1>1, <1>2, <1>3 DEF SJInv, SJKinds
<1>6. sjRec'[j].state = "RUNNING" /\ \A k \in SJJobs : k # j => sjRec'[k] = sjRec[k]
  BY <1>1, <1>2, <1>3 DEF SJInv, SJKinds
<1> DEFINE scan == sjRec[j].req \in SJScan
           cancelled == sjUp # "up"
<1>7. sjWorker' = [sjWorker EXCEPT !.pc = "prepare", !.scan = scan, !.cancelled = cancelled] /\ scan \in BOOLEAN /\ cancelled \in BOOLEAN
  BY DEF SJMark
<1> HIDE DEF scan, cancelled
<1>8. sjWorker \in SJWorkers
  BY DEF SJInv, SJKinds
<1>9. sjWorker' \in SJWorkers /\ sjWorker'.pc = "prepare" /\ sjWorker'.id = j /\ sjWorker'.parts = sjWorker.parts /\ sjWorker'.fail = sjWorker.fail
      /\ sjWorker'.part = sjWorker.part /\ sjWorker'.ran = sjWorker.ran /\ sjWorker'.pfail = sjWorker.pfail
  BY <1>7, <1>8 DEF SJWorkers, SJAtWork
<1>10. sjWorker.parts = <<>> /\ sjWorker.fail = "" /\ sjWorker.pfail = "" /\ sjWorker.part = 0 /\ sjWorker.ran = FALSE
  BY <1>1, <1>8 DEF SJInv, SJPlace, SJWorkers
<1>11. SJKinds'
  BY <1>4, <1>5, <1>9 DEF SJInv, SJKinds
<1>12. SJOneRuns'
  <2>1. \A k \in SJJobs : sjRec[k].state # "RUNNING"
    BY <1>1 DEF SJInv, SJOneRuns, SJAtWork
  <2>2. sjUp # "down"
    BY <1>1 DEF SJInv, SJOneRuns
  <2> QED
    BY <1>1, <1>4, <1>6, <1>9, <2>1, <2>2 DEF SJInv, SJOneRuns, SJAtWork
<1>13. sjWorker'.part = 0 /\ sjWorker'.parts = <<>> /\ sjWorker'.fail = "" /\ sjWorker'.pfail = "" /\ ~sjWorker'.ran
  BY <1>9, <1>10
<1>14. SJPlace' /\ SJFairSoFar' /\ SJFailureIsShown' /\ SJVerdict'
  BY <1>9, <1>13, SJBareWorker
<1> QED
  BY <1>11, <1>12, <1>14 DEF SJInv

\* A move of the worker that is at work and stays so, on what is recorded.
LEMMA SJStaysAtWork ==
  ASSUME SJInv, sjWorker.pc \in SJAtWork, sjWorker' \in SJWorkers, sjWorker'.pc \in SJAtWork, sjWorker'.id = sjWorker.id,
         UNCHANGED <<sjRec, sjDisk, sjQueue, sjMade, sjUp, sjReg>>, sjSettings' \in 0..SJMaxJobs
  PROVE  SJKinds' /\ SJOneRuns' /\ SJVerdict'
<1>1. SJKinds'
  BY DEF SJInv, SJKinds
<1>2. sjWorker.pc # "idle" /\ sjWorker'.pc # "idle" /\ sjWorker'.pc # "clear"
  BY DEF SJAtWork
<1>3. SJOneRuns'
  BY <1>2 DEF SJInv, SJOneRuns
<1>4. SJVerdict'
  BY <1>2 DEF SJVerdict
<1> QED
  BY <1>1, <1>3, <1>4

\* The fields of a worker's state.
LEMMA SJWorkerFields ==
  ASSUME NEW w \in SJWorkers
  PROVE  /\ w.pc \in SJAtWork \cup {"idle", "taken", "clear"} /\ w.id \in 0..SJMaxJobs /\ w.scan \in BOOLEAN /\ w.parts \in Seq(SJPartRecs)
         /\ w.part \in Nat /\ w.step \in Nat /\ w.fail \in SJFailures /\ w.pfail \in SJFailures /\ w.ran \in BOOLEAN /\ w.cancelled \in BOOLEAN
BY DEF SJWorkers

\* Those of its n-th part.
LEMMA SJPartFields ==
  ASSUME NEW w \in SJWorkers, NEW n \in 1..Len(w.parts)
  PROVE  /\ w.parts[n] \in SJPartRecs /\ w.parts[n].part \in SJPartKind
         /\ w.parts[n].steps \in Seq(SJStepRecs) /\ Len(w.parts[n].steps) \in Nat
         /\ \A i \in 1..Len(w.parts[n].steps) : w.parts[n].steps[i] \in SJStepRecs
<1>1. w.parts[n] \in SJPartRecs
  BY SJWorkerFields
<1>2. w.parts[n].part \in SJPartKind /\ w.parts[n].steps \in Seq(SJStepRecs)
  BY <1>1 DEF SJPartRecs
<1> QED
  BY <1>1, <1>2

\* Worker t is w but for the state of step s of part p.
SJToldAs(t, w, p, s, state) ==
  /\ t \in SJWorkers /\ t.pc = w.pc /\ t.id = w.id /\ t.scan = w.scan /\ t.part = w.part /\ t.step = w.step
  /\ t.fail = w.fail /\ t.pfail = w.pfail /\ t.ran = w.ran
  /\ Len(t.parts) = Len(w.parts)
  /\ \A n \in 1..Len(w.parts) : n # p => t.parts[n] = w.parts[n]
  /\ t.parts[p].part = w.parts[p].part /\ Len(t.parts[p].steps) = Len(w.parts[p].steps)
  /\ \A i \in 1..Len(w.parts[p].steps) : i # s => t.parts[p].steps[i] = w.parts[p].steps[i]
  /\ t.parts[p].steps[s].state = state /\ t.parts[p].steps[s].name = w.parts[p].steps[s].name

\* A step of one part is told another state: nothing else changes.
LEMMA SJToldIs ==
  ASSUME NEW w \in SJWorkers, NEW p \in 1..Len(w.parts), NEW s \in 1..Len(w.parts[p].steps), NEW state \in StepState, NEW t,
         t = [w EXCEPT !.parts[p].steps[s].state = state]
  PROVE  SJToldAs(t, w, p, s, state)
<1> DEFINE st == [w.parts[p].steps[s] EXCEPT !.state = state]
           ss == [w.parts[p].steps EXCEPT ![s] = st]
           pp == [w.parts[p] EXCEPT !.steps = ss]
           ps == [w.parts EXCEPT ![p] = pp]
<1>1. t = [w EXCEPT !.parts = ps]
  OBVIOUS
<1>2. w.parts[p].steps[s] \in SJStepRecs /\ w.parts[p].steps \in Seq(SJStepRecs) /\ w.parts[p] \in SJPartRecs /\ w.parts \in Seq(SJPartRecs)
  BY SJPartFields, SJWorkerFields
<1>3. st \in SJStepRecs /\ st.state = state /\ st.name = w.parts[p].steps[s].name
  BY <1>2 DEF SJStepRecs
<1> HIDE DEF st
<1>4. ss \in Seq(SJStepRecs) /\ Len(ss) = Len(w.parts[p].steps) /\ ss[s] = st
      /\ \A i \in 1..Len(w.parts[p].steps) : i # s => ss[i] = w.parts[p].steps[i]
  BY <1>2, <1>3
<1> HIDE DEF ss
<1>5. pp \in SJPartRecs /\ pp.part = w.parts[p].part /\ pp.steps = ss
  BY <1>2, <1>4 DEF SJPartRecs
<1> HIDE DEF pp
<1>6. ps \in Seq(SJPartRecs) /\ Len(ps) = Len(w.parts) /\ ps[p] = pp /\ \A n \in 1..Len(w.parts) : n # p => ps[n] = w.parts[n]
  BY <1>2, <1>5
<1> HIDE DEF ps
<1>7. /\ t \in SJWorkers /\ t.parts = ps /\ t.pc = w.pc /\ t.id = w.id /\ t.scan = w.scan /\ t.part = w.part /\ t.step = w.step
      /\ t.fail = w.fail /\ t.pfail = w.pfail /\ t.ran = w.ran
  BY <1>1, <1>6 DEF SJWorkers
<1> QED
  BY <1>3, <1>4, <1>5, <1>6, <1>7 DEF SJToldAs

\* The state the loop is in after a part.
LEMMA SJAfterPartIs ==
  ASSUME SJInv, NEW failure \in SJFailures, NEW t, t = SJAfterPart(failure)
  PROVE  /\ t \in SJWorkers /\ t.id = sjWorker.id /\ t.scan = sjWorker.scan /\ t.parts = sjWorker.parts
         /\ t.part = sjWorker.part + 1 /\ t.step = 0 /\ t.pfail = "" /\ t.ran = TRUE
         /\ t.fail = (IF sjWorker.fail = "" THEN failure ELSE sjWorker.fail)
         /\ t.pc = (IF t.fail \in {"STOPPED", "SANDBOX_UNAVAILABLE"} THEN "finish" ELSE "part")
<1> DEFINE fail == IF sjWorker.fail = "" THEN failure ELSE sjWorker.fail
           pc == IF fail \in {"STOPPED", "SANDBOX_UNAVAILABLE"} THEN "finish" ELSE "part"
<1>1. sjWorker \in SJWorkers
  BY DEF SJInv, SJKinds
<1>2. fail \in SJFailures /\ pc \in SJAtWork /\ "" \in SJFailures
  <2>1. "" \in SJFailures
    BY DEF SJFailures
  <2> QED
    BY <1>1, <2>1 DEF SJWorkers, SJAtWork
<1>3. t = [sjWorker EXCEPT !.pc = pc, !.part = sjWorker.part + 1, !.fail = fail, !.pfail = "", !.ran = TRUE, !.step = 0]
  BY DEF SJAfterPart
<1>4. pc = IF fail \in {"STOPPED", "SANDBOX_UNAVAILABLE"} THEN "finish" ELSE "part"
  OBVIOUS
<1>5. fail = IF sjWorker.fail = "" THEN failure ELSE sjWorker.fail
  OBVIOUS
<1> HIDE DEF fail, pc
<1> DEFINE part == sjWorker.part + 1
<1>7. part \in Nat /\ t = [sjWorker EXCEPT !.pc = pc, !.part = part, !.fail = fail, !.pfail = "", !.ran = TRUE, !.step = 0] /\ part = sjWorker.part + 1
  BY <1>1, <1>3, SJWorkerFields
<1> HIDE DEF part
<1>6. /\ t \in SJWorkers /\ t.id = sjWorker.id /\ t.scan = sjWorker.scan /\ t.parts = sjWorker.parts
      /\ t.part = part /\ t.step = 0 /\ t.pfail = "" /\ t.ran = TRUE /\ t.fail = fail /\ t.pc = pc
  <2>1. t \in SJWorkers
    <3> DEFINE u == [sjWorker EXCEPT !.pc = pc, !.part = part, !.fail = fail, !.pfail = "", !.step = 0]
    <3>1. u \in SJWorkers
      BY <1>1, <1>2, <1>7 DEF SJWorkers
    <3>2. t = [u EXCEPT !.ran = TRUE]
      BY <1>1, <1>7 DEF SJWorkers
    <3> HIDE DEF u
    <3> QED
      BY <3>1, <3>2 DEF SJWorkers
  <2>2. /\ t.id = sjWorker.id /\ t.scan = sjWorker.scan /\ t.parts = sjWorker.parts
        /\ t.part = part /\ t.step = 0 /\ t.pfail = "" /\ t.fail = fail /\ t.pc = pc
    BY <1>1, <1>7 DEF SJWorkers
  <2>3. t.ran = TRUE
    BY <1>1, <1>7 DEF SJWorkers
  <2> QED
    BY <2>1, <2>2, <2>3
<1> QED
  BY <1>4, <1>5, <1>6, <1>7

\* StopStackJob of the running job, and Close: what the worker is told of its
\* context is not what it shows.
LEMMA SJCancelKeeps ==
  ASSUME SJInv, sjWorker' = [sjWorker EXCEPT !.cancelled = TRUE], UNCHANGED <<sjRec, sjDisk, sjQueue, sjMade, sjReg, sjSettings>>,
         sjUp' \in {"up", "closing"}
  PROVE  SJInv'
<1>1. sjWorker \in SJWorkers
  BY DEF SJInv, SJKinds
<1>2. /\ sjWorker' \in SJWorkers /\ sjWorker'.pc = sjWorker.pc /\ sjWorker'.id = sjWorker.id /\ sjWorker'.scan = sjWorker.scan
      /\ sjWorker'.parts = sjWorker.parts /\ sjWorker'.part = sjWorker.part /\ sjWorker'.step = sjWorker.step
      /\ sjWorker'.fail = sjWorker.fail /\ sjWorker'.pfail = sjWorker.pfail /\ sjWorker'.ran = sjWorker.ran
  BY <1>1 DEF SJWorkers
<1>3. SJKinds'
  BY <1>2 DEF SJInv, SJKinds
<1>4. SJOneRuns'
  BY <1>2 DEF SJInv, SJOneRuns
<1>5. SJPlace'
  <2>1. SJPart' = SJPart
    BY <1>2 DEF SJPart
  <2> QED
    BY <1>2, <2>1, Zenon DEF SJInv, SJPlace
<1>6. SJFairSoFar'
  BY <1>2 DEF SJInv, SJFairSoFar, SJPart
<1>7. SJFailureIsShown'
  BY <1>2 DEF SJInv, SJFailureIsShown, SJPart
<1>8. SJVerdict'
  BY <1>2 DEF SJInv, SJVerdict
<1> QED
  BY <1>3, <1>4, <1>5, <1>6, <1>7, <1>8 DEF SJInv

\* StopStackJob of the running job.
LEMMA SJStopRunningKeeps ==
  ASSUME SJInv, NEW j \in SJJobs, SJStopRunning(j)
  PROVE  SJInv'
<1>1. sjUp' \in {"up", "closing"}
  BY DEF SJStopRunning, SJInv, SJKinds
<1> QED
  BY <1>1, SJCancelKeeps DEF SJStopRunning

\* Close.
LEMMA SJCloseKeeps ==
  ASSUME SJInv, SJClose
  PROVE  SJInv'
<1>1. CASE sjWorker' = [sjWorker EXCEPT !.cancelled = TRUE]
  BY <1>1, SJCancelKeeps DEF SJClose
<1>2. CASE sjWorker' = sjWorker
  <2>1. SJPlace' /\ SJFairSoFar' /\ SJFailureIsShown'
    BY <1>2, SJWorkerStays DEF SJInv
  <2>2. SJKinds' /\ SJOneRuns' /\ SJVerdict'
    BY <1>2 DEF SJClose, SJInv, SJKinds, SJOneRuns, SJVerdict
  <2> QED
    BY <2>1, <2>2 DEF SJInv
<1> QED
  BY <1>1, <1>2 DEF SJClose

\* The end of the process leaves nothing at work.
LEMMA SJDownKeeps ==
  ASSUME SJInv, SJDown
  PROVE  SJInv'
<1>1. sjWorker' = SJIdle /\ sjQueue' = <<>> /\ sjReg' = {} /\ sjUp' = "down" /\ sjRec' = [j \in SJJobs |-> SJNone] /\ UNCHANGED <<sjDisk, sjMade, sjSettings>>
  BY DEF SJDown
<1>2. sjWorker'.pc = "idle" /\ sjWorker'.id = 0 /\ sjWorker'.parts = <<>> /\ sjWorker'.fail = "" /\ sjWorker'.pfail = "" /\ sjWorker'.part = 0 /\ ~sjWorker'.ran
  BY <1>1 DEF SJIdle
<1>3. SJIdle \in SJWorkers
  <2>1. <<>> \in Seq(SJPartRecs) /\ "" \in SJFailures /\ 0 \in 0..SJMaxJobs
    BY SJAssumption DEF SJFailures
  <2> HIDE DEF SJFailures, SJPartRecs
  <2> QED
    BY <2>1 DEF SJIdle, SJWorkers, SJAtWork
<1>4. SJKinds'
  BY <1>1, <1>3 DEF SJInv, SJKinds
<1>5. SJOneRuns'
  <2>1. \A i \in 1..Len(sjQueue') : FALSE
    BY <1>1
  <2>2. \A j \in SJJobs : sjRec'[j].state # "RUNNING"
    BY <1>1 DEF SJNone
  <2>3. sjMade' \in 0..SJMaxJobs /\ 0 <= sjMade'
    BY <1>1, SJAssumption DEF SJInv, SJKinds
  <2> QED
    BY <1>1, <1>2, <2>1, <2>2, <2>3 DEF SJOneRuns, SJAtWork
<1>6. SJPlace' /\ SJFairSoFar' /\ SJFailureIsShown' /\ SJVerdict'
  BY <1>2, SJBareWorker
<1> QED
  BY <1>4, <1>5, <1>6 DEF SJInv

\* load: no job is running while no worker has one.
LEMMA SJLoadKeeps ==
  ASSUME SJInv, SJLoad
  PROVE  SJInv'
<1> DEFINE told == [j \in SJJobs |-> IF sjDisk[j].state \in SJActive THEN [sjDisk[j] EXCEPT !.state = "UNKNOWN"] ELSE sjDisk[j]]
<1>1. ASSUME NEW j \in SJJobs  PROVE told[j] \in SJRecords \cup {SJNone} /\ told[j].state # "RUNNING"
  <2>1. CASE sjDisk[j].state \in SJActive
    <3>1. sjDisk[j] \in SJRecords
      BY <2>1 DEF SJInv, SJKinds, SJNone, SJActive
    <3>2. [sjDisk[j] EXCEPT !.state = "UNKNOWN"] \in SJRecords /\ [sjDisk[j] EXCEPT !.state = "UNKNOWN"].state = "UNKNOWN"
      BY <3>1, SJRecordTold DEF SJEnded
    <3> QED
      BY <2>1, <3>2
  <2>2. CASE sjDisk[j].state \notin SJActive
    BY <2>2 DEF SJInv, SJKinds, SJActive
  <2> QED
    BY <2>1, <2>2
<1>2. told \in [SJJobs -> SJRecords \cup {SJNone}]
  BY <1>1
<1>3. \A j \in SJJobs : told[j].state # "RUNNING"
  BY <1>1
<1>4. sjRec' = SJDrop(told, SJPruned(told)) /\ sjDisk' = sjRec' /\ UNCHANGED <<sjQueue, sjMade, sjWorker, sjReg, sjSettings>> /\ sjUp = "down" /\ sjUp' = "up"
  BY DEF SJLoad
<1> HIDE DEF told
<1>5. /\ sjRec' \in [SJJobs -> SJRecords \cup {SJNone}]
      /\ \A j \in SJJobs : sjRec'[j] = told[j] \/ sjRec'[j] = SJNone
  BY <1>2, <1>4, SJPruneKeeps
<1>6. \A j \in SJJobs : sjRec'[j].state # "RUNNING"
  BY <1>3, <1>5 DEF SJNone
<1>7. SJPlace' /\ SJFairSoFar' /\ SJFailureIsShown'
  BY <1>4, SJWorkerStays DEF SJInv
<1>8. SJKinds'
  BY <1>4, <1>5 DEF SJInv, SJKinds
<1>9. sjWorker.pc = "idle"
  BY <1>4 DEF SJInv, SJOneRuns
<1>10. SJOneRuns'
  BY <1>4, <1>6, <1>9 DEF SJInv, SJOneRuns, SJAtWork
<1>11. SJVerdict'
  BY <1>4, <1>9 DEF SJVerdict
<1> QED
  BY <1>7, <1>8, <1>10, <1>11 DEF SJInv

\* run, its last section.
LEMMA SJClearKeeps ==
  ASSUME SJInv, SJClear
  PROVE  SJInv'
<1>1. sjWorker' = SJIdle /\ sjWorker.pc = "clear" /\ sjReg' = sjReg \ {sjWorker.id} /\ UNCHANGED <<sjRec, sjDisk, sjQueue, sjMade, sjUp, sjSettings>>
  BY DEF SJClear
<1>2. sjWorker'.pc = "idle" /\ sjWorker'.id = 0 /\ sjWorker'.parts = <<>> /\ sjWorker'.fail = "" /\ sjWorker'.pfail = "" /\ sjWorker'.part = 0 /\ ~sjWorker'.ran
  BY <1>1 DEF SJIdle
<1>3. SJIdle \in SJWorkers
  <2>1. <<>> \in Seq(SJPartRecs) /\ "" \in SJFailures /\ 0 \in 0..SJMaxJobs
    BY SJAssumption DEF SJFailures
  <2> HIDE DEF SJFailures, SJPartRecs
  <2> QED
    BY <2>1 DEF SJIdle, SJWorkers, SJAtWork
<1>4. SJKinds'
  BY <1>1, <1>3 DEF SJInv, SJKinds
<1>5. SJOneRuns'
  <2>1. \A j \in SJJobs : sjRec[j].state # "RUNNING"
    BY <1>1 DEF SJInv, SJOneRuns, SJAtWork
  <2>2. sjMade \in 0..SJMaxJobs /\ 0 <= sjMade
    BY SJAssumption DEF SJInv, SJKinds
  <2> QED
    BY <1>1, <1>2, <2>1, <2>2 DEF SJInv, SJOneRuns, SJAtWork
<1>6. SJPlace' /\ SJFairSoFar' /\ SJFailureIsShown' /\ SJVerdict'
  BY <1>2, SJBareWorker
<1> QED
  BY <1>4, <1>5, <1>6 DEF SJInv

\* What a part first shows: no step of a part that is not run.
LEMMA SJPartSteps ==
  ASSUME NEW p \in SJPartKind, NEW scan \in BOOLEAN
  PROVE  partSteps(p, scan) \in Seq(SJStepRecs) /\ (p.stack # Unsupported) = (Len(partSteps(p, scan)) > 0)
<1> DEFINE names == StepNames(scan)
           steps == [i \in DOMAIN names |-> [name |-> names[i], state |-> "WAITING", tests |-> NoTests,
                                             skip |-> IF scan THEN ScanSkips(p, names[i]) ELSE Skips(p, names[i])]]
<1>1. names \in Seq(SJStepNames) /\ Len(names) > 0 /\ DOMAIN names = 1..Len(names)
      /\ (~scan => \A i \in 1..Len(names) : names[i] \in {"install", "build", "test"})
  <2>1. CASE scan
    <3>1. names = <<"install", "build", "test", "scan">>
      BY <2>1 DEF StepNames
    <3> HIDE DEF names
    <3> QED
      BY <2>1, <3>1 DEF SJStepNames
  <2>2. CASE ~scan
    <3>1. names = <<"install", "build", "test">>
      BY <2>2 DEF StepNames
    <3> HIDE DEF names
    <3> QED
      BY <2>2, <3>1 DEF SJStepNames
  <2> QED
    BY <2>1, <2>2
<1>2. ASSUME NEW name \in {"install", "build", "test"}  PROVE Skips(p, name) \in BOOLEAN
  BY DEF Skips, SJPartKind
<1>3. ASSUME NEW name \in SJStepNames  PROVE ScanSkips(p, name) \in BOOLEAN
  <2>1. CASE name = "install"
    BY <1>2, <2>1 DEF ScanSkips
  <2>2. CASE name = "build"
    BY <1>2, <2>2 DEF ScanSkips
  <2>3. CASE name = "test"
    BY <2>3 DEF ScanSkips
  <2>4. CASE name = "scan"
    BY <2>4 DEF ScanSkips
  <2> QED
    BY <2>1, <2>2, <2>3, <2>4 DEF SJStepNames
<1> HIDE DEF names
<1>4. ASSUME NEW i \in DOMAIN names  PROVE steps[i] \in SJStepRecs
  <2> DEFINE skip == IF scan THEN ScanSkips(p, names[i]) ELSE Skips(p, names[i])
  <2>1. names[i] \in SJStepNames
    BY <1>1
  <2>2. skip \in BOOLEAN
    BY <1>1, <1>2, <1>3, <2>1
  <2>3. steps[i] = [name |-> names[i], state |-> "WAITING", tests |-> NoTests, skip |-> skip]
    OBVIOUS
  <2> HIDE DEF skip, steps
  <2> QED
    BY <2>1, <2>2, <2>3 DEF SJStepRecs, StepState
<1>5. DOMAIN steps = 1..Len(names) /\ steps = [i \in 1..Len(names) |-> steps[i]]
  BY <1>1
<1> HIDE DEF steps
<1>6. steps \in Seq(SJStepRecs) /\ Len(steps) = Len(names)
  BY <1>1, <1>4, <1>5
<1>7. CASE p.stack = Unsupported
  <2>1. partSteps(p, scan) = <<>>
    BY <1>7 DEF partSteps
  <2> QED
    BY <1>7, <2>1
<1>8. CASE p.stack # Unsupported
  <2>1. partSteps(p, scan) = steps
    BY <1>8 DEF partSteps, steps, names
  <2> QED
    BY <1>1, <1>6, <1>8, <2>1
<1> QED
  BY <1>7, <1>8

\* runJob up to its parts.
LEMMA SJPrepareKeeps ==
  ASSUME SJInv, SJPrepare
  PROVE  SJInv'
<1>1. sjWorker \in SJWorkers /\ sjWorker.pc = "prepare" /\ sjWorker.pc \in SJAtWork
  BY DEF SJInv, SJKinds, SJPrepare, SJAtWork
<1>2. UNCHANGED <<sjRec, sjDisk, sjQueue, sjMade, sjUp, sjReg, sjFaults>>
  BY DEF SJPrepare
<1>3. sjWorker.parts = <<>> /\ sjWorker.fail = "" /\ sjWorker.part = 0 /\ sjWorker.ran = FALSE
  BY <1>1 DEF SJInv, SJPlace, SJWorkers
<1>4. ASSUME NEW failure \in {"SANDBOX_UNAVAILABLE", "SOURCE_REFUSED", "NO_STACK"}, SJGiveUp(failure), UNCHANGED sjSettings
      PROVE  SJInv'
  <2>1. failure \in SJFailures /\ failure # "" /\ \A name \in SJStepNames : FailureOf(name) # failure
    BY SJNamedFailures DEF SJFailures
  <2>2. /\ sjWorker' \in SJWorkers /\ sjWorker'.pc = "finish" /\ sjWorker'.id = sjWorker.id /\ sjWorker'.fail = failure
        /\ sjWorker'.parts = sjWorker.parts /\ sjWorker'.part = sjWorker.part /\ sjWorker'.ran = sjWorker.ran
    BY <1>1, <1>4, <2>1 DEF SJGiveUp, SJWorkers, SJAtWork
  <2>3. SJKinds' /\ SJOneRuns' /\ SJVerdict'
    BY <1>1, <1>2, <1>4, <2>2, SJStaysAtWork DEF SJAtWork, SJInv, SJKinds
  <2>4. Len(sjWorker'.parts) = 0 /\ sjWorker'.part = 0
    <3>1. sjWorker'.parts = <<>> /\ sjWorker'.part = 0
      BY <1>3, <2>2
    <3> QED
      BY <3>1, Zenon
  <2>5. (\A n \in 1..Len(sjWorker'.parts) : FALSE) /\ sjWorker'.part <= Len(sjWorker'.parts) + 1
    BY <2>4
  <2>9. ~sjWorker'.ran
    BY <1>3, <2>2
  <2>6. SJPlace'
    BY <2>1, <2>2, <2>5, <2>9, Zenon DEF SJPlace
  <2>7. SJFairSoFar'
    BY <2>2, <2>5 DEF SJFairSoFar
  <2>8. SJFailureIsShown'
    BY <2>1, <2>2 DEF SJFailureIsShown
  <2> QED
    BY <2>3, <2>6, <2>7, <2>8 DEF SJInv
<1>5. ASSUME NEW parts \in SJSource(sjRec[sjWorker.id].req), NEW shown,
             shown = [sjWorker EXCEPT !.pc = "part", !.part = 1, !.parts =
                        [n \in DOMAIN parts |-> [part |-> parts[n], steps |-> partSteps(parts[n], sjWorker.scan)]]],
             \/ sjWorker' = [shown EXCEPT !.pc = "finish", !.fail = "SANDBOX_UNAVAILABLE"] /\ UNCHANGED sjSettings
             \/ sjWorker' = shown /\ sjSettings' = IF sjWorker.id \in sjReg THEN sjWorker.id ELSE sjSettings
      PROVE  SJInv'
  <2> DEFINE ps == [n \in DOMAIN parts |-> [part |-> parts[n], steps |-> partSteps(parts[n], sjWorker.scan)]]
  <2>1. sjRec[sjWorker.id] \in SJRecords
    <3>1. sjWorker.id \in SJJobs /\ sjRec[sjWorker.id].state = "RUNNING"
      BY <1>1, SJWorkersJob DEF SJInv, SJOneRuns
    <3> QED
      BY <3>1 DEF SJInv, SJKinds, SJNone
  <2>2. parts \in Seq(SJPartKind)
    BY <2>1, SJAssumption DEF SJRecords
  <2>3. DOMAIN parts = 1..Len(parts) /\ Len(parts) \in Nat /\ \A n \in 1..Len(parts) : parts[n] \in SJPartKind
    BY <2>2
  <2>4. ASSUME NEW n \in 1..Len(parts)
        PROVE  ps[n] \in SJPartRecs /\ (ps[n].part.stack # Unsupported) = (Len(ps[n].steps) > 0)
    <3>1. ps[n] = [part |-> parts[n], steps |-> partSteps(parts[n], sjWorker.scan)]
      BY <2>3
    <3>2. partSteps(parts[n], sjWorker.scan) \in Seq(SJStepRecs) /\ (parts[n].stack # Unsupported) = (Len(partSteps(parts[n], sjWorker.scan)) > 0)
      BY <1>1, <2>3, SJPartSteps, SJWorkerFields
    <3> HIDE DEF ps
    <3> QED
      BY <2>3, <3>1, <3>2 DEF SJPartRecs
  <2>5. DOMAIN ps = 1..Len(parts) /\ ps = [n \in 1..Len(parts) |-> ps[n]]
    BY <2>3
  <2>6. shown = [sjWorker EXCEPT !.pc = "part", !.part = 1, !.parts = ps]
    BY <1>5
  <2> HIDE DEF ps
  <2>7. ps \in Seq(SJPartRecs) /\ Len(ps) = Len(parts)
    BY <2>3, <2>4, <2>5
  <2>8. "SANDBOX_UNAVAILABLE" \in SJFailures /\ \A name \in SJStepNames : FailureOf(name) # "SANDBOX_UNAVAILABLE" /\ FailureOf(name) # ""
    BY SJNamedFailures DEF SJFailures
  <2>9. /\ shown \in SJWorkers /\ shown.pc = "part" /\ shown.id = sjWorker.id /\ shown.parts = ps /\ shown.part = 1
        /\ shown.fail = sjWorker.fail /\ shown.ran = sjWorker.ran /\ shown.pfail = sjWorker.pfail /\ shown.scan = sjWorker.scan
    BY <1>1, <2>6, <2>7 DEF SJWorkers, SJAtWork
  <2>10. sjWorker.pfail = ""
    BY <1>1 DEF SJInv, SJPlace
  <2>11. CASE sjWorker' = [shown EXCEPT !.pc = "finish", !.fail = "SANDBOX_UNAVAILABLE"] /\ UNCHANGED sjSettings
    <3>1. /\ sjWorker' \in SJWorkers /\ sjWorker'.pc = "finish" /\ sjWorker'.id = sjWorker.id /\ sjWorker'.parts = ps /\ sjWorker'.part = 1
          /\ sjWorker'.fail = "SANDBOX_UNAVAILABLE" /\ sjWorker'.ran = shown.ran
      BY <2>8, <2>9, <2>11 DEF SJWorkers, SJAtWork
    <3>2. SJKinds' /\ SJOneRuns' /\ SJVerdict'
      BY <1>1, <1>2, <2>11, <3>1, SJStaysAtWork DEF SJAtWork, SJInv, SJKinds
    <3>3. \A n \in 1..Len(ps) : (ps[n].part.stack # Unsupported) = (Len(ps[n].steps) > 0)
      BY <2>4, <2>7
    <3>4. 1 <= Len(ps) + 1
      BY <2>3, <2>7
    <3>5. SJPlace'
      BY <1>3, <2>9, <3>1, <3>3, <3>4 DEF SJPlace
    <3>6. SJFairSoFar'
      BY <3>1 DEF SJFairSoFar
    <3>7. SJFailureIsShown'
      BY <2>8, <3>1 DEF SJFailureIsShown
    <3> QED
      BY <3>2, <3>5, <3>6, <3>7 DEF SJInv
  <2>12. CASE sjWorker' = shown /\ sjSettings' = IF sjWorker.id \in sjReg THEN sjWorker.id ELSE sjSettings
    <3>1. sjSettings' \in 0..SJMaxJobs
      BY <1>1, <2>12, SJWorkerFields DEF SJInv, SJKinds
    <3>2. SJKinds' /\ SJOneRuns' /\ SJVerdict'
      BY <1>1, <1>2, <2>9, <2>12, <3>1, SJStaysAtWork DEF SJAtWork
    <3>3. \A n \in 1..Len(ps) : (ps[n].part.stack # Unsupported) = (Len(ps[n].steps) > 0)
      BY <2>4, <2>7
    <3>4. 1 <= Len(ps) + 1 /\ 1 \in 1..Len(ps) + 1
      BY <2>3, <2>7
    <3>5. \A n \in 1..Len(ps) : ~(n < 1)
      BY <2>3, <2>7
    <3>6. /\ sjWorker'.pc = "part" /\ sjWorker'.parts = ps /\ sjWorker'.part = 1
          /\ sjWorker'.fail = "" /\ ~sjWorker'.ran /\ sjWorker'.pfail = "" /\ sjWorker'.scan = sjWorker.scan
      BY <1>3, <2>9, <2>10, <2>12
    <3>7. SJPlace'
      BY <3>3, <3>4, <3>6 DEF SJPlace
    <3>8. SJFairSoFar'
      BY <3>5, <3>6 DEF SJFairSoFar
    <3>9. SJFailureIsShown'
      BY <2>8, <3>6 DEF SJFailureIsShown
    <3> QED
      BY <3>2, <3>7, <3>8, <3>9 DEF SJInv
  <2> QED
    BY <1>5, <2>11, <2>12
<1> QED
  BY <1>4, <1>5, Zenon DEF SJPrepare

\* The loop passes a part that is not run, and ends.
LEMMA SJNextPartKeeps ==
  ASSUME SJInv, SJNextPart
  PROVE  SJInv'
<1>1. sjWorker \in SJWorkers /\ sjWorker.pc = "part" /\ sjWorker.pc \in SJAtWork /\ sjSettings \in 0..SJMaxJobs
  BY DEF SJInv, SJKinds, SJNextPart, SJAtWork
<1>2. UNCHANGED <<sjRec, sjDisk, sjQueue, sjMade, sjUp, sjReg, sjSettings, sjFaults>>
  BY DEF SJNextPart
<1>6. sjWorker.parts \in Seq(SJPartRecs) /\ sjWorker.fail \in SJFailures
  BY <1>1, SJWorkerFields
<1>7. sjWorker.part \in 1..Len(sjWorker.parts) + 1 /\ sjWorker.pfail = ""
  BY <1>1 DEF SJInv, SJPlace
<1>8. Len(sjWorker.parts) \in Nat
  BY <1>6
<1>3. sjWorker.part \in 1..Len(sjWorker.parts) + 1 /\ Len(sjWorker.parts) \in Nat /\ sjWorker.part \in Nat
  <2>1. sjWorker.part \in 1..Len(sjWorker.parts) + 1 /\ Len(sjWorker.parts) \in Nat
    BY <1>7, <1>8, Zenon
  <2> QED
    BY <2>1
<1>4. CASE sjWorker.part > Len(sjWorker.parts)
           /\ sjWorker' = [sjWorker EXCEPT !.pc = "finish", !.fail = IF sjWorker.ran THEN sjWorker.fail ELSE "UNSUPPORTED_STACK"]
  <2> DEFINE fail == IF sjWorker.ran THEN sjWorker.fail ELSE "UNSUPPORTED_STACK"
  <2>1. fail \in SJFailures
    BY <1>6 DEF SJFailures
  <2>2. \A name \in SJStepNames : FailureOf(name) # "UNSUPPORTED_STACK"
    BY SJNamedFailures
  <2>3. fail = (IF sjWorker.ran THEN sjWorker.fail ELSE "UNSUPPORTED_STACK") /\ sjWorker' = [sjWorker EXCEPT !.pc = "finish", !.fail = fail]
    BY <1>4
  <2> HIDE DEF fail
  <2>4. /\ sjWorker' \in SJWorkers /\ sjWorker'.pc = "finish" /\ sjWorker'.id = sjWorker.id /\ sjWorker'.fail = fail /\ sjWorker'.scan = sjWorker.scan
        /\ sjWorker'.parts = sjWorker.parts /\ sjWorker'.part = sjWorker.part /\ sjWorker'.ran = sjWorker.ran
    BY <1>1, <2>1, <2>3 DEF SJWorkers, SJAtWork
  <2>5. SJKinds' /\ SJOneRuns' /\ SJVerdict'
    BY <1>1, <1>2, <2>4, SJStaysAtWork DEF SJAtWork
  <2>10. sjWorker.part > Len(sjWorker.parts)
    BY <1>4
  <2>6. sjWorker.part = Len(sjWorker.parts) + 1
    BY <1>3, <2>10
  <2>11. fail = "" => sjWorker.ran /\ sjWorker.fail = ""
    BY <2>3, Zenon
  <2>12. /\ \A n \in 1..Len(sjWorker.parts) : (sjWorker.parts[n].part.stack # Unsupported) = (Len(sjWorker.parts[n].steps) > 0)
         /\ sjWorker.part <= Len(sjWorker.parts) + 1
         /\ sjWorker.ran => \E n \in 1..Len(sjWorker.parts) : n < sjWorker.part /\ sjWorker.parts[n].part.stack # Unsupported
    BY DEF SJInv, SJPlace
  <2>13. sjWorker.fail = "" => \A n \in 1..Len(sjWorker.parts) : n < sjWorker.part =>
           \A i \in 1..Len(sjWorker.parts[n].steps) : SJFair(sjWorker.scan, sjWorker.parts[n].steps[i])
    BY DEF SJInv, SJFairSoFar
  <2>14. sjWorker'.pc \notin {"prepare", "taken", "idle", "part", "step", "exec"}
    BY <2>4
  <2>7. SJPlace'
    BY <2>4, <2>6, <2>11, <2>12, <2>14, Zenon DEF SJPlace
  <2>8. SJFairSoFar'
    BY <2>4, <2>11, <2>13, <2>14, Zenon DEF SJFairSoFar
  <2>9. SJFailureIsShown'
    BY <2>2, <2>3, <2>4 DEF SJInv, SJFailureIsShown
  <2> QED
    BY <2>5, <2>7, <2>8, <2>9 DEF SJInv
<1>5. CASE sjWorker.part <= Len(sjWorker.parts) /\ SJPart.part.stack = Unsupported /\ sjWorker' = [sjWorker EXCEPT !.part = sjWorker.part + 1]
  <2>9. sjWorker.part <= Len(sjWorker.parts)
    BY <1>5
  <2>1. sjWorker.part \in 1..Len(sjWorker.parts) /\ sjWorker.part + 1 \in 1..Len(sjWorker.parts) + 1 /\ sjWorker.part + 1 \in Nat
    BY <1>3, <2>9
  <2>2. Len(sjWorker.parts[sjWorker.part].steps) \in Nat /\ ~(Len(sjWorker.parts[sjWorker.part].steps) > 0)
    BY <1>1, <1>5, <2>1, SJPartFields DEF SJInv, SJPlace, SJPart
  <2>3. /\ sjWorker' \in SJWorkers /\ sjWorker'.pc = "part" /\ sjWorker'.id = sjWorker.id /\ sjWorker'.fail = sjWorker.fail /\ sjWorker'.scan = sjWorker.scan
        /\ sjWorker'.parts = sjWorker.parts /\ sjWorker'.part = sjWorker.part + 1 /\ sjWorker'.ran = sjWorker.ran /\ sjWorker'.pfail = ""
    BY <1>1, <1>5, <1>7, <2>1 DEF SJWorkers
  <2>4. SJKinds' /\ SJOneRuns' /\ SJVerdict'
    BY <1>1, <1>2, <2>3, SJStaysAtWork
  <2>5. sjWorker.part + 1 <= Len(sjWorker.parts) + 1 /\ \A n \in 1..Len(sjWorker.parts) : n < sjWorker.part => n < sjWorker.part + 1
    BY <1>3, <2>1
  <2>6. SJPlace'
    BY <1>1, <2>1, <2>3, <2>5 DEF SJInv, SJPlace
  <2>10. Len(sjWorker.parts[sjWorker.part].steps) = 0
    BY <2>2
  <2>11. sjWorker.part \in Int /\ \A n \in 1..Len(sjWorker.parts) : n \in Int
    BY <1>3
  <2>7. SJFairSoFar'
    <3> SUFFICES ASSUME sjWorker'.fail = "", NEW n \in 1..Len(sjWorker.parts), n < sjWorker.part + 1, NEW i \in 1..Len(sjWorker.parts[n].steps)
                 PROVE  SJFair(sjWorker.scan, sjWorker.parts[n].steps[i])
      BY <2>3 DEF SJFairSoFar
    <3>1. n # sjWorker.part
      <4>2. \A k \in 1..Len(sjWorker.parts[sjWorker.part].steps) : FALSE
        BY <2>10, NoneIn, Zenon
      <4> QED
        BY <4>2, Zenon
    <3>2. n < sjWorker.part
      <4>1. n \in Int /\ sjWorker.part \in Int
        BY <2>11, Zenon
      <4> QED
        BY <3>1, <4>1, Below, Zenon
    <3> QED
      BY <2>3, <3>2 DEF SJInv, SJFairSoFar
  <2>8. SJFailureIsShown'
    <3>1. \A name \in SJStepNames : sjWorker.fail = FailureOf(name) =>
            \E n \in 1..Len(sjWorker.parts) : n < sjWorker.part /\ SJFailedIn(sjWorker.parts[n], Len(sjWorker.parts[n].steps), name)
      BY DEF SJInv, SJFailureIsShown
    <3> QED
      BY <2>3, <2>5, <3>1 DEF SJFailureIsShown
  <2> QED
    BY <2>4, <2>6, <2>7, <2>8 DEF SJInv
<1> QED
  BY <1>4, <1>5 DEF SJNextPart

\* The places of a part among l parts.
LEMMA SJPlaces ==
  ASSUME NEW l \in Nat, NEW p \in 1..l
  PROVE  /\ p \in 1..l + 1 /\ p <= l /\ p <= l + 1 /\ p + 1 \in 1..l + 1 /\ p + 1 <= l + 1 /\ p < p + 1
         /\ \A n \in 1..l : (n < p => n # p) /\ (n < p + 1 => n = p \/ n < p) /\ (n < p => n < p + 1)
OBVIOUS

\* The worker tells a step of the part it is in, or none: everything behind it
\* and ahead of it stays.
SJInItsPart ==
  /\ sjWorker.pc \in {"part", "step", "exec"} /\ sjWorker' \in SJWorkers /\ sjWorker'.pc \in SJAtWork
  /\ sjWorker'.id = sjWorker.id /\ sjWorker'.scan = sjWorker.scan
  /\ sjWorker.part \in 1..Len(sjWorker.parts) /\ sjWorker.parts[sjWorker.part].part.stack # Unsupported
  /\ Len(sjWorker'.parts) = Len(sjWorker.parts)
  /\ \A n \in 1..Len(sjWorker.parts) : n # sjWorker.part => sjWorker'.parts[n] = sjWorker.parts[n]
  /\ sjWorker'.parts[sjWorker.part].part = sjWorker.parts[sjWorker.part].part
  /\ Len(sjWorker'.parts[sjWorker.part].steps) = Len(sjWorker.parts[sjWorker.part].steps)
  /\ UNCHANGED <<sjRec, sjDisk, sjQueue, sjMade, sjUp, sjReg, sjSettings>>

\* What stays then.
LEMMA SJInItsPartKeeps ==
  ASSUME SJInv, SJInItsPart
  PROVE  /\ SJKinds' /\ SJOneRuns' /\ SJVerdict'
         /\ \A n \in 1..Len(sjWorker'.parts) : (sjWorker'.parts[n].part.stack # Unsupported) = (Len(sjWorker'.parts[n].steps) > 0)
         /\ Len(sjWorker.parts) \in Nat /\ sjWorker.part \in Nat
         /\ Len(sjWorker.parts[sjWorker.part].steps) \in Nat /\ Len(sjWorker.parts[sjWorker.part].steps) > 0
         /\ sjWorker \in SJWorkers /\ SJPart = sjWorker.parts[sjWorker.part]
<1>1. sjWorker \in SJWorkers /\ sjWorker.pc \in SJAtWork /\ sjSettings' \in 0..SJMaxJobs
  BY DEF SJInv, SJKinds, SJInItsPart, SJAtWork
<1>2. SJKinds' /\ SJOneRuns' /\ SJVerdict'
  BY <1>1, SJStaysAtWork DEF SJInItsPart
<1>3. sjWorker.parts \in Seq(SJPartRecs) /\ sjWorker.part \in 1..Len(sjWorker.parts)
  BY <1>1, SJWorkerFields DEF SJInItsPart
<1>4. Len(sjWorker.parts) \in Nat /\ sjWorker.part \in Nat
  BY <1>3
<1>5. \A n \in 1..Len(sjWorker.parts) : (sjWorker.parts[n].part.stack # Unsupported) = (Len(sjWorker.parts[n].steps) > 0)
  BY DEF SJInv, SJPlace
<1>6. \A n \in 1..Len(sjWorker'.parts) : (sjWorker'.parts[n].part.stack # Unsupported) = (Len(sjWorker'.parts[n].steps) > 0)
  <2> SUFFICES ASSUME NEW n \in 1..Len(sjWorker.parts)
               PROVE  (sjWorker'.parts[n].part.stack # Unsupported) = (Len(sjWorker'.parts[n].steps) > 0)
    BY DEF SJInItsPart
  <2>1. sjWorker'.parts[n].part = sjWorker.parts[n].part /\ Len(sjWorker'.parts[n].steps) = Len(sjWorker.parts[n].steps)
    BY Zenon DEF SJInItsPart
  <2> QED
    BY <1>5, <2>1, Zenon
<1>7. Len(sjWorker.parts[sjWorker.part].steps) \in Nat
  BY <1>1, <1>3, SJPartFields, Zenon
<1>8. Len(sjWorker.parts[sjWorker.part].steps) > 0
  BY <1>3, <1>5, Zenon DEF SJInItsPart
<1> QED
  BY <1>1, <1>2, <1>4, <1>6, <1>7, <1>8 DEF SJPart

\* The worker goes on with the part it is in.
LEMMA SJStepGoes ==
  ASSUME SJInv, SJInItsPart, sjWorker'.pc \in {"step", "exec"}, sjWorker'.part = sjWorker.part,
         sjWorker'.fail = sjWorker.fail, sjWorker'.ran = sjWorker.ran,
         sjWorker'.step \in 1..Len(sjWorker.parts[sjWorker.part].steps) + 1,
         sjWorker'.pc = "exec" => sjWorker'.step <= Len(sjWorker.parts[sjWorker.part].steps) /\ sjWorker'.pfail = "",
         sjWorker'.pfail = "" => \A i \in 1..Len(sjWorker.parts[sjWorker.part].steps) : i < sjWorker'.step =>
                                   SJFair(sjWorker.scan, sjWorker'.parts[sjWorker.part].steps[i]),
         \A name \in SJStepNames : sjWorker'.pfail = FailureOf(name) => SJFailedIn(sjWorker'.parts[sjWorker.part], sjWorker'.step - 1, name)
  PROVE  SJInv'
<1> DEFINE p == sjWorker.part
<1>1. /\ SJKinds' /\ SJOneRuns' /\ SJVerdict'
      /\ \A n \in 1..Len(sjWorker'.parts) : (sjWorker'.parts[n].part.stack # Unsupported) = (Len(sjWorker'.parts[n].steps) > 0)
  BY SJInItsPartKeeps
<1>2. p \in 1..Len(sjWorker.parts) /\ Len(sjWorker'.parts) = Len(sjWorker.parts) /\ sjWorker'.parts[p].part.stack # Unsupported
      /\ Len(sjWorker'.parts[p].steps) = Len(sjWorker.parts[p].steps) /\ sjWorker'.scan = sjWorker.scan
  BY Zenon DEF SJInItsPart
<1>3. Len(sjWorker.parts) \in Nat /\ p \in Nat
  BY SJInItsPartKeeps
<1>4. p \in 1..Len(sjWorker'.parts) + 1 /\ p <= Len(sjWorker'.parts) /\ p <= Len(sjWorker'.parts) + 1
  <2>1. p \in 1..Len(sjWorker'.parts) /\ Len(sjWorker'.parts) \in Nat
    BY <1>2, <1>3, Zenon
  <2> QED
    BY <2>1, SJPlaces, Zenon
<1>5. \A n \in 1..Len(sjWorker.parts) : n < p => sjWorker'.parts[n] = sjWorker.parts[n]
  <2>1. \A n \in 1..Len(sjWorker.parts) : n < p => n # p
    BY <1>2, <1>3, SJPlaces, Zenon
  <2> QED
    BY <2>1, Zenon DEF SJInItsPart
<1>6. sjWorker'.part = p /\ SJPart' = sjWorker'.parts[p]
  BY DEF SJPart
<1> HIDE DEF p
<1>7. sjWorker.ran => \E n \in 1..Len(sjWorker.parts) : n < p /\ sjWorker.parts[n].part.stack # Unsupported
  BY DEF SJInv, SJPlace, p
<1>8. sjWorker.ran => \E n \in 1..Len(sjWorker'.parts) : n < p /\ sjWorker'.parts[n].part.stack # Unsupported
  BY <1>2, <1>5, <1>7, Zenon
<1>9. sjWorker'.pc \notin {"prepare", "taken", "idle", "part", "finish", "clear"}
  OBVIOUS
<1>10. /\ sjWorker'.step \in 1..Len(sjWorker'.parts[p].steps) + 1
       /\ sjWorker'.pc = "exec" => sjWorker'.step <= Len(sjWorker'.parts[p].steps) /\ sjWorker'.pfail = ""
  BY <1>2, Zenon DEF p
<1>11. SJPlace'
  BY <1>1, <1>2, <1>4, <1>6, <1>8, <1>9, <1>10, Zenon DEF SJPlace
<1>12. sjWorker.fail = "" => \A n \in 1..Len(sjWorker.parts) : n < p => \A i \in 1..Len(sjWorker.parts[n].steps) : SJFair(sjWorker.scan, sjWorker.parts[n].steps[i])
  BY DEF SJInv, SJFairSoFar, p
<1>13. SJFairSoFar'
  <2>1. sjWorker'.fail = "" => \A n \in 1..Len(sjWorker'.parts) : n < sjWorker'.part =>
          \A i \in 1..Len(sjWorker'.parts[n].steps) : SJFair(sjWorker'.scan, sjWorker'.parts[n].steps[i])
    <3> SUFFICES ASSUME sjWorker.fail = "", NEW n \in 1..Len(sjWorker.parts), n < p
                 PROVE  \A i \in 1..Len(sjWorker'.parts[n].steps) : SJFair(sjWorker'.scan, sjWorker'.parts[n].steps[i])
      BY <1>2, <1>6, Zenon
    <3>1. sjWorker'.parts[n] = sjWorker.parts[n]
      BY <1>5, Zenon
    <3> QED
      BY <1>2, <1>12, <3>1, Zenon
  <2>2. sjWorker'.pc \in {"step", "exec"} /\ sjWorker'.pfail = "" =>
          \A i \in 1..Len(SJPart'.steps) : i < sjWorker'.step => SJFair(sjWorker'.scan, SJPart'.steps[i])
    BY <1>2, <1>6, Zenon DEF p
  <2> QED
    BY <2>1, <2>2, Zenon DEF SJFairSoFar
<1>14. SJFailureIsShown'
  <2> SUFFICES ASSUME NEW name \in SJStepNames
               PROVE  /\ sjWorker'.fail = FailureOf(name) => \E n \in 1..Len(sjWorker'.parts) : n < sjWorker'.part /\ SJFailedIn(sjWorker'.parts[n], Len(sjWorker'.parts[n].steps), name)
                      /\ sjWorker'.pc \in {"step", "exec"} /\ sjWorker'.pfail = FailureOf(name) => SJFailedIn(SJPart', sjWorker'.step - 1, name)
    BY Zenon DEF SJFailureIsShown
  <2>1. sjWorker.fail = FailureOf(name) => \E n \in 1..Len(sjWorker.parts) : n < p /\ SJFailedIn(sjWorker.parts[n], Len(sjWorker.parts[n].steps), name)
    BY DEF SJInv, SJFailureIsShown, p
  <2>2. sjWorker'.fail = FailureOf(name) => \E n \in 1..Len(sjWorker'.parts) : n < sjWorker'.part /\ SJFailedIn(sjWorker'.parts[n], Len(sjWorker'.parts[n].steps), name)
    BY <1>2, <1>5, <1>6, <2>1, Zenon
  <2>3. sjWorker'.pfail = FailureOf(name) => SJFailedIn(SJPart', sjWorker'.step - 1, name)
    BY <1>6, Zenon DEF p
  <2> QED
    BY <2>2, <2>3, Zenon
<1> QED
  BY <1>1, <1>11, <1>13, <1>14 DEF SJInv

\* The loop after a part.
LEMMA SJPartEnds ==
  ASSUME SJInv, SJInItsPart, NEW failure \in SJFailures, sjWorker'.pc \in {"finish", "part"}, sjWorker'.part = sjWorker.part + 1,
         sjWorker'.fail = (IF sjWorker.fail = "" THEN failure ELSE sjWorker.fail), sjWorker'.ran, sjWorker'.pfail = "",
         sjWorker'.pc = "finish" => sjWorker'.fail # "",
         failure = "" => \A i \in 1..Len(sjWorker.parts[sjWorker.part].steps) : SJFair(sjWorker.scan, sjWorker'.parts[sjWorker.part].steps[i]),
         \A name \in SJStepNames : failure = FailureOf(name) =>
            SJFailedIn(sjWorker'.parts[sjWorker.part], Len(sjWorker.parts[sjWorker.part].steps), name)
  PROVE  SJInv'
<1> DEFINE p == sjWorker.part
<1>1. /\ SJKinds' /\ SJOneRuns' /\ SJVerdict'
      /\ \A n \in 1..Len(sjWorker'.parts) : (sjWorker'.parts[n].part.stack # Unsupported) = (Len(sjWorker'.parts[n].steps) > 0)
  BY SJInItsPartKeeps
<1>2. p \in 1..Len(sjWorker.parts) /\ Len(sjWorker'.parts) = Len(sjWorker.parts) /\ sjWorker'.parts[p].part.stack # Unsupported
      /\ Len(sjWorker'.parts[p].steps) = Len(sjWorker.parts[p].steps) /\ sjWorker'.scan = sjWorker.scan
  BY Zenon DEF SJInItsPart
<1>3. Len(sjWorker.parts) \in Nat /\ p \in Nat
  BY SJInItsPartKeeps
<1>4. p + 1 \in 1..Len(sjWorker'.parts) + 1 /\ p + 1 <= Len(sjWorker'.parts) + 1 /\ p \in 1..Len(sjWorker'.parts) /\ p < p + 1
  <2>1. p \in 1..Len(sjWorker'.parts) /\ Len(sjWorker'.parts) \in Nat
    BY <1>2, <1>3, Zenon
  <2> QED
    BY <2>1, SJPlaces, Zenon
<1>5. \A n \in 1..Len(sjWorker.parts) : (n < p + 1 => n = p \/ n < p) /\ (n < p => n < p + 1)
  BY <1>2, <1>3, SJPlaces, Zenon
<1>6. \A n \in 1..Len(sjWorker.parts) : n < p => sjWorker'.parts[n] = sjWorker.parts[n]
  <2>1. \A n \in 1..Len(sjWorker.parts) : n < p => n # p
    BY <1>2, <1>3, SJPlaces, Zenon
  <2> QED
    BY <2>1, Zenon DEF SJInItsPart
<1>7. sjWorker'.part = p + 1
  OBVIOUS
<1> HIDE DEF p
<1>8. \E n \in 1..Len(sjWorker'.parts) : n < p + 1 /\ sjWorker'.parts[n].part.stack # Unsupported
  BY <1>2, <1>4, Zenon
<1>9. sjWorker'.pc \notin {"prepare", "taken", "idle", "step", "exec", "clear"}
  OBVIOUS
<1>10. SJPlace'
  BY <1>1, <1>4, <1>7, <1>8, <1>9, Zenon DEF SJPlace
<1>11. sjWorker.fail = "" => \A n \in 1..Len(sjWorker.parts) : n < p => \A i \in 1..Len(sjWorker.parts[n].steps) : SJFair(sjWorker.scan, sjWorker.parts[n].steps[i])
  BY DEF SJInv, SJFairSoFar, p
<1>12. SJFairSoFar'
  <2>1. ASSUME sjWorker'.fail = "", NEW n \in 1..Len(sjWorker.parts), n < p + 1
        PROVE  \A i \in 1..Len(sjWorker'.parts[n].steps) : SJFair(sjWorker'.scan, sjWorker'.parts[n].steps[i])
    <3>1. sjWorker.fail = "" /\ failure = ""
      BY <2>1, Zenon
    <3>2. CASE n = p
      BY <1>2, <3>1, <3>2, Zenon DEF p
    <3>3. CASE n < p
      <4>1. sjWorker'.parts[n] = sjWorker.parts[n]
        BY <1>6, <3>3, Zenon
      <4> QED
        BY <1>2, <1>11, <3>1, <3>3, <4>1, Zenon
    <3> QED
      BY <1>5, <2>1, <3>2, <3>3, Zenon
  <2> QED
    BY <1>2, <1>7, <1>9, <2>1, Zenon DEF SJFairSoFar
<1>13. SJFailureIsShown'
  <2> SUFFICES ASSUME NEW name \in SJStepNames, sjWorker'.fail = FailureOf(name)
               PROVE  \E n \in 1..Len(sjWorker'.parts) : n < p + 1 /\ SJFailedIn(sjWorker'.parts[n], Len(sjWorker'.parts[n].steps), name)
    BY <1>7, <1>9, Zenon DEF SJFailureIsShown
  <2>1. CASE sjWorker.fail = ""
    BY <1>2, <1>4, <2>1, Zenon DEF p
  <2>2. CASE sjWorker.fail # ""
    <3>1. \E n \in 1..Len(sjWorker.parts) : n < p /\ SJFailedIn(sjWorker.parts[n], Len(sjWorker.parts[n].steps), name)
      BY <2>2 DEF SJInv, SJFailureIsShown, p
    <3> QED
      BY <1>2, <1>5, <1>6, <3>1, Zenon
  <2> QED
    BY <2>1, <2>2
<1> QED
  BY <1>1, <1>10, <1>12, <1>13 DEF SJInv

\* The worker becomes w, its step s told a state.
SJTellsStep(w, s, state) ==
  /\ SJInItsPart /\ sjWorker'.pc = w.pc /\ sjWorker'.part = w.part /\ sjWorker'.step = w.step
  /\ sjWorker'.fail = w.fail /\ sjWorker'.pfail = w.pfail /\ sjWorker'.ran = w.ran
  /\ \A i \in 1..Len(sjWorker.parts[sjWorker.part].steps) : i # s =>
       sjWorker'.parts[sjWorker.part].steps[i] = sjWorker.parts[sjWorker.part].steps[i]
  /\ sjWorker'.parts[sjWorker.part].steps[s].state = state
  /\ sjWorker'.parts[sjWorker.part].steps[s].name = sjWorker.parts[sjWorker.part].steps[s].name

\* A worker that tells a step of its part is in its part.
LEMMA SJTellsAStep ==
  ASSUME SJInv, sjWorker.pc \in {"step", "exec"}, NEW w \in SJWorkers, w.pc \in SJAtWork, w.id = sjWorker.id, w.scan = sjWorker.scan,
         w.parts = sjWorker.parts, NEW s \in 1..Len(sjWorker.parts[sjWorker.part].steps), NEW state \in StepState,
         sjWorker' = [w EXCEPT !.parts[sjWorker.part].steps[s].state = state],
         UNCHANGED <<sjRec, sjDisk, sjQueue, sjMade, sjUp, sjReg, sjSettings>>
  PROVE  SJTellsStep(w, s, state)
<1>1. sjWorker.parts[sjWorker.part].part.stack # Unsupported /\ sjWorker.part <= Len(sjWorker.parts) /\ sjWorker.part \in 1..Len(sjWorker.parts) + 1
  BY DEF SJInv, SJPlace, SJPart
<1>2. sjWorker \in SJWorkers /\ sjWorker.parts \in Seq(SJPartRecs)
  BY SJWorkerFields DEF SJInv, SJKinds
<1>3. Len(sjWorker.parts) \in Nat
  BY <1>2
<1>4. sjWorker.part \in 1..Len(sjWorker.parts)
  <2>1. \A l \in Nat : \A p \in 1..l + 1 : p <= l => p \in 1..l
    OBVIOUS
  <2> QED
    BY <1>1, <1>3, <2>1, Zenon
<1>5. sjWorker.part \in 1..Len(w.parts) /\ s \in 1..Len(w.parts[sjWorker.part].steps)
  BY <1>4, Zenon
<1>6. SJToldAs(sjWorker', w, sjWorker.part, s, state)
  BY <1>5, SJToldIs, Zenon
<1>7. SJInItsPart
  BY <1>1, <1>4, <1>6, Zenon DEF SJInItsPart, SJToldAs
<1> QED
  BY <1>6, <1>7, Zenon DEF SJToldAs, SJTellsStep

\* Where the worker is in the steps of its part.
LEMMA SJAtStep ==
  ASSUME SJInv, sjWorker.pc \in {"step", "exec"}
  PROVE  /\ sjWorker \in SJWorkers /\ SJPart = sjWorker.parts[sjWorker.part] /\ sjWorker.pc \in SJAtWork
         /\ sjWorker.part \in 1..Len(sjWorker.parts) /\ Len(SJPart.steps) \in Nat /\ sjWorker.step \in 1..Len(SJPart.steps) + 1
         /\ \A i \in 1..Len(SJPart.steps) : SJPart.steps[i] \in SJStepRecs
         /\ sjWorker.pfail = "" => \A i \in 1..Len(SJPart.steps) : i < sjWorker.step => SJFair(sjWorker.scan, SJPart.steps[i])
         /\ \A name \in SJStepNames : sjWorker.pfail = FailureOf(name) => SJFailedIn(SJPart, sjWorker.step - 1, name)
         /\ SJPart.part.stack # Unsupported
<1>1. /\ sjWorker.part <= Len(sjWorker.parts) /\ sjWorker.part \in 1..Len(sjWorker.parts) + 1 /\ sjWorker.step \in 1..Len(SJPart.steps) + 1
      /\ SJPart = sjWorker.parts[sjWorker.part] /\ SJPart.part.stack # Unsupported
  BY DEF SJInv, SJPlace, SJPart
<1>2. sjWorker \in SJWorkers /\ sjWorker.parts \in Seq(SJPartRecs)
  BY SJWorkerFields DEF SJInv, SJKinds
<1>3. Len(sjWorker.parts) \in Nat
  BY <1>2
<1>4. sjWorker.part \in 1..Len(sjWorker.parts)
  <2>1. \A l \in Nat : \A p \in 1..l + 1 : p <= l => p \in 1..l
    OBVIOUS
  <2> QED
    BY <1>1, <1>3, <2>1, Zenon
<1>5. Len(SJPart.steps) \in Nat /\ \A i \in 1..Len(SJPart.steps) : SJPart.steps[i] \in SJStepRecs
  BY <1>1, <1>2, <1>4, SJPartFields, Zenon
<1>6. sjWorker.pfail = "" => \A i \in 1..Len(SJPart.steps) : i < sjWorker.step => SJFair(sjWorker.scan, SJPart.steps[i])
  BY DEF SJInv, SJFairSoFar
<1>7. \A name \in SJStepNames : sjWorker.pfail = FailureOf(name) => SJFailedIn(SJPart, sjWorker.step - 1, name)
  BY DEF SJInv, SJFailureIsShown
<1> QED
  BY <1>1, <1>2, <1>4, <1>5, <1>6, <1>7 DEF SJAtWork

\* runSteps, its head.
LEMMA SJOpenKeeps ==
  ASSUME SJInv, SJOpen
  PROVE  SJInv'
<1>1. sjWorker \in SJWorkers /\ sjWorker.pc = "part" /\ sjWorker.part <= Len(sjWorker.parts) /\ SJPart.part.stack # Unsupported
  BY DEF SJInv, SJKinds, SJOpen
<1>2. UNCHANGED <<sjRec, sjDisk, sjQueue, sjMade, sjUp, sjReg, sjSettings>>
  BY DEF SJOpen
<1>9. sjWorker.parts \in Seq(SJPartRecs)
  BY <1>1, SJWorkerFields
<1>3. sjWorker.part \in 1..Len(sjWorker.parts) + 1 /\ sjWorker.pfail = ""
  BY <1>1 DEF SJInv, SJPlace
<1>4. Len(sjWorker.parts) \in Nat
  BY <1>9
<1>5. sjWorker.part \in 1..Len(sjWorker.parts)
  <2>1. \A l \in Nat : \A p \in 1..l + 1 : p <= l => p \in 1..l
    OBVIOUS
  <2> QED
    BY <1>1, <1>3, <1>4, <2>1, Zenon
<1>6. Len(sjWorker.parts[sjWorker.part].steps) \in Nat
  BY <1>1, <1>5, SJPartFields
<1>7. CASE sjWorker' = SJAfterPart("SANDBOX_UNAVAILABLE")
  <2>1. "SANDBOX_UNAVAILABLE" \in SJFailures /\ \A name \in SJStepNames : FailureOf(name) # "SANDBOX_UNAVAILABLE"
    BY SJNamedFailures DEF SJFailures
  <2>2. /\ sjWorker' \in SJWorkers /\ sjWorker'.id = sjWorker.id /\ sjWorker'.scan = sjWorker.scan /\ sjWorker'.parts = sjWorker.parts
        /\ sjWorker'.part = sjWorker.part + 1 /\ sjWorker'.step = 0 /\ sjWorker'.pfail = "" /\ sjWorker'.ran = TRUE
        /\ sjWorker'.fail = (IF sjWorker.fail = "" THEN "SANDBOX_UNAVAILABLE" ELSE sjWorker.fail)
        /\ sjWorker'.pc = (IF sjWorker'.fail \in {"STOPPED", "SANDBOX_UNAVAILABLE"} THEN "finish" ELSE "part")
    BY <1>7, <2>1, SJAfterPartIs, Zenon
  <2>3. sjWorker'.pc \in {"finish", "part"} /\ (sjWorker'.pc = "finish" => sjWorker'.fail # "")
    BY <2>2
  <2>4. SJInItsPart
    BY <1>1, <1>2, <1>5, <2>2, <2>3 DEF SJInItsPart, SJPart, SJAtWork
  <2>5. "SANDBOX_UNAVAILABLE" # ""
    OBVIOUS
  <2> QED
    BY <2>1, <2>2, <2>3, <2>4, <2>5, SJPartEnds, Zenon
<1>8. CASE sjWorker' = [sjWorker EXCEPT !.pc = "step", !.step = 1]
  <2>1. /\ sjWorker' \in SJWorkers /\ sjWorker'.id = sjWorker.id /\ sjWorker'.scan = sjWorker.scan /\ sjWorker'.parts = sjWorker.parts
        /\ sjWorker'.part = sjWorker.part /\ sjWorker'.step = 1 /\ sjWorker'.pfail = "" /\ sjWorker'.ran = sjWorker.ran
        /\ sjWorker'.fail = sjWorker.fail /\ sjWorker'.pc = "step"
    BY <1>1, <1>3, <1>8 DEF SJWorkers, SJAtWork
  <2>2. SJInItsPart
    BY <1>1, <1>2, <1>5, <2>1 DEF SJInItsPart, SJPart, SJAtWork
  <2>3. 1 \in 1..Len(sjWorker.parts[sjWorker.part].steps) + 1 /\ \A i \in 1..Len(sjWorker.parts[sjWorker.part].steps) : ~(i < 1)
    BY <1>6
  <2>4. \A name \in SJStepNames : FailureOf(name) # ""
    BY SJNamedFailures
  <2>5. sjWorker'.pc \in {"step", "exec"} /\ sjWorker'.pc # "exec"
    BY <2>1
  <2> QED
    BY <2>1, <2>2, <2>3, <2>4, <2>5, SJStepGoes, Zenon
<1> QED
  BY <1>7, <1>8 DEF SJOpen

\* A failed step stays among the first ones while a later one is told.
LEMMA SJFailedStays ==
  ASSUME NEW p, NEW q, NEW n \in Nat, NEW m \in Nat, n <= m, NEW name, SJFailedIn(p, n, name), \A i \in 1..n : q.steps[i] = p.steps[i]
  PROVE  SJFailedIn(q, m, name)
<1>1. \A i \in 1..n : i \in 1..m
  OBVIOUS
<1> QED
  BY <1>1, Zenon DEF SJFailedIn

\* runSteps, before Exec.
LEMMA SJBeforeStepKeeps ==
  ASSUME SJInv, SJBeforeStep
  PROVE  SJInv'
<1> DEFINE state == CASE SJPart.steps[sjWorker.step].skip -> "SKIPPED" [] sjWorker.pfail # "" -> "NOT_RUN" [] OTHER -> "RUNNING"
           moved == IF state = "RUNNING" THEN [sjWorker EXCEPT !.pc = "exec"] ELSE [sjWorker EXCEPT !.step = sjWorker.step + 1]
           steps == sjWorker.parts[sjWorker.part].steps
           s == sjWorker.step
<1>1. sjWorker.pc = "step" /\ s <= Len(SJPart.steps)
      /\ UNCHANGED <<sjRec, sjDisk, sjQueue, sjMade, sjUp, sjReg, sjSettings>> /\ sjWorker' = SJTold(moved, state)
  BY DEF SJBeforeStep
<1>2. /\ sjWorker \in SJWorkers /\ SJPart = sjWorker.parts[sjWorker.part] /\ sjWorker.pc \in SJAtWork
      /\ Len(steps) \in Nat /\ s \in 1..Len(steps) + 1
      /\ sjWorker.pfail = "" => \A i \in 1..Len(steps) : i < s => SJFair(sjWorker.scan, steps[i])
      /\ \A name \in SJStepNames : sjWorker.pfail = FailureOf(name) => SJFailedIn(SJPart, s - 1, name)
  BY <1>1, SJAtStep
<1>3. s \in 1..Len(steps)
  <2>1. \A l \in Nat : \A p \in 1..l + 1 : p <= l => p \in 1..l
    OBVIOUS
  <2> QED
    BY <1>1, <1>2, <2>1, Zenon
<1>4. state \in StepState
  BY DEF StepState
<1>5. state = "RUNNING" => sjWorker.pfail = ""
  OBVIOUS
<1>6. sjWorker.pfail = "" => state \in {"SKIPPED", "RUNNING"}
  OBVIOUS
<1> HIDE DEF state
<1> USE DEF SJTold
<1>7. sjWorker' = [moved EXCEPT !.parts[sjWorker.part].steps[s].state = state]
  BY <1>1 DEF SJTold
<1> HIDE DEF SJTold, moved, s, steps
<1>8. s \in Nat /\ s - 1 \in Nat /\ s \in 1..Len(steps) + 1 /\ s + 1 \in 1..Len(steps) + 1 /\ s + 1 \in Nat /\ (s + 1) - 1 = s /\ s - 1 <= s /\ s <= Len(steps)
      /\ \A i \in 1..s - 1 : i \in 1..Len(steps) /\ i # s
  <2>1. Len(steps) \in Nat /\ s \in 1..Len(steps)
    BY <1>2, <1>3, Zenon
  <2> QED
    BY <2>1
<1>9. \A i \in 1..Len(steps) : (i < s + 1 => i < s \/ i = s) /\ (i < s => i # s)
  BY <1>3, <1>8
<1>10. /\ moved \in SJWorkers /\ moved.pc = (IF state = "RUNNING" THEN "exec" ELSE "step") /\ moved.step = (IF state = "RUNNING" THEN s ELSE s + 1)
       /\ moved.id = sjWorker.id /\ moved.scan = sjWorker.scan /\ moved.parts = sjWorker.parts /\ moved.part = sjWorker.part
       /\ moved.fail = sjWorker.fail /\ moved.pfail = sjWorker.pfail /\ moved.ran = sjWorker.ran
  BY <1>1, <1>2, <1>8 DEF moved, SJWorkers, SJAtWork, s
<1>11. moved.pc \in SJAtWork /\ moved.pc \in {"step", "exec"}
  BY <1>10 DEF SJAtWork
<1>12. sjWorker.pc \in {"step", "exec"}
  BY <1>1
<1>13. /\ SJInItsPart /\ sjWorker'.pc = moved.pc /\ sjWorker'.part = moved.part /\ sjWorker'.step = moved.step
       /\ sjWorker'.fail = moved.fail /\ sjWorker'.pfail = moved.pfail /\ sjWorker'.ran = moved.ran
       /\ \A i \in 1..Len(steps) : i # s => sjWorker'.parts[sjWorker.part].steps[i] = steps[i]
       /\ sjWorker'.parts[sjWorker.part].steps[s].state = state
  <2>1. SJTellsStep(moved, s, state)
    BY <1>1, <1>3, <1>4, <1>7, <1>10, <1>11, <1>12, SJTellsAStep, Zenon DEF steps
  <2> QED
    BY <2>1, Zenon DEF SJTellsStep, steps
<1>14. \A i \in 1..Len(steps) : i < s => sjWorker'.parts[sjWorker.part].steps[i] = steps[i]
  BY <1>9, <1>13, Zenon
<1>15. ASSUME NEW name \in SJStepNames, sjWorker.pfail = FailureOf(name), NEW m \in Nat, s - 1 <= m
       PROVE  SJFailedIn(sjWorker'.parts[sjWorker.part], m, name)
  <2>1. SJFailedIn(SJPart, s - 1, name)
    BY <1>2, <1>15
  <2>2. \A i \in 1..s - 1 : sjWorker'.parts[sjWorker.part].steps[i] = SJPart.steps[i]
    BY <1>2, <1>8, <1>13, Zenon DEF steps
  <2> QED
    BY <1>8, <1>15, <2>1, <2>2, SJFailedStays, Zenon
<1>16. CASE state = "RUNNING"
  <2>1. sjWorker'.pc = "exec" /\ sjWorker'.step = s /\ sjWorker'.pfail = ""
    BY <1>5, <1>10, <1>13, <1>16
  <2>2. \A i \in 1..Len(steps) : i < s => SJFair(sjWorker.scan, sjWorker'.parts[sjWorker.part].steps[i])
    BY <1>2, <1>5, <1>14, <1>16, Zenon
  <2>3. \A name \in SJStepNames : sjWorker'.pfail = FailureOf(name) => SJFailedIn(sjWorker'.parts[sjWorker.part], s - 1, name)
    <3>1. s - 1 <= s - 1
      BY <1>8
    <3> QED
      BY <1>8, <1>10, <1>13, <1>15, <3>1, Zenon
  <2> QED
    BY <1>8, <1>10, <1>11, <1>13, <2>1, <2>2, <2>3, SJStepGoes, Zenon DEF steps
<1>17. CASE state # "RUNNING"
  <2>1. sjWorker'.pc = "step" /\ sjWorker'.step = s + 1 /\ sjWorker'.pfail = sjWorker.pfail /\ sjWorker'.pc # "exec"
    BY <1>10, <1>13, <1>17
  <2>2. ASSUME sjWorker'.pfail = "", NEW i \in 1..Len(steps), i < s + 1
        PROVE  SJFair(sjWorker.scan, sjWorker'.parts[sjWorker.part].steps[i])
    <3>1. CASE i = s
      <4>1. state = "SKIPPED"
        BY <1>6, <1>17, <2>1, <2>2
      <4> QED
        BY <1>13, <3>1, <4>1 DEF SJFair
    <3>2. CASE i < s
      BY <1>2, <1>14, <2>1, <2>2, <3>2, Zenon
    <3> QED
      BY <1>9, <2>2, <3>1, <3>2, Zenon
  <2>3. \A name \in SJStepNames : sjWorker'.pfail = FailureOf(name) => SJFailedIn(sjWorker'.parts[sjWorker.part], (s + 1) - 1, name)
    BY <1>8, <1>15, <2>1, Zenon
  <2> QED
    BY <1>8, <1>10, <1>11, <1>13, <2>1, <2>2, <2>3, SJStepGoes, Zenon DEF steps
<1> QED
  BY <1>16, <1>17

\* What the switch after Exec tells: a failure that names a step is that step's,
\* and a step without a failure is fair.
SJTells(r, scan, name) ==
  /\ r[1] \in {"STOPPED", "PASSED", "FAILED", "SKIPPED"} /\ r[2] \in SJFailures
  /\ r[2] = "" => r[1] \in {"PASSED", "SKIPPED"} \/ (scan /\ name \in {"install", "build"})
  /\ \A other \in SJStepNames : r[2] = FailureOf(other) => other = name /\ r[1] = "FAILED"

\* StepResult does.
LEMMA SJResultTells ==
  ASSUME NEW scan \in BOOLEAN, NEW name \in SJStepNames, NEW python \in BOOLEAN, NEW outcome \in Outcome, NEW cancelled \in BOOLEAN
  PROVE  SJTells(StepResult(scan, name, python, outcome, cancelled), scan, name)
<1> DEFINE r == StepResult(scan, name, python, outcome, cancelled)
<1>1. \/ r = <<"STOPPED", "STOPPED">> \/ r = <<"FAILED", "TIMED_OUT">> \/ r = <<"FAILED", "SANDBOX_UNAVAILABLE">> \/ r = <<"PASSED", "">>
      \/ r = <<"SKIPPED", "">> \/ (scan /\ name \in {"install", "build"} /\ r = <<"FAILED", "">>) \/ r = <<"FAILED", FailureOf(name)>>
  BY DEF StepResult, Outcome
<1> HIDE DEF r
<1>2. /\ \A other \in SJStepNames : FailureOf(other) \notin {"", "STOPPED", "TIMED_OUT", "SANDBOX_UNAVAILABLE"}
      /\ \A other \in SJStepNames : FailureOf(name) = FailureOf(other) => other = name
      /\ FailureOf(name) \in SJFailures /\ FailureOf(name) # ""
  BY SJNamedFailures
<1>3. {"", "STOPPED", "TIMED_OUT", "SANDBOX_UNAVAILABLE"} \subseteq SJFailures
  BY DEF SJFailures
<1>4. CASE r = <<"FAILED", FailureOf(name)>>
  <2>1. r[1] = "FAILED" /\ r[2] = FailureOf(name)
    BY <1>4
  <2> QED
    BY <1>2, <2>1 DEF SJTells, r
<1>5. CASE r = <<"STOPPED", "STOPPED">> \/ r = <<"FAILED", "TIMED_OUT">> \/ r = <<"FAILED", "SANDBOX_UNAVAILABLE">>
  <2>1. r[1] \in {"STOPPED", "FAILED"} /\ r[2] \in {"STOPPED", "TIMED_OUT", "SANDBOX_UNAVAILABLE"}
    BY <1>5
  <2> QED
    BY <1>2, <1>3, <2>1 DEF SJTells, r
<1>6. CASE r = <<"PASSED", "">> \/ r = <<"SKIPPED", "">> \/ (scan /\ name \in {"install", "build"} /\ r = <<"FAILED", "">>)
  <2>1. r[1] \in {"PASSED", "FAILED", "SKIPPED"} /\ r[2] = "" /\ (r[1] = "FAILED" => scan /\ name \in {"install", "build"})
    <3>1. CASE r = <<"PASSED", "">> \/ r = <<"SKIPPED", "">>
      <4>1. r[1] \in {"PASSED", "SKIPPED"} /\ r[2] = ""
        <5>1. <<"PASSED", "">>[1] = "PASSED" /\ <<"PASSED", "">>[2] = "" /\ <<"SKIPPED", "">>[1] = "SKIPPED" /\ <<"SKIPPED", "">>[2] = ""
          OBVIOUS
        <5> QED
          BY <3>1, <5>1, Zenon
      <4>2. r[1] # "FAILED" /\ r[1] \in {"PASSED", "FAILED", "SKIPPED"}
        BY <4>1
      <4> QED
        BY <4>1, <4>2, Zenon
    <3>2. CASE scan /\ name \in {"install", "build"} /\ r = <<"FAILED", "">>
      <4>1. r[1] = "FAILED" /\ r[2] = ""
        BY <3>2
      <4> QED
        BY <3>2, <4>1, Zenon
    <3> QED
      BY <1>6, <3>1, <3>2
  <2> QED
    BY <1>2, <1>3, <2>1 DEF SJTells, r
<1> QED
  BY <1>1, <1>4, <1>5, <1>6

\* runSteps, after Exec.
LEMMA SJExecKeeps ==
  ASSUME SJInv, SJExec
  PROVE  SJInv'
<1> DEFINE steps == sjWorker.parts[sjWorker.part].steps
           s == sjWorker.step
           name == SJPart.steps[s].name
           python == SJPart.part.stack = "python"
<1>1. sjWorker.pc = "exec" /\ UNCHANGED <<sjRec, sjDisk, sjQueue, sjMade, sjUp, sjReg, sjSettings>>
  BY DEF SJExec
<1>2. PICK outcome \in Outcome, large \in BOOLEAN :
        LET result == StepResult(sjWorker.scan, name, python, outcome, sjWorker.cancelled)
            told == IF large /\ result[2] = "" THEN <<"FAILED", "TOO_LARGE">> ELSE result
            moved == IF told[2] = "STOPPED" THEN SJAfterPart("STOPPED") ELSE [sjWorker EXCEPT !.pc = "step", !.step = sjWorker.step + 1, !.pfail = told[2]]
        IN  sjWorker' = SJTold(moved, told[1])
  BY DEF SJExec
<1> DEFINE result == StepResult(sjWorker.scan, name, python, outcome, sjWorker.cancelled)
           told == IF large /\ result[2] = "" THEN <<"FAILED", "TOO_LARGE">> ELSE result
           moved == IF told[2] = "STOPPED" THEN SJAfterPart("STOPPED") ELSE [sjWorker EXCEPT !.pc = "step", !.step = sjWorker.step + 1, !.pfail = told[2]]
<1>3. sjWorker' = [moved EXCEPT !.parts[sjWorker.part].steps[s].state = told[1]]
  BY <1>2 DEF SJTold
<1>4. /\ sjWorker \in SJWorkers /\ SJPart = sjWorker.parts[sjWorker.part] /\ sjWorker.pc \in SJAtWork
      /\ Len(steps) \in Nat /\ s \in 1..Len(steps) + 1
      /\ \A i \in 1..Len(steps) : steps[i] \in SJStepRecs
      /\ sjWorker.pfail = "" => \A i \in 1..Len(steps) : i < s => SJFair(sjWorker.scan, steps[i])
  BY <1>1, SJAtStep
<1>5. s <= Len(steps) /\ sjWorker.pfail = ""
  BY <1>1, <1>4 DEF SJInv, SJPlace
<1>6. s \in 1..Len(steps)
  <2>1. \A l \in Nat : \A p \in 1..l + 1 : p <= l => p \in 1..l
    OBVIOUS
  <2> QED
    BY <1>4, <1>5, <2>1, Zenon
<1>7. name \in SJStepNames /\ sjWorker.scan \in BOOLEAN /\ sjWorker.cancelled \in BOOLEAN /\ python \in BOOLEAN /\ name = steps[s].name
  BY <1>4, <1>6, SJWorkerFields DEF SJStepRecs
<1> HIDE DEF name, python
<1>8. SJTells(result, sjWorker.scan, name)
  BY <1>7, SJResultTells
<1> HIDE DEF result
<1>9. SJTells(told, sjWorker.scan, name)
  <2>1. CASE told = result
    BY <1>8, <2>1
  <2>2. CASE told = <<"FAILED", "TOO_LARGE">>
    <3>4. <<"FAILED", "TOO_LARGE">>[1] = "FAILED" /\ <<"FAILED", "TOO_LARGE">>[2] = "TOO_LARGE"
      OBVIOUS
    <3>1. told[1] = "FAILED" /\ told[2] = "TOO_LARGE"
      BY <2>2, <3>4, Zenon
    <3>2. \A other \in SJStepNames : FailureOf(other) # "TOO_LARGE"
      BY SJNamedFailures
    <3>3. "TOO_LARGE" \in SJFailures
      BY DEF SJFailures
    <3> HIDE DEF told
    <3> QED
      BY <3>1, <3>2, <3>3 DEF SJTells
  <2> QED
    BY <2>1, <2>2
<1> HIDE DEF told
<1>10. told[1] \in StepState
  BY <1>9 DEF SJTells, StepState
<1> HIDE DEF s, steps
<1>11. s \in Nat /\ s + 1 \in 1..Len(steps) + 1 /\ s + 1 \in Nat /\ (s + 1) - 1 = s /\ s \in 1..s
       /\ \A i \in 1..Len(steps) : (i < s + 1 => i < s \/ i = s) /\ (i < s => i # s)
  <2>1. Len(steps) \in Nat
    BY <1>4, Zenon
  <2> QED
    BY <1>6, <2>1
<1>12. sjWorker.pc \in {"step", "exec"}
  BY <1>1
<1>13. CASE told[2] = "STOPPED"
  <2>1. moved = SJAfterPart("STOPPED")
    BY <1>13
  <2>2. "STOPPED" \in SJFailures /\ "STOPPED" # "" /\ \A other \in SJStepNames : FailureOf(other) # "STOPPED"
    BY SJNamedFailures DEF SJFailures
  <2> HIDE DEF moved
  <2>3. /\ moved \in SJWorkers /\ moved.id = sjWorker.id /\ moved.scan = sjWorker.scan /\ moved.parts = sjWorker.parts
        /\ moved.part = sjWorker.part + 1 /\ moved.pfail = "" /\ moved.ran = TRUE
        /\ moved.fail = (IF sjWorker.fail = "" THEN "STOPPED" ELSE sjWorker.fail)
        /\ moved.pc = (IF moved.fail \in {"STOPPED", "SANDBOX_UNAVAILABLE"} THEN "finish" ELSE "part")
    BY <2>1, <2>2, SJAfterPartIs, Zenon
  <2>4. moved.pc \in SJAtWork /\ moved.pc \in {"finish", "part"} /\ (moved.pc = "finish" => moved.fail # "")
    BY <2>3 DEF SJAtWork
  <2>5. /\ SJInItsPart /\ sjWorker'.pc = moved.pc /\ sjWorker'.part = moved.part
        /\ sjWorker'.fail = moved.fail /\ sjWorker'.pfail = moved.pfail /\ sjWorker'.ran = moved.ran
    <3>1. SJTellsStep(moved, s, told[1])
      BY <1>1, <1>3, <1>6, <1>10, <1>12, <2>3, <2>4, SJTellsAStep, Zenon DEF steps
    <3> QED
      BY <3>1, Zenon DEF SJTellsStep
  <2> QED
    BY <2>2, <2>3, <2>4, <2>5, SJPartEnds, Zenon
<1>14. CASE told[2] # "STOPPED"
  <2> DEFINE next == s + 1
             pfail == told[2]
  <2>1. moved = [sjWorker EXCEPT !.pc = "step", !.step = next, !.pfail = pfail] /\ next \in Nat /\ pfail \in SJFailures
    BY <1>9, <1>11, <1>14 DEF SJTells, s
  <2>8. next = s + 1 /\ pfail = told[2]
    OBVIOUS
  <2> HIDE DEF moved, next, pfail
  <2>2. /\ moved \in SJWorkers /\ moved.pc = "step" /\ moved.step = next /\ moved.id = sjWorker.id /\ moved.scan = sjWorker.scan
        /\ moved.parts = sjWorker.parts /\ moved.part = sjWorker.part /\ moved.fail = sjWorker.fail /\ moved.pfail = pfail /\ moved.ran = sjWorker.ran
    BY <1>4, <2>1 DEF SJWorkers, SJAtWork
  <2>3. moved.pc \in SJAtWork /\ moved.pc \in {"step", "exec"} /\ moved.pc # "exec"
    BY <2>2 DEF SJAtWork
  <2>4. /\ SJInItsPart /\ sjWorker'.pc = moved.pc /\ sjWorker'.part = moved.part /\ sjWorker'.step = moved.step
        /\ sjWorker'.fail = moved.fail /\ sjWorker'.pfail = moved.pfail /\ sjWorker'.ran = moved.ran
        /\ \A i \in 1..Len(steps) : i # s => sjWorker'.parts[sjWorker.part].steps[i] = steps[i]
        /\ sjWorker'.parts[sjWorker.part].steps[s].state = told[1] /\ sjWorker'.parts[sjWorker.part].steps[s].name = name
    <3>1. SJTellsStep(moved, s, told[1])
      BY <1>1, <1>3, <1>6, <1>10, <1>12, <2>2, <2>3, SJTellsAStep, Zenon DEF steps
    <3> QED
      BY <1>7, <3>1, Zenon DEF SJTellsStep, steps
  <2>5. ASSUME pfail = "", NEW i \in 1..Len(steps), i < next
        PROVE  SJFair(sjWorker.scan, sjWorker'.parts[sjWorker.part].steps[i])
    <3>1. CASE i = s
      <4>1. told[1] \in {"PASSED", "SKIPPED"} \/ (sjWorker.scan /\ name \in {"install", "build"})
        BY <1>9, <2>5, <2>8 DEF SJTells
      <4> QED
        BY <2>4, <3>1, <4>1 DEF SJFair
    <3>2. CASE i < s
      BY <1>4, <1>5, <1>11, <2>4, <3>2, Zenon
    <3> QED
      BY <1>11, <2>5, <2>8, <3>1, <3>2, Zenon
  <2>6. ASSUME NEW other \in SJStepNames, pfail = FailureOf(other)
        PROVE  SJFailedIn(sjWorker'.parts[sjWorker.part], next - 1, other)
    <3>1. other = name /\ told[1] = "FAILED"
      BY <1>9, <2>6, <2>8 DEF SJTells
    <3>2. next - 1 = s /\ s \in 1..s
      BY <1>11, <2>8, Zenon
    <3> QED
      BY <2>4, <3>1, <3>2, Zenon DEF SJFailedIn
  <2>7. next \in 1..Len(steps) + 1
    BY <1>11, <2>8, Zenon
  <2> QED
    BY <2>2, <2>3, <2>4, <2>5, <2>6, <2>7, SJStepGoes, Zenon DEF steps
<1> QED
  BY <1>13, <1>14

\* runSteps, its tail.
LEMMA SJEndPartKeeps ==
  ASSUME SJInv, SJEndPart
  PROVE  SJInv'
<1> DEFINE steps == sjWorker.parts[sjWorker.part].steps
           s == sjWorker.step
<1>1. sjWorker.pc = "step" /\ s > Len(SJPart.steps) /\ UNCHANGED <<sjRec, sjDisk, sjQueue, sjMade, sjUp, sjReg, sjSettings>>
  BY DEF SJEndPart
<1>2. /\ sjWorker \in SJWorkers /\ SJPart = sjWorker.parts[sjWorker.part] /\ sjWorker.pc \in SJAtWork
      /\ sjWorker.part \in 1..Len(sjWorker.parts) /\ Len(steps) \in Nat /\ s \in 1..Len(steps) + 1
      /\ sjWorker.pfail = "" => \A i \in 1..Len(steps) : i < s => SJFair(sjWorker.scan, steps[i])
      /\ \A name \in SJStepNames : sjWorker.pfail = FailureOf(name) => SJFailedIn(SJPart, s - 1, name)
      /\ SJPart.part.stack # Unsupported
  BY <1>1, SJAtStep
<1>3. Len(steps) \in Nat /\ s \in 1..Len(steps) + 1 /\ s > Len(steps)
  BY <1>1, <1>2, Zenon
<1>4. s - 1 = Len(steps) /\ \A i \in 1..Len(steps) : i < s
  BY <1>3
<1>5. /\ sjWorker.pfail = "" => \A i \in 1..Len(steps) : SJFair(sjWorker.scan, steps[i])
      /\ \A name \in SJStepNames : sjWorker.pfail = FailureOf(name) => SJFailedIn(SJPart, Len(steps), name)
  BY <1>2, <1>4, Zenon
<1>6. sjWorker.pc \in {"part", "step", "exec"} /\ sjWorker.pc \in {"step", "exec"}
  BY <1>1
<1>7. CASE sjWorker' = SJAfterPart(sjWorker.pfail)
  <2>1. sjWorker.pfail \in SJFailures
    BY <1>2, SJWorkerFields
  <2>2. /\ sjWorker' \in SJWorkers /\ sjWorker'.id = sjWorker.id /\ sjWorker'.scan = sjWorker.scan /\ sjWorker'.parts = sjWorker.parts
        /\ sjWorker'.part = sjWorker.part + 1 /\ sjWorker'.step = 0 /\ sjWorker'.pfail = "" /\ sjWorker'.ran = TRUE
        /\ sjWorker'.fail = (IF sjWorker.fail = "" THEN sjWorker.pfail ELSE sjWorker.fail)
        /\ sjWorker'.pc = (IF sjWorker'.fail \in {"STOPPED", "SANDBOX_UNAVAILABLE"} THEN "finish" ELSE "part")
    BY <1>7, <2>1, SJAfterPartIs, Zenon
  <2>3. sjWorker'.pc \in {"finish", "part"} /\ (sjWorker'.pc = "finish" => sjWorker'.fail # "") /\ sjWorker'.pc \in SJAtWork
    BY <2>2 DEF SJAtWork
  <2>4. SJInItsPart
    BY <1>1, <1>2, <1>6, <2>2, <2>3, Zenon DEF SJInItsPart
  <2> QED
    BY <1>2, <1>5, <2>1, <2>2, <2>3, <2>4, SJPartEnds, Zenon
<1>8. ASSUME NEW i \in DOMAIN SJPart.steps, SJPart.steps[i].name = "scan",
             sjWorker' = [SJAfterPart("SCAN_FAILED") EXCEPT !.parts[sjWorker.part].steps[i].state = "FAILED"]
      PROVE  SJInv'
  <2> DEFINE moved == SJAfterPart("SCAN_FAILED")
  <2>1. "SCAN_FAILED" = FailureOf("scan") /\ "scan" \in SJStepNames /\ "SCAN_FAILED" # "" /\ "FAILED" \in StepState
    BY DEF FailureOf, SJStepNames, StepState
  <2>2. "SCAN_FAILED" \in SJFailures /\ \A name \in SJStepNames : FailureOf(name) = "SCAN_FAILED" => name = "scan"
    BY <2>1, SJNamedFailures
  <2>3. sjWorker' = [moved EXCEPT !.parts[sjWorker.part].steps[i].state = "FAILED"]
    BY <1>8
  <2>4. moved = SJAfterPart("SCAN_FAILED")
    OBVIOUS
  <2> HIDE DEF moved
  <2>5. /\ moved \in SJWorkers /\ moved.id = sjWorker.id /\ moved.scan = sjWorker.scan /\ moved.parts = sjWorker.parts
        /\ moved.part = sjWorker.part + 1 /\ moved.pfail = "" /\ moved.ran = TRUE
        /\ moved.fail = (IF sjWorker.fail = "" THEN "SCAN_FAILED" ELSE sjWorker.fail)
        /\ moved.pc = (IF moved.fail \in {"STOPPED", "SANDBOX_UNAVAILABLE"} THEN "finish" ELSE "part")
    BY <2>2, <2>4, SJAfterPartIs, Zenon
  <2>6. moved.pc \in SJAtWork /\ moved.pc \in {"finish", "part"} /\ (moved.pc = "finish" => moved.fail # "")
    BY <2>5 DEF SJAtWork
  <2>7. i \in 1..Len(steps)
    <3>1. steps \in Seq(SJStepRecs) /\ i \in DOMAIN steps
      BY <1>2, <1>8, SJPartFields, Zenon
    <3> HIDE DEF steps
    <3> QED
      BY <3>1
  <2>8. /\ SJInItsPart /\ sjWorker'.pc = moved.pc /\ sjWorker'.part = moved.part
        /\ sjWorker'.fail = moved.fail /\ sjWorker'.pfail = moved.pfail /\ sjWorker'.ran = moved.ran
        /\ sjWorker'.parts[sjWorker.part].steps[i].state = "FAILED"
        /\ sjWorker'.parts[sjWorker.part].steps[i].name = steps[i].name
    <3>1. SJTellsStep(moved, i, "FAILED")
      BY <1>1, <1>6, <2>1, <2>3, <2>5, <2>6, <2>7, SJTellsAStep, Zenon
    <3> QED
      BY <3>1, Zenon DEF SJTellsStep
  <2>9. SJFailedIn(sjWorker'.parts[sjWorker.part], Len(steps), "scan")
    BY <1>2, <1>8, <2>7, <2>8, Zenon DEF SJFailedIn
  <2> QED
    BY <2>1, <2>2, <2>5, <2>6, <2>8, <2>9, SJPartEnds, Zenon
<1> QED
  BY <1>7, <1>8 DEF SJEndPart

\* The steps a job never reached say so, and only they change.
LEMMA SJNotRunIs ==
  ASSUME NEW steps \in Seq(SJStepRecs)
  PROVE  /\ NotRun(steps) \in Seq(SJStepRecs) /\ Len(NotRun(steps)) = Len(steps)
         /\ \A i \in 1..Len(steps) : /\ NotRun(steps)[i].name = steps[i].name /\ NotRun(steps)[i].state \notin {"WAITING", "RUNNING"}
                                     /\ steps[i].state \notin {"WAITING", "RUNNING"} => NotRun(steps)[i] = steps[i]
<1> DEFINE new == NotRun(steps)
<1>1. DOMAIN steps = 1..Len(steps) /\ Len(steps) \in Nat
  OBVIOUS
<1>2. \A i \in 1..Len(steps) : new[i] = IF steps[i].state \in {"WAITING", "RUNNING"} THEN [steps[i] EXCEPT !.state = "NOT_RUN"] ELSE steps[i]
  BY <1>1 DEF NotRun
<1>3. DOMAIN new = 1..Len(steps) /\ new = [i \in 1..Len(steps) |-> new[i]]
  BY <1>1 DEF NotRun
<1> HIDE DEF new
<1>4. ASSUME NEW i \in 1..Len(steps)
      PROVE  /\ new[i] \in SJStepRecs /\ new[i].name = steps[i].name /\ new[i].state \notin {"WAITING", "RUNNING"}
             /\ steps[i].state \notin {"WAITING", "RUNNING"} => new[i] = steps[i]
  <2>1. steps[i] \in SJStepRecs
    OBVIOUS
  <2>2. CASE steps[i].state \in {"WAITING", "RUNNING"}
    <3>1. new[i] = [steps[i] EXCEPT !.state = "NOT_RUN"]
      BY <1>2, <2>2
    <3>2. new[i] \in SJStepRecs /\ new[i].name = steps[i].name /\ new[i].state = "NOT_RUN"
      BY <2>1, <3>1 DEF SJStepRecs, StepState
    <3> QED
      BY <2>2, <3>2
  <2>3. CASE steps[i].state \notin {"WAITING", "RUNNING"}
    BY <1>2, <2>1, <2>3
  <2> QED
    BY <2>2, <2>3
<1>5. new \in Seq(SJStepRecs) /\ Len(new) = Len(steps)
  BY <1>1, <1>3, <1>4
<1> QED
  BY <1>4, <1>5 DEF new

\* run, its last update.
LEMMA SJFinishKeeps ==
  ASSUME SJInv, SJFinish
  PROVE  SJInv'
<1> DEFINE j == sjWorker.id
           state == CASE sjWorker.fail = "" -> "PASSED" [] sjWorker.fail = "STOPPED" -> "STOPPED" [] OTHER -> "FAILED"
           rec == [sjRec[j] EXCEPT !.state = state]
           ps == [n \in DOMAIN sjWorker.parts |-> [sjWorker.parts[n] EXCEPT !.steps = NotRun(sjWorker.parts[n].steps)]]
<1>1. sjWorker.pc = "finish" /\ sjWorker \in SJWorkers /\ UNCHANGED <<sjQueue, sjMade, sjUp, sjReg>> /\ sjUp # "down"
  BY DEF SJFinish, SJInv, SJKinds
<1>2. j \in SJJobs /\ sjRec[j].state = "RUNNING" /\ j # 0
  BY <1>1, SJWorkersJob DEF SJInv, SJOneRuns, SJAtWork
<1>3. sjRec[j] \in SJRecords
  BY <1>2 DEF SJInv, SJKinds, SJNone
<1>4. state \in {"PASSED", "STOPPED", "FAILED"} /\ (state = "PASSED" => sjWorker.fail = "")
  OBVIOUS
<1>5. sjRec' = [sjRec EXCEPT ![j] = rec] /\ (sjDisk' = sjDisk \/ sjDisk' = [sjDisk EXCEPT ![j] = rec])
  BY DEF SJFinish, SJSave
<1>6. sjWorker' = [sjWorker EXCEPT !.pc = "clear", !.parts = ps]
  BY DEF SJFinish
<1>7. sjSettings' \in 0..SJMaxJobs
  <2>1. sjSettings' = IF sjSettings = j THEN 0 ELSE sjSettings
    BY DEF SJFinish
  <2>2. sjSettings \in 0..SJMaxJobs /\ 0 \in 0..SJMaxJobs
    BY SJAssumption DEF SJInv, SJKinds
  <2> QED
    BY <2>1, <2>2, Zenon
<1> HIDE DEF state
<1>8. rec \in SJRecords /\ rec.state = state
  BY <1>3, <1>4, SJRecordTold DEF SJEnded
<1> HIDE DEF rec
<1>9. sjRec' \in [SJJobs -> SJRecords \cup {SJNone}] /\ sjDisk' \in [SJJobs -> SJRecords \cup {SJNone}]
  BY <1>2, <1>5, <1>8 DEF SJInv, SJKinds
<1>10. sjRec'[j].state = state /\ \A k \in SJJobs : k # j => sjRec'[k] = sjRec[k]
  BY <1>2, <1>5, <1>8 DEF SJInv, SJKinds
<1>11. DOMAIN sjWorker.parts = 1..Len(sjWorker.parts) /\ Len(sjWorker.parts) \in Nat
  <2>1. sjWorker.parts \in Seq(SJPartRecs)
    BY <1>1, SJWorkerFields
  <2> QED
    BY <2>1
<1>12. DOMAIN ps = 1..Len(sjWorker.parts) /\ ps = [n \in 1..Len(sjWorker.parts) |-> ps[n]]
  BY <1>11
<1>13. \A n \in 1..Len(sjWorker.parts) : ps[n] = [sjWorker.parts[n] EXCEPT !.steps = NotRun(sjWorker.parts[n].steps)]
  BY <1>11
<1> HIDE DEF ps
<1>14. ASSUME NEW n \in 1..Len(sjWorker.parts)
       PROVE  /\ ps[n] \in SJPartRecs /\ ps[n].part = sjWorker.parts[n].part /\ Len(ps[n].steps) = Len(sjWorker.parts[n].steps)
              /\ \A i \in 1..Len(sjWorker.parts[n].steps) :
                   /\ ps[n].steps[i].name = sjWorker.parts[n].steps[i].name /\ ps[n].steps[i].state \notin {"WAITING", "RUNNING"}
                   /\ sjWorker.parts[n].steps[i].state \notin {"WAITING", "RUNNING"} => ps[n].steps[i] = sjWorker.parts[n].steps[i]
  <2> DEFINE new == NotRun(sjWorker.parts[n].steps)
  <2>1. sjWorker.parts[n] \in SJPartRecs /\ sjWorker.parts[n].steps \in Seq(SJStepRecs)
    BY <1>1, SJPartFields
  <2>2. /\ new \in Seq(SJStepRecs) /\ Len(new) = Len(sjWorker.parts[n].steps)
        /\ \A i \in 1..Len(sjWorker.parts[n].steps) :
             /\ new[i].name = sjWorker.parts[n].steps[i].name /\ new[i].state \notin {"WAITING", "RUNNING"}
             /\ sjWorker.parts[n].steps[i].state \notin {"WAITING", "RUNNING"} => new[i] = sjWorker.parts[n].steps[i]
    BY <2>1, SJNotRunIs
  <2>3. ps[n] = [sjWorker.parts[n] EXCEPT !.steps = new]
    BY <1>13
  <2> HIDE DEF new
  <2>4. ps[n] \in SJPartRecs /\ ps[n].part = sjWorker.parts[n].part /\ ps[n].steps = new
    BY <2>1, <2>2, <2>3 DEF SJPartRecs
  <2> QED
    BY <2>2, <2>4
<1>15. ps \in Seq(SJPartRecs) /\ Len(ps) = Len(sjWorker.parts)
  <2>1. \A n \in 1..Len(sjWorker.parts) : ps[n] \in SJPartRecs
    BY <1>14
  <2>2. ps \in [1..Len(sjWorker.parts) -> SJPartRecs]
    BY <1>12, <2>1, Zenon
  <2> QED
    BY <1>11, <2>2
<1>16. /\ sjWorker' \in SJWorkers /\ sjWorker'.pc = "clear" /\ sjWorker'.id = j /\ sjWorker'.scan = sjWorker.scan /\ sjWorker'.parts = ps
       /\ sjWorker'.part = sjWorker.part /\ sjWorker'.fail = sjWorker.fail /\ sjWorker'.pfail = sjWorker.pfail /\ sjWorker'.ran = sjWorker.ran
  BY <1>1, <1>6, <1>15 DEF SJWorkers
<1>17. SJKinds'
  BY <1>1, <1>7, <1>9, <1>16 DEF SJInv, SJKinds
<1>18. SJOneRuns'
  <2>1. \A k \in SJJobs : sjRec'[k].state # "RUNNING"
    <3>1. \A k \in SJJobs : k # j => sjRec[k].state # "RUNNING"
      BY DEF SJInv, SJOneRuns
    <3> QED
      BY <1>4, <1>10, <3>1
  <2> QED
    BY <1>1, <1>2, <1>16, <2>1 DEF SJInv, SJOneRuns, SJAtWork
<1>19. /\ sjWorker.fail = "" => sjWorker.part = Len(sjWorker.parts) + 1 /\ sjWorker.ran
       /\ sjWorker.part <= Len(sjWorker.parts) + 1
       /\ \A n \in 1..Len(sjWorker.parts) : (sjWorker.parts[n].part.stack # Unsupported) = (Len(sjWorker.parts[n].steps) > 0)
       /\ sjWorker.ran => \E n \in 1..Len(sjWorker.parts) : n < sjWorker.part /\ sjWorker.parts[n].part.stack # Unsupported
  BY <1>1 DEF SJInv, SJPlace
<1>20. sjWorker'.pc \notin {"prepare", "taken", "idle", "part", "step", "exec"}
  BY <1>16
<1>21. SJPlace'
  <2>1. sjWorker'.fail = "" => sjWorker'.part = Len(sjWorker'.parts) + 1 /\ sjWorker'.ran
    BY <1>15, <1>16, <1>19, Zenon
  <2>2. \A n \in 1..Len(sjWorker'.parts) : (sjWorker'.parts[n].part.stack # Unsupported) = (Len(sjWorker'.parts[n].steps) > 0)
    <3> SUFFICES ASSUME NEW n \in 1..Len(sjWorker.parts)  PROVE (ps[n].part.stack # Unsupported) = (Len(ps[n].steps) > 0)
      BY <1>15, <1>16, Zenon
    <3>1. ps[n].part = sjWorker.parts[n].part /\ Len(ps[n].steps) = Len(sjWorker.parts[n].steps)
      BY <1>14
    <3> QED
      BY <1>19, <3>1, Zenon
  <2>3. sjWorker'.part <= Len(sjWorker'.parts) + 1
    BY <1>15, <1>16, <1>19, Zenon
  <2>4. sjWorker'.ran => \E n \in 1..Len(sjWorker'.parts) : n < sjWorker'.part /\ sjWorker'.parts[n].part.stack # Unsupported
    BY <1>14, <1>15, <1>16, <1>19, Zenon
  <2> QED
    BY <1>20, <2>1, <2>2, <2>3, <2>4, Zenon DEF SJPlace
<1>22. SJFairSoFar'
  <2> SUFFICES ASSUME sjWorker.fail = "", NEW n \in 1..Len(sjWorker.parts), n < sjWorker.part, NEW i \in 1..Len(sjWorker.parts[n].steps)
               PROVE  SJFair(sjWorker.scan, ps[n].steps[i])
    BY <1>14, <1>15, <1>16, <1>20, Zenon DEF SJFairSoFar
  <2>1. SJFair(sjWorker.scan, sjWorker.parts[n].steps[i])
    BY DEF SJInv, SJFairSoFar
  <2>2. /\ ps[n].steps[i].name = sjWorker.parts[n].steps[i].name
        /\ sjWorker.parts[n].steps[i].state \in {"PASSED", "SKIPPED"} => ps[n].steps[i] = sjWorker.parts[n].steps[i]
    BY <1>14
  <2> QED
    BY <2>1, <2>2, Zenon DEF SJFair
<1>23. SJFailureIsShown'
  <2> SUFFICES ASSUME NEW name \in SJStepNames, sjWorker.fail = FailureOf(name)
               PROVE  \E n \in 1..Len(sjWorker.parts) : n < sjWorker.part /\ SJFailedIn(ps[n], Len(ps[n].steps), name)
    BY <1>15, <1>16, <1>20, Zenon DEF SJFailureIsShown
  <2>1. PICK n \in 1..Len(sjWorker.parts) : n < sjWorker.part /\ SJFailedIn(sjWorker.parts[n], Len(sjWorker.parts[n].steps), name)
    BY DEF SJInv, SJFailureIsShown
  <2>2. PICK i \in 1..Len(sjWorker.parts[n].steps) : sjWorker.parts[n].steps[i].name = name /\ sjWorker.parts[n].steps[i].state = "FAILED"
    BY <2>1 DEF SJFailedIn
  <2>3. ps[n].steps[i] = sjWorker.parts[n].steps[i] /\ Len(ps[n].steps) = Len(sjWorker.parts[n].steps)
    BY <1>14, <2>2
  <2> QED
    BY <2>1, <2>2, <2>3, Zenon DEF SJFailedIn
<1>24. SJVerdict'
  <2>1. \A n \in 1..Len(ps) : \A i \in 1..Len(ps[n].steps) : ps[n].steps[i].state \notin {"WAITING", "RUNNING"}
    BY <1>14, <1>15, Zenon
  <2> QED
    BY <1>4, <1>10, <1>16, <2>1 DEF SJVerdict
<1> QED
  BY <1>17, <1>18, <1>21, <1>22, <1>23, <1>24 DEF SJInv

\* A step of a stack job keeps the invariant.
LEMMA SJStepKeeps == SJInv /\ [SJNext]_sjVars => SJInv'
<1> SUFFICES ASSUME SJInv, [SJNext]_sjVars  PROVE SJInv'
  OBVIOUS
<1>1. CASE UNCHANGED sjVars
  <2>1. /\ sjWorker' = sjWorker /\ sjRec' = sjRec /\ sjDisk' = sjDisk /\ sjQueue' = sjQueue /\ sjMade' = sjMade /\ sjUp' = sjUp
        /\ sjReg' = sjReg /\ sjSettings' = sjSettings
    BY <1>1 DEF sjVars
  <2>2. SJPlace' /\ SJFairSoFar' /\ SJFailureIsShown'
    BY <2>1, SJWorkerStays DEF SJInv
  <2> QED
    BY <2>1, <2>2 DEF SJInv, SJKinds, SJOneRuns, SJVerdict
<1>2. CASE \E r \in SJRequests : SJStart(r)
  BY <1>2, SJStartKeeps
<1>3. CASE \E j \in SJJobs : SJStopQueued(j) \/ SJStopRunning(j)
  BY <1>3, SJStopQueuedKeeps, SJStopRunningKeeps
<1>4. CASE SJTake \/ SJMark \/ SJPrepare \/ SJNextPart \/ SJOpen
  BY <1>4, SJTakeKeeps, SJMarkKeeps, SJPrepareKeeps, SJNextPartKeeps, SJOpenKeeps
<1>5. CASE SJBeforeStep \/ SJExec \/ SJEndPart \/ SJFinish \/ SJClear
  BY <1>5, SJBeforeStepKeeps, SJExecKeeps, SJEndPartKeeps, SJFinishKeeps, SJClearKeeps
<1>6. CASE SJClose \/ SJDown \/ SJLoad
  BY <1>6, SJCloseKeeps, SJDownKeeps, SJLoadKeeps
<1> QED
  BY <1>1, <1>2, <1>3, <1>4, <1>5, <1>6 DEF SJNext

\* The verdict of a job is the evidence it shows.
LEMMA SJInvIsSound == SJInv => SJSound
<1> SUFFICES ASSUME SJInv  PROVE SJSound
  OBVIOUS
<1>1. SJTypeOK
  <2>1. \A rec \in SJRecords : rec.state \in SJActive \cup SJEnded
    BY DEF SJRecords
  <2>2. (\A j \in SJJobs : sjRec[j] \in SJRecords \cup {SJNone}) /\ (\A j \in SJJobs : sjDisk[j] \in SJRecords \cup {SJNone}) /\ sjWorker.id \in 0..SJMaxJobs
    BY SJWorkerFields DEF SJInv, SJKinds
  <2> QED
    BY <2>1, <2>2 DEF SJTypeOK, SJInv, SJKinds
<1> DEFINE shown == UNION {{p.steps[i] : i \in DOMAIN p.steps} : p \in {sjWorker.parts[n] : n \in DOMAIN sjWorker.parts}}
<1>2. sjWorker \in SJWorkers /\ sjWorker.parts \in Seq(SJPartRecs)
  BY SJWorkerFields DEF SJInv, SJKinds
<1>3. DOMAIN sjWorker.parts = 1..Len(sjWorker.parts) /\ Len(sjWorker.parts) \in Nat
  BY <1>2
<1>4. ASSUME NEW n \in 1..Len(sjWorker.parts)  PROVE DOMAIN sjWorker.parts[n].steps = 1..Len(sjWorker.parts[n].steps)
  <2>1. sjWorker.parts[n].steps \in Seq(SJStepRecs)
    BY <1>2, SJPartFields
  <2> QED
    BY <2>1
<1>5. \A s : s \in shown <=> \E n \in 1..Len(sjWorker.parts) : \E i \in 1..Len(sjWorker.parts[n].steps) : s = sjWorker.parts[n].steps[i]
  <2>1. \A s : s \in shown <=> \E n \in DOMAIN sjWorker.parts : \E i \in DOMAIN sjWorker.parts[n].steps : s = sjWorker.parts[n].steps[i]
    OBVIOUS
  <2> HIDE DEF shown
  <2> QED
    BY <1>3, <1>4, <2>1, Zenon
<1> HIDE DEF shown
<1> DEFINE rec == IF sjWorker.id = 0 THEN SJNone ELSE sjRec[sjWorker.id]
           failed(name) == \E s \in shown : s.name = name /\ s.state = "FAILED"
<1>6. \A j \in SJJobs : sjRec[j].state = "RUNNING" => sjWorker.id = j
  BY DEF SJInv, SJOneRuns
<1>7. ASSUME sjWorker.pc = "clear"
      PROVE  /\ rec.state = "PASSED" =>
                  /\ shown # {}
                  /\ \A s \in shown : s.state \in {"PASSED", "SKIPPED"} \/ (sjWorker.scan /\ s.name \in {"install", "build"})
             /\ rec.state = "FAILED" => \A name \in {"install", "build", "test", "scan"} : sjWorker.fail = FailureOf(name) => failed(name)
             /\ \A s \in shown : s.state \notin {"WAITING", "RUNNING"}
  <2>1. rec = sjRec[sjWorker.id]
    BY <1>7 DEF SJInv, SJOneRuns
  <2>2. \A s \in shown : s.state \notin {"WAITING", "RUNNING"}
    <3>1. \A n \in 1..Len(sjWorker.parts) : \A i \in 1..Len(sjWorker.parts[n].steps) : sjWorker.parts[n].steps[i].state \notin {"WAITING", "RUNNING"}
      BY <1>7 DEF SJInv, SJVerdict
    <3> SUFFICES ASSUME NEW s \in shown  PROVE s.state \notin {"WAITING", "RUNNING"}
      OBVIOUS
    <3>2. \E n \in 1..Len(sjWorker.parts) : \E i \in 1..Len(sjWorker.parts[n].steps) : s = sjWorker.parts[n].steps[i]
      BY <1>5
    <3> QED
      BY <3>1, <3>2
  <2>3. \A name \in SJStepNames : sjWorker.fail = FailureOf(name) => failed(name)
    <3> SUFFICES ASSUME NEW name \in SJStepNames, sjWorker.fail = FailureOf(name)  PROVE failed(name)
      OBVIOUS
    <3>1. PICK n \in 1..Len(sjWorker.parts) : SJFailedIn(sjWorker.parts[n], Len(sjWorker.parts[n].steps), name)
      BY DEF SJInv, SJFailureIsShown
    <3>2. PICK i \in 1..Len(sjWorker.parts[n].steps) : sjWorker.parts[n].steps[i].name = name /\ sjWorker.parts[n].steps[i].state = "FAILED"
      BY <3>1 DEF SJFailedIn
    <3>3. sjWorker.parts[n].steps[i] \in shown
      BY <1>5
    <3> QED
      BY <3>2, <3>3
  <2>4. ASSUME rec.state = "PASSED"
        PROVE  shown # {} /\ \A s \in shown : s.state \in {"PASSED", "SKIPPED"} \/ (sjWorker.scan /\ s.name \in {"install", "build"})
    <3>1. sjWorker.fail = ""
      BY <1>7, <2>1, <2>4 DEF SJInv, SJVerdict
    <3>2. sjWorker.part = Len(sjWorker.parts) + 1 /\ sjWorker.ran
      BY <1>7, <3>1 DEF SJInv, SJPlace
    <3>3. PICK n \in 1..Len(sjWorker.parts) : Len(sjWorker.parts[n].steps) > 0
      BY <3>2 DEF SJInv, SJPlace
    <3>4. 1 \in 1..Len(sjWorker.parts[n].steps)
      <4>1. \A l \in Nat : l > 0 => 1 \in 1..l
        OBVIOUS
      <4>2. Len(sjWorker.parts[n].steps) \in Nat
        BY <1>2, SJPartFields, Zenon
      <4> QED
        BY <3>3, <4>1, <4>2, Zenon
    <3>5. sjWorker.parts[n].steps[1] \in shown
      BY <1>5, <3>4, Zenon
    <3>6. \A k \in 1..Len(sjWorker.parts) : k < sjWorker.part
      <4>1. \A l \in Nat : \A k \in 1..l : k < l + 1
        OBVIOUS
      <4> QED
        BY <1>3, <3>2, <4>1, Zenon
    <3>7. \A s \in shown : SJFair(sjWorker.scan, s)
      <4>1. \A m \in 1..Len(sjWorker.parts) : m < sjWorker.part => \A i \in 1..Len(sjWorker.parts[m].steps) : SJFair(sjWorker.scan, sjWorker.parts[m].steps[i])
        BY <3>1 DEF SJInv, SJFairSoFar
      <4> SUFFICES ASSUME NEW s \in shown  PROVE SJFair(sjWorker.scan, s)
        OBVIOUS
      <4>2. \E m \in 1..Len(sjWorker.parts) : \E i \in 1..Len(sjWorker.parts[m].steps) : s = sjWorker.parts[m].steps[i]
        BY <1>5
      <4> QED
        BY <3>6, <4>1, <4>2
    <3> QED
      BY <3>5, <3>7, Zenon DEF SJFair
  <2> QED
    BY <2>2, <2>3, <2>4, Zenon DEF SJStepNames
<1>8. SJVerdictIsEvidence
  BY <1>6, <1>7, Zenon DEF SJVerdictIsEvidence, shown
<1> QED
  BY <1>1, <1>8 DEF SJSound

\* The verdicts of checks and scans can be trusted, whatever is started, stopped,
\* pruned or lost in between (StartStackJob, StopStackJob, work, run, runSteps,
\* load).
THEOREM StackJobVerdictsAreEvidence == SJSpec => []SJSound
<1>1. SJInit => SJInv
  BY SJStarts
<1>2. SJInv /\ [SJNext]_sjVars => SJInv'
  BY SJStepKeeps
<1>3. SJInv => SJSound
  BY SJInvIsSound
<1> QED
  BY <1>1, <1>2, <1>3, PTL DEF SJSpec

-----------------------------------------------------------------------------
(* Change jobs: the queue, the workers' jobs and projects, and what stands   *)
(* behind a job that is handed back.                                         *)

CJSeen == {CJNoCheck} \cup UNION {CJChecks(r) : r \in CJRequests}
CJProjects == {CJProject(r) : r \in CJRequests}
CJResults == [patch : CJWork, before : CJSeen, after : CJSeen]
CJRecords == [state : CJActive \cup CJEnded, req : CJRequests, result : CJResults]
CJAtWork == {"prepare", "baseline", "moved", "ready", "agent", "review", "result", "proof", "after", "compare", "finish"}
CJWorkerRecs == [pc : CJAtWork \cup {"idle", "asleep", "taken", "clear"}, id : 0..CJMaxJobs, project : CJProjects \cup {""},
                 ctx : {"live", "cancelled", "expired"}, leaked : BOOLEAN, left : CJWork, end : CJEnded \cup {""},
                 before : CJSeen, after : CJSeen, broker : {"open", "closed"}, commands : Nat]

\* What the variables hold.
CJKinds ==
  /\ cjRec \in [CJJobs -> CJRecords \cup {CJNone}] /\ cjDisk \in [CJJobs -> CJRecords \cup {CJNone}] /\ cjPatch \in [CJJobs -> CJWork]
  /\ cjQueue \in Seq(CJJobs) /\ cjMade \in 0..CJMaxJobs /\ cjWorker \in [CJWorkers -> CJWorkerRecs]
  /\ cjBusy \subseteq CJProjects /\ cjWake \in 0..Cardinality(CJWorkers) /\ cjUp \in {"up", "closing", "down"}

\* What is queued was made, waits, is queued once and is nobody's job; the queue
\* does not outlive the process.
CJWaiting ==
  /\ \A i \in 1..Len(cjQueue) : /\ cjQueue[i] <= cjMade /\ cjRec[cjQueue[i]].state = "QUEUED"
                                /\ \A w \in CJWorkers : cjWorker[w].id # cjQueue[i]
  /\ \A i, k \in 1..Len(cjQueue) : i # k => cjQueue[i] # cjQueue[k]
  /\ cjUp = "down" => cjQueue = <<>>

\* Who holds a project and who has a job; two workers share neither.
CJHolds ==
  /\ \A w \in CJWorkers : /\ cjWorker[w].id <= cjMade
                          /\ cjWorker[w].pc \in {"idle", "asleep"} <=> cjWorker[w].project = ""
                          /\ cjWorker[w].pc \in {"idle", "asleep", "clear"} <=> cjWorker[w].id = 0
                          /\ cjWorker[w].broker = "open" => cjWorker[w].pc \in {"agent", "review"}
                          /\ cjUp = "down" => cjWorker[w].pc = "asleep"
  /\ \A v, w \in CJWorkers : v # w => /\ cjWorker[v].project # "" => cjWorker[v].project # cjWorker[w].project
                                      /\ cjWorker[v].id # 0 => cjWorker[v].id # cjWorker[w].id
  /\ cjBusy = {cjWorker[w].project : w \in CJWorkers} \ {""}

\* A job at work is running; one just taken may have been stopped, and pruned.
CJRuns == \A w \in CJWorkers :
  /\ cjWorker[w].pc \in CJAtWork => cjRec[cjWorker[w].id].state = "RUNNING"
  /\ cjWorker[w].pc = "taken" => cjRec[cjWorker[w].id].state \in {"QUEUED", "STOPPED", "NONE"}

\* What a result that is handed back must be for a request.
CJGood(req, result) ==
  /\ result.patch = "clean" /\ CJKind(req) # "assess"
  /\ CJKind(req) = "tests" => result.after.tests.passed > result.before.tests.passed /\ CJFine(result.before.build)
  /\ result.before.tests.known => result.after.tests.passed >= result.before.tests.passed
  /\ CJFine(result.before.install) => CJFine(result.after.install)

\* How far worker m has come with the job of record rec, whose patch is written or not.
CJCame(m, rec, patch) ==
  /\ m.pc \in {"proof", "after", "compare"} => m.left = "clean"
  /\ m.pc \in {"review", "result", "proof", "after", "compare"} => CJKind(rec.req) # "assess"
  /\ m.pc \in {"agent", "review", "result", "proof", "after", "compare"} /\ CJKind(rec.req) # "assess" => baselineReady(CJKind(rec.req), m.before)
  /\ m.pc = "finish" => m.end \in CJEnded
  /\ m.pc = "finish" /\ m.end = "HANDED_BACK" => CJGood(rec.req, rec.result) /\ patch = rec.result.patch
CJComes == \A w \in CJWorkers : cjWorker[w].pc \in CJAtWork => CJCame(cjWorker[w], cjRec[cjWorker[w].id], cjPatch[cjWorker[w].id])

\* A job that is handed back, in memory or on disk, has its patch; the disk is not ahead.
CJBacked ==
  /\ \A j \in CJJobs : cjRec[j].state = "HANDED_BACK" => CJGood(cjRec[j].req, cjRec[j].result) /\ cjPatch[j] = cjRec[j].result.patch
  /\ \A j \in CJJobs : cjDisk[j].state = "HANDED_BACK" => CJGood(cjDisk[j].req, cjDisk[j].result) /\ cjPatch[j] = cjDisk[j].result.patch
  /\ \A j \in CJJobs : cjDisk[j].state = "HANDED_BACK" /\ cjUp # "down" => cjRec[j].state = "HANDED_BACK"

CJInv == CJKinds /\ CJWaiting /\ CJHolds /\ CJRuns /\ CJComes /\ CJBacked

\* A queue without duplicates that loses its i-th entry holds the others, once each.
LEMMA RemoveAtLeaves ==
  ASSUME NEW S, NEW s \in Seq(S), NEW i \in 1..Len(s), \A m, n \in 1..Len(s) : m # n => s[m] # s[n], NEW t, t = RemoveAt(s, i)
  PROVE  /\ t \in Seq(S) /\ \A k \in 1..Len(t) : t[k] # s[i] /\ \E n \in 1..Len(s) : t[k] = s[n]
         /\ \A m, n \in 1..Len(t) : m # n => t[m] # t[n]
<1>1. t \in Seq(S) /\ Len(t) = Len(s) - 1 /\ \A k \in 1..Len(s) - 1 : t[k] = IF k < i THEN s[k] ELSE s[k + 1]
  BY RemoveAtShifts
<1>2. Len(s) \in Nat /\ Len(t) = Len(s) - 1
  BY <1>1
<1> DEFINE at(k) == IF k < i THEN k ELSE k + 1
<1>3. \A k \in 1..Len(t) : at(k) \in 1..Len(s) /\ at(k) # i
  BY <1>2
<1>4. \A m, n \in 1..Len(t) : m # n => at(m) # at(n)
  BY <1>2
<1>5. \A k \in 1..Len(t) : t[k] = s[at(k)]
  BY <1>1
<1> HIDE DEF at
<1>6. \A k \in 1..Len(t) : t[k] # s[i] /\ \E n \in 1..Len(s) : t[k] = s[n]
  BY <1>3, <1>5, Zenon
<1>7. ASSUME NEW m \in 1..Len(t), NEW n \in 1..Len(t), m # n  PROVE t[m] # t[n]
  <2>1. at(m) # at(n) /\ at(m) \in 1..Len(s) /\ at(n) \in 1..Len(s)
    BY <1>3, <1>4, <1>7, Zenon
  <2>2. s[at(m)] # s[at(n)]
    BY <2>1, Zenon
  <2> QED
    BY <1>5, <2>2, Zenon
<1> QED
  BY <1>1, <1>6, <1>7

\* The queue t is what is left of s without e, nothing twice.
LeftWithout(S, s, e, t) ==
  /\ t \in Seq(S) /\ \A k \in 1..Len(t) : t[k] # e /\ \E n \in 1..Len(s) : t[k] = s[n]
  /\ \A m, n \in 1..Len(t) : m # n => t[m] # t[n]

\* The same of the first entry e (StopChangeJob).
LEMMA RemoveFirstLeavesRest ==
  ASSUME NEW S, NEW s \in Seq(S), \A m, n \in 1..Len(s) : m # n => s[m] # s[n], NEW e, NEW t, t = RemoveFirst(s, e)
  PROVE  LeftWithout(S, s, e, t)
<1>1. CASE t = s /\ \A i \in 1..Len(s) : s[i] # e
  BY <1>1, Zenon DEF LeftWithout
<1>2. ASSUME NEW i \in 1..Len(s), s[i] = e, t = RemoveAt(s, i)
      PROVE  LeftWithout(S, s, e, t)
  <2>1. /\ t \in Seq(S) /\ \A k \in 1..Len(t) : t[k] # s[i] /\ \E n \in 1..Len(s) : t[k] = s[n]
        /\ \A m, n \in 1..Len(t) : m # n => t[m] # t[n]
    BY <1>2, RemoveAtLeaves
  <2> QED
    BY <1>2, <2>1, Zenon DEF LeftWithout
<1> QED
  BY <1>1, <1>2, RemoveFirstRemoves

\* The bounds of the numbers here.
LEMMA CJBounds == CJMaxJobs \in Nat /\ 0 \in 0..CJMaxJobs /\ Cardinality(CJWorkers) \in Nat /\ 0 \in 0..Cardinality(CJWorkers)
<1>1. CJMaxJobs \in Nat /\ IsFiniteSet(CJWorkers)
  BY CJAssumption, Zenon
<1>2. Cardinality(CJWorkers) \in Nat
  BY <1>1, FS_CardinalityType
<1> QED
  BY <1>1, <1>2

\* The fields of a worker.
LEMMA CJWorkerFields ==
  ASSUME NEW m \in CJWorkerRecs
  PROVE  /\ m.pc \in CJAtWork \cup {"idle", "asleep", "taken", "clear"} /\ m.id \in 0..CJMaxJobs /\ m.project \in CJProjects \cup {""}
         /\ m.ctx \in {"live", "cancelled", "expired"} /\ m.leaked \in BOOLEAN /\ m.left \in CJWork /\ m.end \in CJEnded \cup {""}
         /\ m.before \in CJSeen /\ m.after \in CJSeen /\ m.broker \in {"open", "closed"} /\ m.commands \in Nat
BY DEF CJWorkerRecs

\* And of a job's record.
LEMMA CJRecordFields ==
  ASSUME NEW rec \in CJRecords
  PROVE  rec.state \in CJActive \cup CJEnded /\ rec.req \in CJRequests /\ rec.result \in CJResults /\ rec # CJNone
<1>1. rec.state \in CJActive \cup CJEnded /\ rec.req \in CJRequests /\ rec.result \in CJResults
  BY DEF CJRecords
<1>2. rec.state # "NONE"
  BY <1>1 DEF CJActive, CJEnded
<1> QED
  BY <1>1, <1>2 DEF CJNone

\* A record that gets another state is a record.
LEMMA CJRecordTold ==
  ASSUME NEW rec \in CJRecords, NEW state \in CJActive \cup CJEnded, NEW t, t = [rec EXCEPT !.state = state]
  PROVE  t \in CJRecords /\ t.state = state /\ t.req = rec.req /\ t.result = rec.result
BY DEF CJRecords

\* The worker that starts a part of its loop.
LEMMA CJIdleIs ==
  /\ CJIdle \in CJWorkerRecs /\ CJIdle.pc = "idle" /\ CJIdle.id = 0 /\ CJIdle.project = "" /\ CJIdle.broker = "closed" /\ CJIdle.left = "none"
  /\ CJIdle.end = ""
<1>1. CJMaxJobs \in Nat /\ 0 \in 0..CJMaxJobs
  BY CJBounds
<1>2. CJNoCheck \in CJSeen
  BY DEF CJSeen
<1>3. CJIdle = [pc |-> "idle", id |-> 0, project |-> "", ctx |-> "live", leaked |-> FALSE, left |-> "none", end |-> "", before |-> CJNoCheck, after |-> CJNoCheck,
                broker |-> "closed", commands |-> 0]
  BY DEF CJIdle
<1> HIDE DEF CJNoCheck
<1>4. CJIdle \in CJWorkerRecs
  BY <1>1, <1>2, <1>3 DEF CJWorkerRecs, CJWork
<1> QED
  BY <1>3, <1>4

\* What the kinds say of the worker w and of its job.
LEMMA CJOfWorker ==
  ASSUME CJInv, NEW w \in CJWorkers
  PROVE  /\ cjWorker[w] \in CJWorkerRecs
         /\ cjWorker[w].pc \in CJAtWork \cup {"taken"} => cjWorker[w].id \in CJJobs /\ cjWorker[w].project # "" /\ cjUp # "down"
         /\ cjWorker[w].pc \in CJAtWork => cjRec[cjWorker[w].id] \in CJRecords
<1>1. cjWorker[w] \in CJWorkerRecs
  BY DEF CJInv, CJKinds
<1>2. cjWorker[w].pc \in CJAtWork \cup {"taken"} => cjWorker[w].id # 0 /\ cjWorker[w].project # "" /\ cjUp # "down"
  BY DEF CJInv, CJHolds, CJAtWork
<1>3. cjWorker[w].id # 0 => cjWorker[w].id \in CJJobs
  <2>1. cjWorker[w].id \in 0..CJMaxJobs /\ CJMaxJobs \in Nat
    BY <1>1, CJWorkerFields, CJBounds
  <2> QED
    BY <2>1 DEF CJJobs
<1>4. cjWorker[w].pc \in CJAtWork => cjRec[cjWorker[w].id] \in CJRecords
  <2> SUFFICES ASSUME cjWorker[w].pc \in CJAtWork  PROVE cjRec[cjWorker[w].id] \in CJRecords
    OBVIOUS
  <2>1. cjWorker[w].id \in CJJobs /\ cjRec[cjWorker[w].id].state = "RUNNING"
    BY <1>2, <1>3 DEF CJInv, CJRuns
  <2>2. cjRec[cjWorker[w].id] \in CJRecords \cup {CJNone}
    BY <2>1 DEF CJInv, CJKinds
  <2> QED
    BY <2>1, <2>2 DEF CJNone
<1> QED
  BY <1>1, <1>2, <1>3, <1>4

\* What CJHolds says, for the steps that look at a few of its parts.
LEMMA CJHoldsOf ==
  ASSUME CJInv
  PROVE  /\ \A v \in CJWorkers : /\ cjWorker[v].id <= cjMade
                                 /\ cjWorker[v].pc \in {"idle", "asleep"} <=> cjWorker[v].project = ""
                                 /\ cjWorker[v].pc \in {"idle", "asleep", "clear"} <=> cjWorker[v].id = 0
                                 /\ cjWorker[v].broker = "open" => cjWorker[v].pc \in {"agent", "review"}
                                 /\ cjUp = "down" => cjWorker[v].pc = "asleep"
         /\ \A u, v \in CJWorkers : u # v => /\ cjWorker[u].project # "" => cjWorker[u].project # cjWorker[v].project
                                             /\ cjWorker[u].id # 0 => cjWorker[u].id # cjWorker[v].id
         /\ cjBusy = {cjWorker[v].project : v \in CJWorkers} \ {""}
BY DEF CJInv, CJHolds

\* And what CJWaiting says.
LEMMA CJWaitingOf ==
  ASSUME CJInv
  PROVE  /\ \A i \in 1..Len(cjQueue) : /\ cjQueue[i] \in CJJobs /\ cjQueue[i] # 0 /\ cjQueue[i] <= cjMade /\ cjRec[cjQueue[i]].state = "QUEUED"
                                       /\ \A v \in CJWorkers : cjWorker[v].id # cjQueue[i]
         /\ \A i, k \in 1..Len(cjQueue) : i # k => cjQueue[i] # cjQueue[k]
         /\ cjUp = "down" => cjQueue = <<>>
<1>1. /\ \A i \in 1..Len(cjQueue) : /\ cjQueue[i] <= cjMade /\ cjRec[cjQueue[i]].state = "QUEUED"
                                    /\ \A v \in CJWorkers : cjWorker[v].id # cjQueue[i]
      /\ \A i, k \in 1..Len(cjQueue) : i # k => cjQueue[i] # cjQueue[k]
      /\ cjUp = "down" => cjQueue = <<>>
  BY DEF CJInv, CJWaiting
<1>2. cjQueue \in Seq(CJJobs)
  BY DEF CJInv, CJKinds
<1>3. \A i \in 1..Len(cjQueue) : cjQueue[i] \in CJJobs
  BY <1>2
<1>4. CJMaxJobs \in Nat
  BY CJBounds
<1>5. \A j \in CJJobs : j # 0
  BY <1>4 DEF CJJobs
<1> QED
  BY <1>1, <1>3, <1>5, Zenon

\* The start satisfies the invariant.
LEMMA CJStarts == CJInit => CJInv
<1> SUFFICES ASSUME CJInit  PROVE CJInv
  OBVIOUS
<1>1. \A j \in CJJobs : cjRec[j] = CJNone /\ cjDisk[j] = CJNone /\ cjPatch[j] = "none"
  BY DEF CJInit
<1>2. Len(cjQueue) = 0 /\ cjQueue = <<>> /\ cjMade = 0 /\ cjBusy = {} /\ cjWake = 0 /\ cjUp = "up"
  BY DEF CJInit
<1>3. cjWorker = [w \in CJWorkers |-> [CJIdle EXCEPT !.pc = "asleep"]]
  BY DEF CJInit
<1> DEFINE asleep == [CJIdle EXCEPT !.pc = "asleep"]
<1>4. asleep \in CJWorkerRecs /\ asleep.pc = "asleep" /\ asleep.id = 0 /\ asleep.project = "" /\ asleep.broker = "closed"
  BY CJIdleIs DEF CJWorkerRecs
<1> HIDE DEF asleep
<1>5. cjWorker = [w \in CJWorkers |-> asleep]
  BY <1>3 DEF asleep
<1>6. CJKinds
  <2>1. 0 \in 0..CJMaxJobs /\ 0 \in 0..Cardinality(CJWorkers)
    BY CJBounds
  <2>2. "none" \in CJWork
    BY DEF CJWork
  <2>3. cjRec \in [CJJobs -> CJRecords \cup {CJNone}] /\ cjDisk \in [CJJobs -> CJRecords \cup {CJNone}] /\ cjPatch \in [CJJobs -> CJWork]
    BY <2>2 DEF CJInit
  <2>4. cjWorker \in [CJWorkers -> CJWorkerRecs]
    BY <1>4, <1>5, Zenon
  <2>5. cjQueue \in Seq(CJJobs) /\ cjBusy \subseteq CJProjects /\ cjMade \in 0..CJMaxJobs /\ cjWake \in 0..Cardinality(CJWorkers) /\ cjUp \in {"up", "closing", "down"}
    BY <1>2, <2>1
  <2> QED
    BY <2>3, <2>4, <2>5, Zenon DEF CJKinds
<1>7. CJWaiting
  <2>1. \A i \in 1..Len(cjQueue) : FALSE
    BY <1>2, NoneIn, Zenon
  <2>2. cjUp # "down"
    BY <1>2
  <2> QED
    BY <2>1, <2>2, Zenon DEF CJWaiting
<1>8. CJHolds
  <2>1. \A w \in CJWorkers : cjWorker[w] = asleep
    BY <1>5
  <2>2. {cjWorker[w].project : w \in CJWorkers} \ {""} = {}
    BY <1>4, <2>1
  <2>3. 0 <= 0
    OBVIOUS
  <2> QED
    BY <1>2, <1>4, <2>1, <2>2, <2>3, Zenon DEF CJHolds
<1>9. \A j \in CJJobs : cjRec[j].state = "NONE" /\ cjDisk[j].state = "NONE"
  BY <1>1 DEF CJNone
<1>10. CJRuns /\ CJComes
  BY <1>4, <1>5 DEF CJRuns, CJComes, CJAtWork
<1>11. CJBacked
  BY <1>9 DEF CJBacked
<1> QED
  BY <1>6, <1>7, <1>8, <1>10, <1>11 DEF CJInv

\* A worker at work moves on with its job: nobody else's job, project or record
\* changes.
LEMMA CJWorkerMoves ==
  ASSUME CJInv, NEW w \in CJWorkers, cjWorker[w].pc \in CJAtWork, NEW mine \in CJWorkerRecs, mine.pc \in CJAtWork,
         mine.id = cjWorker[w].id, mine.project = cjWorker[w].project, mine.broker = "open" => mine.pc \in {"agent", "review"},
         cjWorker' = [cjWorker EXCEPT ![w] = mine], CJCame(mine, cjRec[cjWorker[w].id], cjPatch[cjWorker[w].id]),
         cjRec' = cjRec, cjPatch' = cjPatch, cjDisk' = cjDisk \/ cjDisk' = [cjDisk EXCEPT ![cjWorker[w].id] = cjRec[cjWorker[w].id]],
         UNCHANGED <<cjQueue, cjMade, cjBusy, cjWake, cjUp>>
  PROVE  CJInv'
<1> DEFINE j == cjWorker[w].id
<1>1. j \in CJJobs /\ cjRec[j] \in CJRecords /\ cjRec[j].state = "RUNNING" /\ cjUp # "down" /\ cjWorker[w].project # "" /\ j # 0
  BY CJOfWorker DEF CJInv, CJRuns, CJHolds, CJAtWork
<1>2. cjWorker' \in [CJWorkers -> CJWorkerRecs] /\ cjWorker'[w] = mine /\ \A v \in CJWorkers : v # w => cjWorker'[v] = cjWorker[v]
  BY DEF CJInv, CJKinds
<1>3. \A v \in CJWorkers : cjWorker'[v].id = cjWorker[v].id /\ cjWorker'[v].project = cjWorker[v].project
  BY <1>2, Zenon
<1>4. CJKinds'
  BY <1>1, <1>2 DEF CJInv, CJKinds
<1>10. cjQueue' = cjQueue /\ cjMade' = cjMade /\ cjBusy' = cjBusy /\ cjUp' = cjUp
  OBVIOUS
<1>5. CJWaiting'
  BY <1>3, <1>10, CJWaitingOf DEF CJWaiting
<1>6. CJHolds'
  <2>1. \A v \in CJWorkers : /\ cjWorker[v].id <= cjMade
                             /\ cjWorker[v].pc \in {"idle", "asleep"} <=> cjWorker[v].project = ""
                             /\ cjWorker[v].pc \in {"idle", "asleep", "clear"} <=> cjWorker[v].id = 0
                             /\ cjWorker[v].broker = "open" => cjWorker[v].pc \in {"agent", "review"}
                             /\ cjUp = "down" => cjWorker[v].pc = "asleep"
    BY DEF CJInv, CJHolds
  <2>2. mine.pc \notin {"idle", "asleep", "clear"}
    BY DEF CJAtWork
  <2>3. {cjWorker'[v].project : v \in CJWorkers} = {cjWorker[v].project : v \in CJWorkers}
    BY <1>3
  <2>4. \A v \in CJWorkers : /\ cjWorker'[v].id <= cjMade
                             /\ cjWorker'[v].pc \in {"idle", "asleep"} <=> cjWorker'[v].project = ""
                             /\ cjWorker'[v].pc \in {"idle", "asleep", "clear"} <=> cjWorker'[v].id = 0
                             /\ cjWorker'[v].broker = "open" => cjWorker'[v].pc \in {"agent", "review"}
                             /\ cjUp' = "down" => cjWorker'[v].pc = "asleep"
    <3> SUFFICES ASSUME NEW v \in CJWorkers
                 PROVE  /\ cjWorker'[v].id <= cjMade
                        /\ cjWorker'[v].pc \in {"idle", "asleep"} <=> cjWorker'[v].project = ""
                        /\ cjWorker'[v].pc \in {"idle", "asleep", "clear"} <=> cjWorker'[v].id = 0
                        /\ cjWorker'[v].broker = "open" => cjWorker'[v].pc \in {"agent", "review"}
                        /\ cjUp' = "down" => cjWorker'[v].pc = "asleep"
      OBVIOUS
    <3>1. CASE v = w
      BY <1>1, <1>2, <2>1, <2>2, <3>1, Zenon
    <3>2. CASE v # w
      BY <1>2, <2>1, <3>2, Zenon
    <3> QED
      BY <3>1, <3>2
  <2>5. \A u, v \in CJWorkers : u # v => /\ cjWorker'[u].project # "" => cjWorker'[u].project # cjWorker'[v].project
                                         /\ cjWorker'[u].id # 0 => cjWorker'[u].id # cjWorker'[v].id
    <3>1. \A u, v \in CJWorkers : u # v => /\ cjWorker[u].project # "" => cjWorker[u].project # cjWorker[v].project
                                           /\ cjWorker[u].id # 0 => cjWorker[u].id # cjWorker[v].id
      BY DEF CJInv, CJHolds
    <3> SUFFICES ASSUME NEW u \in CJWorkers, NEW v \in CJWorkers, u # v
                 PROVE  /\ cjWorker'[u].project # "" => cjWorker'[u].project # cjWorker'[v].project
                        /\ cjWorker'[u].id # 0 => cjWorker'[u].id # cjWorker'[v].id
      OBVIOUS
    <3>2. /\ cjWorker'[u].id = cjWorker[u].id /\ cjWorker'[u].project = cjWorker[u].project
          /\ cjWorker'[v].id = cjWorker[v].id /\ cjWorker'[v].project = cjWorker[v].project
      BY <1>3
    <3> QED
      BY <3>1, <3>2
  <2>6. cjBusy' = {cjWorker'[v].project : v \in CJWorkers} \ {""}
    BY <1>10, <2>3 DEF CJInv, CJHolds
  <2> QED
    BY <1>10, <2>4, <2>5, <2>6, Zenon DEF CJHolds
<1>7. CJRuns'
  BY <1>1, <1>2 DEF CJInv, CJRuns, CJAtWork
<1>8. CJComes'
  <2> SUFFICES ASSUME NEW v \in CJWorkers, cjWorker'[v].pc \in CJAtWork  PROVE CJCame(cjWorker'[v], cjRec[cjWorker'[v].id], cjPatch[cjWorker'[v].id])
    BY Zenon DEF CJComes, CJCame
  <2>1. CASE v = w
    BY <1>2, <2>1, Zenon
  <2>2. CASE v # w
    BY <1>2, <2>2, Zenon DEF CJInv, CJComes
  <2> QED
    BY <2>1, <2>2
<1>9. CJBacked'
  <2>1. \A k \in CJJobs : cjDisk'[k] = cjDisk[k] \/ cjDisk'[k].state = "RUNNING"
    BY <1>1 DEF CJInv, CJKinds
  <2> QED
    BY <2>1 DEF CJInv, CJBacked
<1> QED
  BY <1>4, <1>5, <1>6, <1>7, <1>8, <1>9 DEF CJInv

\* The job of a worker at work moves on to mine, its record saved as it is.
LEMMA CJGoesOn ==
  ASSUME CJInv, NEW w \in CJWorkers, cjWorker[w].pc \in CJAtWork, NEW mine \in CJWorkerRecs, mine.pc \in CJAtWork,
         mine.id = cjWorker[w].id, mine.project = cjWorker[w].project, mine.broker = "open" => mine.pc \in {"agent", "review"},
         CJCame(mine, cjRec[cjWorker[w].id], cjPatch[cjWorker[w].id]),
         CJUpdate(w, cjRec[cjWorker[w].id], mine, TRUE), UNCHANGED cjPatch
  PROVE  CJInv'
<1>1. cjRec' = [cjRec EXCEPT ![cjWorker[w].id] = cjRec[cjWorker[w].id]] /\ cjDisk' = [cjDisk EXCEPT ![cjWorker[w].id] = cjRec[cjWorker[w].id]]
      /\ cjWorker' = [cjWorker EXCEPT ![w] = mine] /\ UNCHANGED <<cjQueue, cjMade, cjBusy, cjWake, cjUp>>
  BY DEF CJUpdate, CJSave
<1>2. cjWorker[w].id \in CJJobs
  BY CJOfWorker
<1>3. cjRec' = cjRec
  BY <1>1, <1>2 DEF CJInv, CJKinds
<1>4. cjPatch' = cjPatch
  OBVIOUS
<1> QED
  BY <1>1, <1>3, <1>4, CJWorkerMoves

\* runChange ends without a patch.
LEMMA CJEndKeeps ==
  ASSUME CJInv, NEW w \in CJWorkers, cjWorker[w].pc \in CJAtWork, NEW state \in CJEnded \ {"HANDED_BACK"}, NEW reason, CJEnd(w, state, reason)
  PROVE  CJInv'
<1> DEFINE id == cjWorker[w].id
           project == cjWorker[w].project
           ctx == cjWorker[w].ctx
           mine == [CJIdle EXCEPT !.pc = "finish", !.id = id, !.project = project, !.ctx = ctx, !.end = state]
<1>1. cjWorker' = [cjWorker EXCEPT ![w] = mine] /\ UNCHANGED <<cjRec, cjDisk, cjPatch, cjQueue, cjMade, cjBusy, cjWake, cjUp, cjFaults>>
  BY DEF CJEnd
<1>2. id \in 0..CJMaxJobs /\ project \in CJProjects \cup {""} /\ ctx \in {"live", "cancelled", "expired"}
  BY CJOfWorker, CJWorkerFields
<1>3. id = cjWorker[w].id /\ project = cjWorker[w].project
  OBVIOUS
<1> HIDE DEF id, project, ctx
<1>4. mine \in CJWorkerRecs /\ mine.pc = "finish" /\ mine.id = id /\ mine.project = project /\ mine.end = state /\ mine.broker = "closed"
  BY <1>2, CJIdleIs DEF CJWorkerRecs, CJAtWork
<1> HIDE DEF mine
<1>5. mine.pc \in CJAtWork /\ mine.broker # "open"
  BY <1>4 DEF CJAtWork
<1>6. CJCame(mine, cjRec[cjWorker[w].id], cjPatch[cjWorker[w].id])
  BY <1>4 DEF CJCame
<1>7. cjRec' = cjRec /\ cjPatch' = cjPatch /\ cjDisk' = cjDisk /\ UNCHANGED <<cjQueue, cjMade, cjBusy, cjWake, cjUp>>
  BY <1>1
<1> QED
  BY <1>1, <1>3, <1>4, <1>5, <1>6, <1>7, CJWorkerMoves

\* stopped.
LEMMA CJStoppedKeeps ==
  ASSUME CJInv, NEW w \in CJWorkers, cjWorker[w].pc \in CJAtWork, CJStopped(w)
  PROVE  CJInv'
<1>1. "FAILED" \in CJEnded \ {"HANDED_BACK"} /\ "STOPPED" \in CJEnded \ {"HANDED_BACK"}
  BY DEF CJEnded
<1>2. CASE CJEnd(w, "FAILED", "TIMED_OUT")
  BY <1>1, <1>2, CJEndKeeps
<1>3. CASE CJEnd(w, "STOPPED", "STOPPED")
  BY <1>1, <1>3, CJEndKeeps
<1> QED
  BY <1>2, <1>3 DEF CJStopped

\* A step that needs the sandbox or the engine fails.
LEMMA CJFailedKeeps ==
  ASSUME CJInv, NEW w \in CJWorkers, cjWorker[w].pc \in CJAtWork, NEW reason, CJFailed(w, reason)
  PROVE  CJInv'
<1>1. "FAILED" \in CJEnded \ {"HANDED_BACK"}
  BY DEF CJEnded
<1>2. CASE CJEnd(w, "FAILED", reason)
  BY <1>1, <1>2, CJEndKeeps
<1>3. CASE CJStopped(w)
  BY <1>3, CJStoppedKeeps
<1> QED
  BY <1>2, <1>3 DEF CJFailed

\* A job whose context ends: StopChangeJob, and changeJobTime.
LEMMA CJEndContextKeeps ==
  ASSUME CJInv, NEW w \in CJWorkers, NEW how \in {"cancelled", "expired"}, CJEndContext(w, how)
  PROVE  CJInv'
<1> DEFINE mine == [cjWorker[w] EXCEPT !.ctx = how]
<1>1. cjWorker[w] \in CJWorkerRecs
  BY CJOfWorker
<1>2. cjWorker[w].pc \in CJAtWork
  BY <1>1, CJWorkerFields DEF CJEndContext
<1>3. cjWorker' = [cjWorker EXCEPT ![w] = mine] /\ UNCHANGED <<cjRec, cjDisk, cjPatch, cjQueue, cjMade, cjBusy, cjWake, cjUp, cjFaults>>
  BY DEF CJEndContext
<1>4. /\ mine \in CJWorkerRecs /\ mine.pc = cjWorker[w].pc /\ mine.id = cjWorker[w].id /\ mine.project = cjWorker[w].project /\ mine.broker = cjWorker[w].broker
      /\ mine.left = cjWorker[w].left /\ mine.before = cjWorker[w].before /\ mine.end = cjWorker[w].end
  BY <1>1 DEF CJWorkerRecs
<1> HIDE DEF mine
<1>5. CJCame(mine, cjRec[cjWorker[w].id], cjPatch[cjWorker[w].id])
  BY <1>2, <1>4 DEF CJInv, CJComes, CJCame
<1>6. mine.broker = "open" => mine.pc \in {"agent", "review"}
  BY <1>4 DEF CJInv, CJHolds
<1>7. cjRec' = cjRec /\ cjPatch' = cjPatch /\ cjDisk' = cjDisk /\ UNCHANGED <<cjQueue, cjMade, cjBusy, cjWake, cjUp>>
  BY <1>3
<1> QED
  BY <1>2, <1>3, <1>4, <1>5, <1>6, <1>7, CJWorkerMoves

\* broker.run.
LEMMA CJCommandKeeps ==
  ASSUME CJInv, NEW w \in CJWorkers, CJCommand(w)
  PROVE  CJInv'
<1> DEFINE commands == cjWorker[w].commands + 1
           mine == [cjWorker[w] EXCEPT !.commands = commands]
<1>1. cjWorker[w] \in CJWorkerRecs /\ cjWorker[w].broker = "open"
  BY CJOfWorker DEF CJCommand
<1>2. cjWorker[w].pc \in {"agent", "review"} /\ cjWorker[w].pc \in CJAtWork
  BY <1>1 DEF CJInv, CJHolds, CJAtWork
<1>3. cjWorker' = [cjWorker EXCEPT ![w] = mine] /\ UNCHANGED <<cjRec, cjDisk, cjPatch, cjQueue, cjMade, cjBusy, cjWake, cjUp, cjFaults>>
  BY DEF CJCommand
<1>8. commands \in Nat
  <2>1. cjWorker[w].commands \in Nat
    BY <1>1, CJWorkerFields
  <2> QED
    BY <2>1
<1> HIDE DEF commands
<1>4. /\ mine \in CJWorkerRecs /\ mine.pc = cjWorker[w].pc /\ mine.id = cjWorker[w].id /\ mine.project = cjWorker[w].project /\ mine.broker = cjWorker[w].broker
      /\ mine.left = cjWorker[w].left /\ mine.before = cjWorker[w].before /\ mine.end = cjWorker[w].end
  BY <1>1, <1>8 DEF CJWorkerRecs
<1> HIDE DEF mine
<1>5. CJCame(mine, cjRec[cjWorker[w].id], cjPatch[cjWorker[w].id])
  BY <1>2, <1>4 DEF CJInv, CJComes, CJCame
<1>6. mine.broker = "open" => mine.pc \in {"agent", "review"}
  BY <1>2, <1>4
<1>7. cjRec' = cjRec /\ cjPatch' = cjPatch /\ cjDisk' = cjDisk /\ UNCHANGED <<cjQueue, cjMade, cjBusy, cjWake, cjUp>>
  BY <1>3
<1> QED
  BY <1>2, <1>3, <1>4, <1>5, <1>6, <1>7, CJWorkerMoves

\* runChange up to the baseline.
LEMMA CJPrepareKeeps ==
  ASSUME CJInv, NEW w \in CJWorkers, CJPrepare(w)
  PROVE  CJInv'
<1>1. cjWorker[w] \in CJWorkerRecs /\ cjWorker[w].pc = "prepare" /\ cjWorker[w].pc \in CJAtWork
  BY CJOfWorker DEF CJPrepare, CJAtWork
<1>2. CASE \E reason \in {"SANDBOX_UNAVAILABLE", "SOURCE_REFUSED", "NO_STACK", "UNSUPPORTED_STACK"} : CJEnd(w, "FAILED", reason)
  <2>1. "FAILED" \in CJEnded \ {"HANDED_BACK"}
    BY DEF CJEnded
  <2> QED
    BY <1>1, <1>2, <2>1, CJEndKeeps
<1>3. CASE CJPhase(w, "BASELINE", "baseline")
  <2> DEFINE mine == [cjWorker[w] EXCEPT !.pc = "baseline"]
  <2>1. CJUpdate(w, cjRec[cjWorker[w].id], mine, TRUE) /\ UNCHANGED cjPatch
    BY <1>3 DEF CJPhase
  <2>2. mine \in CJWorkerRecs /\ mine.pc = "baseline" /\ mine.id = cjWorker[w].id /\ mine.project = cjWorker[w].project /\ mine.broker = cjWorker[w].broker
    BY <1>1 DEF CJWorkerRecs, CJAtWork
  <2> HIDE DEF mine
  <2>3. mine.pc \in CJAtWork /\ CJCame(mine, cjRec[cjWorker[w].id], cjPatch[cjWorker[w].id]) /\ mine.broker # "open"
    BY <1>1, <2>2 DEF CJAtWork, CJCame, CJInv, CJHolds
  <2> QED
    BY <1>1, <2>1, <2>2, <2>3, CJGoesOn
<1> QED
  BY <1>2, <1>3 DEF CJPrepare

\* What a check shows is what the checks of a request may show.
LEMMA CJCheckShows ==
  ASSUME CJInv, NEW w \in CJWorkers, cjWorker[w].pc \in CJAtWork, NEW seen \in CJCheck(w)
  PROVE  seen \in CJSeen
<1>1. cjRec[cjWorker[w].id].req \in CJRequests
  BY CJOfWorker, CJRecordFields
<1>2. seen \in CJChecks(cjRec[cjWorker[w].id].req)
  BY DEF CJCheck
<1> QED
  BY <1>1, <1>2 DEF CJSeen

\* The baseline.
LEMMA CJBaselineKeeps ==
  ASSUME CJInv, NEW w \in CJWorkers, CJBaseline(w)
  PROVE  CJInv'
<1>1. cjWorker[w] \in CJWorkerRecs /\ cjWorker[w].pc = "baseline" /\ cjWorker[w].pc \in CJAtWork
  BY CJOfWorker DEF CJBaseline, CJAtWork
<1>2. CASE CJFailed(w, "SANDBOX_UNAVAILABLE")
  BY <1>1, <1>2, CJFailedKeeps
<1>3. ASSUME NEW seen \in CJCheck(w), UNCHANGED cjPatch,
             CJUpdate(w, cjRec[cjWorker[w].id], [cjWorker[w] EXCEPT !.before = seen, !.pc = IF CJKindOf(w) = "assess" THEN "moved" ELSE "ready"], TRUE)
      PROVE  CJInv'
  <2> DEFINE pc == IF CJKindOf(w) = "assess" THEN "moved" ELSE "ready"
             mine == [cjWorker[w] EXCEPT !.before = seen, !.pc = pc]
  <2>1. seen \in CJSeen /\ pc \in {"moved", "ready"} /\ pc \in CJAtWork
    BY <1>1, CJCheckShows DEF CJAtWork
  <2>2. CJUpdate(w, cjRec[cjWorker[w].id], mine, TRUE)
    BY <1>3
  <2> HIDE DEF pc
  <2>3. mine \in CJWorkerRecs /\ mine.pc = pc /\ mine.id = cjWorker[w].id /\ mine.project = cjWorker[w].project /\ mine.broker = cjWorker[w].broker
    BY <1>1, <2>1 DEF CJWorkerRecs
  <2> HIDE DEF mine
  <2>4. mine.pc \in CJAtWork /\ CJCame(mine, cjRec[cjWorker[w].id], cjPatch[cjWorker[w].id]) /\ mine.broker # "open"
    BY <1>1, <2>1, <2>3 DEF CJCame, CJInv, CJHolds
  <2> QED
    BY <1>1, <1>3, <2>2, <2>3, <2>4, CJGoesOn
<1> QED
  BY <1>2, <1>3 DEF CJBaseline

\* assess, its first half.
LEMMA CJAssessKeeps ==
  ASSUME CJInv, NEW w \in CJWorkers, CJAssess(w)
  PROVE  CJInv'
<1>1. cjWorker[w] \in CJWorkerRecs /\ cjWorker[w].pc = "moved" /\ cjWorker[w].pc \in CJAtWork
  BY CJOfWorker DEF CJAssess, CJAtWork
<1>2. CASE CJEnd(w, "FAILED", "SANDBOX_UNAVAILABLE") \/ CJFailed(w, "SANDBOX_UNAVAILABLE")
  <2>1. "FAILED" \in CJEnded \ {"HANDED_BACK"}
    BY DEF CJEnded
  <2> QED
    BY <1>1, <1>2, <2>1, CJEndKeeps, CJFailedKeeps
<1>3. ASSUME CJUpdate(w, cjRec[cjWorker[w].id], [cjWorker[w] EXCEPT !.pc = "ready"], TRUE), UNCHANGED cjPatch
      PROVE  CJInv'
  <2> DEFINE mine == [cjWorker[w] EXCEPT !.pc = "ready"]
  <2>1. CJUpdate(w, cjRec[cjWorker[w].id], mine, TRUE)
    BY <1>3
  <2>2. mine \in CJWorkerRecs /\ mine.pc = "ready" /\ mine.id = cjWorker[w].id /\ mine.project = cjWorker[w].project /\ mine.broker = cjWorker[w].broker
    BY <1>1 DEF CJWorkerRecs, CJAtWork
  <2> HIDE DEF mine
  <2>3. mine.pc \in CJAtWork /\ CJCame(mine, cjRec[cjWorker[w].id], cjPatch[cjWorker[w].id]) /\ mine.broker # "open"
    BY <1>1, <2>2 DEF CJAtWork, CJCame, CJInv, CJHolds
  <2> QED
    BY <1>1, <1>3, <2>1, <2>2, <2>3, CJGoesOn
<1> QED
  BY <1>2, <1>3 DEF CJAssess, CJPhase

\* The agent may start.
LEMMA CJReadyKeeps ==
  ASSUME CJInv, NEW w \in CJWorkers, CJReady(w)
  PROVE  CJInv'
<1>1. cjWorker[w] \in CJWorkerRecs /\ cjWorker[w].pc = "ready" /\ cjWorker[w].pc \in CJAtWork
  BY CJOfWorker DEF CJReady, CJAtWork
<1>2. CASE CJEnd(w, "NOT_HANDED_BACK", "BASELINE_FAILED")
  <2>1. "NOT_HANDED_BACK" \in CJEnded \ {"HANDED_BACK"}
    BY DEF CJEnded
  <2> QED
    BY <1>1, <1>2, <2>1, CJEndKeeps
<1>3. CASE CJFailed(w, "SANDBOX_UNAVAILABLE")
  BY <1>1, <1>3, CJFailedKeeps
<1>4. ASSUME CJKindOf(w) = "assess" \/ baselineReady(CJKindOf(w), cjWorker[w].before), UNCHANGED cjPatch,
             CJUpdate(w, cjRec[cjWorker[w].id], [cjWorker[w] EXCEPT !.pc = "agent", !.broker = "open"], TRUE)
      PROVE  CJInv'
  <2> DEFINE mine == [cjWorker[w] EXCEPT !.pc = "agent", !.broker = "open"]
  <2>1. CJUpdate(w, cjRec[cjWorker[w].id], mine, TRUE)
    BY <1>4
  <2>2. mine \in CJWorkerRecs /\ mine.pc = "agent" /\ mine.id = cjWorker[w].id /\ mine.project = cjWorker[w].project /\ mine.before = cjWorker[w].before
    BY <1>1 DEF CJWorkerRecs, CJAtWork
  <2> HIDE DEF mine
  <2>3. mine.pc \in CJAtWork /\ mine.pc \in {"agent", "review"}
    BY <2>2 DEF CJAtWork
  <2>4. CJCame(mine, cjRec[cjWorker[w].id], cjPatch[cjWorker[w].id])
    BY <1>4, <2>2 DEF CJCame, CJKindOf
  <2> QED
    BY <1>1, <1>4, <2>1, <2>2, <2>3, <2>4, CJGoesOn
<1> QED
  BY <1>2, <1>3, <1>4 DEF CJReady

\* The agent's session.
LEMMA CJAgentKeeps ==
  ASSUME CJInv, NEW w \in CJWorkers, CJAgent(w)
  PROVE  CJInv'
<1>1. cjWorker[w] \in CJWorkerRecs /\ cjWorker[w].pc = "agent" /\ cjWorker[w].pc \in CJAtWork /\ CJKind(cjRec[cjWorker[w].id].req) # "assess"
  BY CJOfWorker DEF CJAgent, CJAtWork, CJKindOf
<1>2. CASE CJFailed(w, "ENGINE_UNAVAILABLE") \/ CJEnd(w, "FAILED", "SANDBOX_UNAVAILABLE") \/ CJEnd(w, "NOT_HANDED_BACK", "NO_CHANGE")
  <2>1. "FAILED" \in CJEnded \ {"HANDED_BACK"} /\ "NOT_HANDED_BACK" \in CJEnded \ {"HANDED_BACK"}
    BY DEF CJEnded
  <2> QED
    BY <1>1, <1>2, <2>1, CJEndKeeps, CJFailedKeeps
<1>3. ASSUME NEW leaked \in BOOLEAN, UNCHANGED cjPatch,
             CJUpdate(w, cjRec[cjWorker[w].id], [cjWorker[w] EXCEPT !.pc = "review", !.leaked = leaked], TRUE)
      PROVE  CJInv'
  <2> DEFINE mine == [cjWorker[w] EXCEPT !.pc = "review", !.leaked = leaked]
  <2>1. CJUpdate(w, cjRec[cjWorker[w].id], mine, TRUE)
    BY <1>3
  <2>2. mine \in CJWorkerRecs /\ mine.pc = "review" /\ mine.id = cjWorker[w].id /\ mine.project = cjWorker[w].project /\ mine.before = cjWorker[w].before
    BY <1>1 DEF CJWorkerRecs, CJAtWork
  <2> HIDE DEF mine
  <2>3. mine.pc \in CJAtWork /\ mine.pc \in {"agent", "review"}
    BY <2>2 DEF CJAtWork
  <2>4. CJCame(mine, cjRec[cjWorker[w].id], cjPatch[cjWorker[w].id])
    BY <1>1, <2>2 DEF CJCame, CJInv, CJComes
  <2> QED
    BY <1>1, <1>3, <2>1, <2>2, <2>3, <2>4, CJGoesOn
<1> QED
  BY <1>2, <1>3 DEF CJAgent

\* assess, its second half.
LEMMA CJPlanKeeps ==
  ASSUME CJInv, NEW w \in CJWorkers, CJPlan(w)
  PROVE  CJInv'
<1>1. cjWorker[w].pc \in CJAtWork
  BY DEF CJPlan, CJAtWork
<1>2. "NOT_HANDED_BACK" \in CJEnded \ {"HANDED_BACK"} /\ "ASSESSED" \in CJEnded \ {"HANDED_BACK"}
  BY DEF CJEnded
<1> QED
  BY <1>1, <1>2, CJEndKeeps, CJFailedKeeps DEF CJPlan

\* The review session.
LEMMA CJReviewKeeps ==
  ASSUME CJInv, NEW w \in CJWorkers, CJReview(w)
  PROVE  CJInv'
<1>1. cjWorker[w] \in CJWorkerRecs /\ cjWorker[w].pc = "review" /\ cjWorker[w].pc \in CJAtWork
  BY CJOfWorker DEF CJReview, CJAtWork
<1>2. CASE CJFailed(w, "ENGINE_UNAVAILABLE")
  BY <1>1, <1>2, CJFailedKeeps
<1>3. ASSUME NEW left \in CJWork, NEW leaked \in BOOLEAN, UNCHANGED cjPatch,
             CJUpdate(w, cjRec[cjWorker[w].id],
                      [cjWorker[w] EXCEPT !.pc = "result", !.left = left, !.leaked = cjWorker[w].leaked \/ leaked, !.broker = "closed"], TRUE)
      PROVE  CJInv'
  <2> DEFINE told == cjWorker[w].leaked \/ leaked
             mine == [cjWorker[w] EXCEPT !.pc = "result", !.left = left, !.leaked = told, !.broker = "closed"]
  <2>1. CJUpdate(w, cjRec[cjWorker[w].id], mine, TRUE)
    BY <1>3
  <2>2. told \in BOOLEAN
    OBVIOUS
  <2> HIDE DEF told
  <2>3. mine \in CJWorkerRecs /\ mine.pc = "result" /\ mine.id = cjWorker[w].id /\ mine.project = cjWorker[w].project /\ mine.before = cjWorker[w].before
        /\ mine.broker = "closed"
    BY <1>1, <2>2 DEF CJWorkerRecs, CJAtWork
  <2> HIDE DEF mine
  <2>4. mine.pc \in CJAtWork /\ mine.broker # "open"
    BY <2>3 DEF CJAtWork
  <2>5. CJCame(mine, cjRec[cjWorker[w].id], cjPatch[cjWorker[w].id])
    BY <1>1, <2>3 DEF CJCame, CJInv, CJComes
  <2> QED
    BY <1>1, <1>3, <2>1, <2>3, <2>4, <2>5, CJGoesOn
<1> QED
  BY <1>2, <1>3 DEF CJReview

\* A change that can be handed back and holds no secret is a clean one.
LEMMA CJCleanOnly ==
  ASSUME NEW left \in CJWork, makeResult(left) = "", left # "secret"
  PROVE  left = "clean"
BY DEF CJWork, makeResult

\* The result is made.
LEMMA CJResultKeeps ==
  ASSUME CJInv, NEW w \in CJWorkers, CJResult(w)
  PROVE  CJInv'
<1>1. cjWorker[w] \in CJWorkerRecs /\ cjWorker[w].pc = "result" /\ cjWorker[w].pc \in CJAtWork /\ cjWorker[w].left \in CJWork
  BY CJOfWorker, CJWorkerFields DEF CJResult, CJAtWork
<1>2. CASE CJEnd(w, "FAILED", "SANDBOX_UNAVAILABLE") \/ CJEnd(w, "NOT_HANDED_BACK", makeResult(cjWorker[w].left)) \/ CJEnd(w, "NOT_HANDED_BACK", "SECRET_IN_CHANGE")
  <2>1. "FAILED" \in CJEnded \ {"HANDED_BACK"} /\ "NOT_HANDED_BACK" \in CJEnded \ {"HANDED_BACK"}
    BY DEF CJEnded
  <2> QED
    BY <1>1, <1>2, <2>1, CJEndKeeps
<1>3. ASSUME makeResult(cjWorker[w].left) = "", cjWorker[w].left # "secret", CJPhase(w, "CHECKING", IF CJKindOf(w) = "fix" THEN "proof" ELSE "after")
      PROVE  CJInv'
  <2> DEFINE pc == IF CJKindOf(w) = "fix" THEN "proof" ELSE "after"
             mine == [cjWorker[w] EXCEPT !.pc = pc]
  <2>1. CJUpdate(w, cjRec[cjWorker[w].id], mine, TRUE) /\ UNCHANGED cjPatch
    BY <1>3 DEF CJPhase
  <2>2. pc \in {"proof", "after"} /\ pc \in CJAtWork
    BY DEF CJAtWork
  <2> HIDE DEF pc
  <2>3. mine \in CJWorkerRecs /\ mine.pc = pc /\ mine.id = cjWorker[w].id /\ mine.project = cjWorker[w].project /\ mine.before = cjWorker[w].before
        /\ mine.broker = cjWorker[w].broker /\ mine.left = cjWorker[w].left
    BY <1>1, <2>2 DEF CJWorkerRecs, CJAtWork
  <2> HIDE DEF mine
  <2>4. mine.pc \in CJAtWork /\ mine.broker # "open"
    BY <1>1, <2>2, <2>3 DEF CJInv, CJHolds
  <2>5. mine.left = "clean"
    BY <1>1, <1>3, <2>3, CJCleanOnly
  <2>6. CJCame(mine, cjRec[cjWorker[w].id], cjPatch[cjWorker[w].id])
    BY <1>1, <2>2, <2>3, <2>5 DEF CJCame, CJInv, CJComes
  <2> QED
    BY <1>1, <2>1, <2>3, <2>4, <2>6, CJGoesOn
<1> QED
  BY <1>2, <1>3 DEF CJResult

\* prove.
LEMMA CJProveKeeps ==
  ASSUME CJInv, NEW w \in CJWorkers, CJProve(w)
  PROVE  CJInv'
<1>1. cjWorker[w] \in CJWorkerRecs /\ cjWorker[w].pc = "proof" /\ cjWorker[w].pc \in CJAtWork
  BY CJOfWorker DEF CJProve, CJAtWork
<1>2. CASE CJStopped(w)
  BY <1>1, <1>2, CJStoppedKeeps
<1>3. CASE CJPhase(w, "CHECKING", "after")
  <2> DEFINE mine == [cjWorker[w] EXCEPT !.pc = "after"]
  <2>1. CJUpdate(w, cjRec[cjWorker[w].id], mine, TRUE) /\ UNCHANGED cjPatch
    BY <1>3 DEF CJPhase
  <2>2. mine \in CJWorkerRecs /\ mine.pc = "after" /\ mine.id = cjWorker[w].id /\ mine.project = cjWorker[w].project /\ mine.before = cjWorker[w].before
        /\ mine.broker = cjWorker[w].broker /\ mine.left = cjWorker[w].left
    BY <1>1 DEF CJWorkerRecs, CJAtWork
  <2> HIDE DEF mine
  <2>3. mine.pc \in CJAtWork /\ mine.broker # "open"
    BY <1>1, <2>2 DEF CJInv, CJHolds, CJAtWork
  <2>4. CJCame(mine, cjRec[cjWorker[w].id], cjPatch[cjWorker[w].id])
    BY <1>1, <2>2 DEF CJCame, CJInv, CJComes
  <2> QED
    BY <1>1, <2>1, <2>2, <2>3, <2>4, CJGoesOn
<1> QED
  BY <1>2, <1>3 DEF CJProve

\* The checks after.
LEMMA CJAfterKeeps ==
  ASSUME CJInv, NEW w \in CJWorkers, CJAfter(w)
  PROVE  CJInv'
<1>1. cjWorker[w] \in CJWorkerRecs /\ cjWorker[w].pc = "after" /\ cjWorker[w].pc \in CJAtWork
  BY CJOfWorker DEF CJAfter, CJAtWork
<1>2. CASE CJFailed(w, "SANDBOX_UNAVAILABLE")
  BY <1>1, <1>2, CJFailedKeeps
<1>3. ASSUME NEW seen \in CJCheck(w), UNCHANGED cjPatch, CJUpdate(w, cjRec[cjWorker[w].id], [cjWorker[w] EXCEPT !.pc = "compare", !.after = seen], TRUE)
      PROVE  CJInv'
  <2> DEFINE mine == [cjWorker[w] EXCEPT !.pc = "compare", !.after = seen]
  <2>1. CJUpdate(w, cjRec[cjWorker[w].id], mine, TRUE) /\ seen \in CJSeen
    BY <1>1, <1>3, CJCheckShows
  <2>2. mine \in CJWorkerRecs /\ mine.pc = "compare" /\ mine.id = cjWorker[w].id /\ mine.project = cjWorker[w].project /\ mine.before = cjWorker[w].before
        /\ mine.broker = cjWorker[w].broker /\ mine.left = cjWorker[w].left
    BY <1>1, <2>1 DEF CJWorkerRecs, CJAtWork
  <2> HIDE DEF mine
  <2>3. mine.pc \in CJAtWork /\ mine.broker # "open"
    BY <1>1, <2>2 DEF CJInv, CJHolds, CJAtWork
  <2>4. CJCame(mine, cjRec[cjWorker[w].id], cjPatch[cjWorker[w].id])
    BY <1>1, <2>2 DEF CJCame, CJInv, CJComes
  <2> QED
    BY <1>1, <1>3, <2>1, <2>2, <2>3, <2>4, CJGoesOn
<1> QED
  BY <1>2, <1>3 DEF CJAfter

\* A result on a ready baseline that is no worse after is good.
LEMMA CJNoWorseIsGood ==
  ASSUME NEW req, NEW result, result.patch = "clean", CJKind(req) # "assess", baselineReady(CJKind(req), result.before),
         noWorse(CJKind(req), result.before, result.after)
  PROVE  CJGood(req, result)
<1>1. CJKind(req) = "tests" => CJFine(result.before.build) /\ result.after.tests.passed > result.before.tests.passed
  <2>1. CJKind(req) = "tests" => CJFine(result.before.build)
    BY DEF baselineReady
  <2>2. CJKind(req) = "tests" => result.after.tests.passed > result.before.tests.passed
    BY Zenon DEF noWorse
  <2> QED
    BY <2>1, <2>2
<1>2. result.before.tests.known => result.after.tests.passed >= result.before.tests.passed
  BY Zenon DEF noWorse
<1>3. CJFine(result.before.install) => CJFine(result.after.install)
  BY Zenon DEF noWorse
<1> QED
  BY <1>1, <1>2, <1>3, Zenon DEF CJGood

\* The job of worker w gets the record rec, and w becomes mine, at work with it
\* still.
LEMMA CJRecordMoves ==
  ASSUME CJInv, NEW w \in CJWorkers, cjWorker[w].pc \in CJAtWork \cup {"taken"}, NEW rec \in CJRecords, NEW mine \in CJWorkerRecs,
         mine.pc \in CJAtWork, mine.id = cjWorker[w].id, mine.project = cjWorker[w].project, mine.broker = "closed", rec.state = "RUNNING",
         cjRec' = [cjRec EXCEPT ![cjWorker[w].id] = rec], cjDisk' = cjDisk \/ cjDisk' = [cjDisk EXCEPT ![cjWorker[w].id] = rec],
         cjWorker' = [cjWorker EXCEPT ![w] = mine], cjPatch' \in [CJJobs -> CJWork], \A k \in CJJobs : k # cjWorker[w].id => cjPatch'[k] = cjPatch[k],
         CJCame(mine, rec, cjPatch'[cjWorker[w].id]), UNCHANGED <<cjQueue, cjMade, cjBusy, cjWake, cjUp>>
  PROVE  CJInv'
<1> DEFINE j == cjWorker[w].id
<1>1. j \in CJJobs /\ cjUp # "down" /\ cjWorker[w].project # "" /\ j # 0
  BY CJOfWorker DEF CJInv, CJHolds, CJAtWork
<1>2. cjWorker' \in [CJWorkers -> CJWorkerRecs] /\ cjWorker'[w] = mine /\ \A v \in CJWorkers : v # w => cjWorker'[v] = cjWorker[v]
  BY DEF CJInv, CJKinds
<1>3. \A v \in CJWorkers : cjWorker'[v].id = cjWorker[v].id /\ cjWorker'[v].project = cjWorker[v].project
  BY <1>2, Zenon
<1>4. /\ cjRec' \in [CJJobs -> CJRecords \cup {CJNone}] /\ cjDisk' \in [CJJobs -> CJRecords \cup {CJNone}]
      /\ cjRec'[j] = rec /\ \A k \in CJJobs : k # j => cjRec'[k] = cjRec[k] /\ cjDisk'[k] = cjDisk[k]
      /\ cjDisk'[j] = cjDisk[j] \/ cjDisk'[j] = rec
  BY <1>1 DEF CJInv, CJKinds
<1>5. cjQueue' = cjQueue /\ cjMade' = cjMade /\ cjBusy' = cjBusy /\ cjUp' = cjUp /\ cjWake' = cjWake
  OBVIOUS
<1>6. CJKinds'
  BY <1>2, <1>4, <1>5 DEF CJInv, CJKinds
<1>7. \A v \in CJWorkers : v # w /\ cjWorker[v].id # 0 => cjWorker[v].id # j
  BY DEF CJInv, CJHolds
<1>8. CJWaiting'
  <2>1. /\ \A i \in 1..Len(cjQueue) : /\ cjQueue[i] <= cjMade /\ cjRec[cjQueue[i]].state = "QUEUED"
                                     /\ \A v \in CJWorkers : cjWorker[v].id # cjQueue[i]
        /\ \A i, k \in 1..Len(cjQueue) : i # k => cjQueue[i] # cjQueue[k]
        /\ cjUp = "down" => cjQueue = <<>>
    BY DEF CJInv, CJWaiting
  <2>2. \A i \in 1..Len(cjQueue) : cjQueue[i] # j /\ cjQueue[i] \in CJJobs
    BY <2>1 DEF CJInv, CJKinds
  <2>3. \A i \in 1..Len(cjQueue) : cjRec'[cjQueue[i]] = cjRec[cjQueue[i]]
    BY <1>4, <2>2
  <2>4. \A i \in 1..Len(cjQueue) : /\ cjQueue[i] <= cjMade /\ cjRec'[cjQueue[i]].state = "QUEUED"
                                  /\ \A v \in CJWorkers : cjWorker'[v].id # cjQueue[i]
    <3> SUFFICES ASSUME NEW i \in 1..Len(cjQueue)
                 PROVE  /\ cjQueue[i] <= cjMade /\ cjRec'[cjQueue[i]].state = "QUEUED"
                        /\ \A v \in CJWorkers : cjWorker'[v].id # cjQueue[i]
      OBVIOUS
    <3>1. cjQueue[i] <= cjMade /\ cjRec[cjQueue[i]].state = "QUEUED" /\ \A v \in CJWorkers : cjWorker[v].id # cjQueue[i]
      BY <2>1, Zenon
    <3>2. cjRec'[cjQueue[i]] = cjRec[cjQueue[i]]
      BY <2>3, Zenon
    <3> QED
      BY <1>3, <3>1, <3>2
  <2> QED
    BY <1>5, <2>1, <2>4 DEF CJWaiting
<1>9. CJHolds'
  <2>1. \A v \in CJWorkers : /\ cjWorker[v].id <= cjMade
                             /\ cjWorker[v].pc \in {"idle", "asleep"} <=> cjWorker[v].project = ""
                             /\ cjWorker[v].pc \in {"idle", "asleep", "clear"} <=> cjWorker[v].id = 0
                             /\ cjWorker[v].broker = "open" => cjWorker[v].pc \in {"agent", "review"}
                             /\ cjUp = "down" => cjWorker[v].pc = "asleep"
    BY DEF CJInv, CJHolds
  <2>2. mine.pc \notin {"idle", "asleep", "clear"} /\ mine.broker # "open"
    BY DEF CJAtWork
  <2>3. {cjWorker'[v].project : v \in CJWorkers} = {cjWorker[v].project : v \in CJWorkers}
    BY <1>3
  <2>4. ASSUME NEW v \in CJWorkers
        PROVE  /\ cjWorker'[v].id <= cjMade
               /\ cjWorker'[v].pc \in {"idle", "asleep"} <=> cjWorker'[v].project = ""
               /\ cjWorker'[v].pc \in {"idle", "asleep", "clear"} <=> cjWorker'[v].id = 0
               /\ cjWorker'[v].broker = "open" => cjWorker'[v].pc \in {"agent", "review"}
               /\ cjUp' = "down" => cjWorker'[v].pc = "asleep"
    <3>1. CASE v = w
      BY <1>1, <1>2, <1>5, <2>1, <2>2, <3>1, Zenon
    <3>2. CASE v # w
      BY <1>2, <1>5, <2>1, <3>2, Zenon
    <3> QED
      BY <3>1, <3>2
  <2>5. \A u, v \in CJWorkers : u # v => /\ cjWorker'[u].project # "" => cjWorker'[u].project # cjWorker'[v].project
                                         /\ cjWorker'[u].id # 0 => cjWorker'[u].id # cjWorker'[v].id
    <3>1. \A u, v \in CJWorkers : u # v => /\ cjWorker[u].project # "" => cjWorker[u].project # cjWorker[v].project
                                           /\ cjWorker[u].id # 0 => cjWorker[u].id # cjWorker[v].id
      BY DEF CJInv, CJHolds
    <3> SUFFICES ASSUME NEW u \in CJWorkers, NEW v \in CJWorkers, u # v
                 PROVE  /\ cjWorker'[u].project # "" => cjWorker'[u].project # cjWorker'[v].project
                        /\ cjWorker'[u].id # 0 => cjWorker'[u].id # cjWorker'[v].id
      OBVIOUS
    <3>2. /\ cjWorker'[u].id = cjWorker[u].id /\ cjWorker'[u].project = cjWorker[u].project
          /\ cjWorker'[v].id = cjWorker[v].id /\ cjWorker'[v].project = cjWorker[v].project
      BY <1>3
    <3> QED
      BY <3>1, <3>2
  <2>6. cjBusy' = {cjWorker'[v].project : v \in CJWorkers} \ {""}
    BY <1>5, <2>3 DEF CJInv, CJHolds
  <2> QED
    BY <1>5, <2>4, <2>5, <2>6, Zenon DEF CJHolds
<1>10. ASSUME NEW v \in CJWorkers, v # w, cjWorker[v].pc \in CJAtWork \cup {"taken"}
       PROVE  cjWorker'[v] = cjWorker[v] /\ cjWorker[v].id \in CJJobs /\ cjWorker[v].id # j
              /\ cjRec'[cjWorker[v].id] = cjRec[cjWorker[v].id] /\ cjPatch'[cjWorker[v].id] = cjPatch[cjWorker[v].id]
  <2>1. cjWorker[v].id \in CJJobs /\ cjWorker[v].id # 0
    BY <1>10, CJOfWorker DEF CJInv, CJHolds, CJAtWork
  <2> QED
    BY <1>2, <1>4, <1>7, <1>10, <2>1
<1>11. CJRuns'
  <2> SUFFICES ASSUME NEW v \in CJWorkers
               PROVE  /\ cjWorker'[v].pc \in CJAtWork => cjRec'[cjWorker'[v].id].state = "RUNNING"
                      /\ cjWorker'[v].pc = "taken" => cjRec'[cjWorker'[v].id].state \in {"QUEUED", "STOPPED", "NONE"}
    BY DEF CJRuns
  <2>1. CASE v = w
    BY <1>2, <1>4, <2>1 DEF CJAtWork
  <2>2. CASE v # w
    <3>1. cjWorker'[v] = cjWorker[v]
      BY <1>2, <2>2
    <3> QED
      BY <1>10, <2>2, <3>1 DEF CJInv, CJRuns
  <2> QED
    BY <2>1, <2>2
<1>12. CJComes'
  <2> SUFFICES ASSUME NEW v \in CJWorkers, cjWorker'[v].pc \in CJAtWork  PROVE CJCame(cjWorker'[v], cjRec'[cjWorker'[v].id], cjPatch'[cjWorker'[v].id])
    BY Zenon DEF CJComes, CJCame
  <2>1. CASE v = w
    BY <1>2, <1>4, <2>1, Zenon
  <2>2. CASE v # w
    <3>1. cjWorker'[v] = cjWorker[v] /\ cjWorker[v].pc \in CJAtWork \cup {"taken"}
      BY <1>2, <2>2
    <3>2. CJCame(cjWorker[v], cjRec[cjWorker[v].id], cjPatch[cjWorker[v].id])
      BY <3>1 DEF CJInv, CJComes
    <3> QED
      BY <1>10, <2>2, <3>1, <3>2, Zenon
  <2> QED
    BY <2>1, <2>2
<1>13. CJBacked'
  <2>1. cjRec[j].state # "HANDED_BACK"
    BY DEF CJInv, CJRuns
  <2>2. cjDisk[j].state # "HANDED_BACK"
    BY <1>1, <2>1 DEF CJInv, CJBacked
  <2>3. cjRec'[j].state # "HANDED_BACK" /\ cjDisk'[j].state # "HANDED_BACK"
    BY <1>4, <2>2
  <2>4. \A k \in CJJobs : k # j => cjRec'[k] = cjRec[k] /\ cjDisk'[k] = cjDisk[k] /\ cjPatch'[k] = cjPatch[k]
    BY <1>4
  <2> QED
    BY <1>5, <2>3, <2>4 DEF CJInv, CJBacked
<1> QED
  BY <1>6, <1>8, <1>9, <1>11, <1>12, <1>13 DEF CJInv

\* run, its first section.
LEMMA CJMarkKeeps ==
  ASSUME CJInv, NEW w \in CJWorkers, CJMark(w)
  PROVE  CJInv'
<1> DEFINE j == cjWorker[w].id
           rec == [cjRec[j] EXCEPT !.state = "RUNNING"]
           ctx == IF cjUp = "up" THEN "live" ELSE "cancelled"
           mine == [cjWorker[w] EXCEPT !.pc = "prepare", !.ctx = ctx]
<1>1. cjWorker[w] \in CJWorkerRecs /\ cjWorker[w].pc = "taken" /\ j \in CJJobs
  BY CJOfWorker DEF CJMark
<1>2. cjRec[j] \in CJRecords
  BY <1>1 DEF CJMark, CJHas, CJInv, CJKinds
<1>3. rec \in CJRecords /\ rec.state = "RUNNING" /\ rec.req = cjRec[j].req /\ rec.result = cjRec[j].result
  <2>1. "RUNNING" \in CJActive \cup CJEnded
    BY DEF CJActive
  <2> HIDE DEF j
  <2> QED
    BY <1>2, <2>1, CJRecordTold
<1>4. PICK ok \in BOOLEAN : CJUpdate(w, rec, mine, ok)
  BY DEF CJMark
<1>5. cjPatch' = cjPatch
  BY DEF CJMark
<1>6. ctx \in {"live", "cancelled", "expired"}
  OBVIOUS
<1> HIDE DEF ctx, rec
<1>7. mine \in CJWorkerRecs /\ mine.pc = "prepare" /\ mine.id = cjWorker[w].id /\ mine.project = cjWorker[w].project /\ mine.broker = cjWorker[w].broker
  BY <1>1, <1>6 DEF CJWorkerRecs, CJAtWork
<1> HIDE DEF mine
<1>8. mine.pc \in CJAtWork /\ mine.broker = "closed"
  <2>1. cjWorker[w].broker # "open" /\ cjWorker[w].broker \in {"open", "closed"}
    BY <1>1, CJWorkerFields DEF CJInv, CJHolds
  <2> QED
    BY <1>7, <2>1 DEF CJAtWork
<1>9. CJCame(mine, rec, cjPatch'[cjWorker[w].id])
  BY <1>7 DEF CJCame
<1>10. cjRec' = [cjRec EXCEPT ![cjWorker[w].id] = rec] /\ cjWorker' = [cjWorker EXCEPT ![w] = mine] /\ UNCHANGED <<cjQueue, cjMade, cjBusy, cjWake, cjUp>>
  BY <1>4 DEF CJUpdate
<1>11. cjDisk' = cjDisk \/ cjDisk' = [cjDisk EXCEPT ![cjWorker[w].id] = rec]
  BY <1>4 DEF CJUpdate, CJSave
<1>12. cjPatch' \in [CJJobs -> CJWork] /\ \A k \in CJJobs : k # cjWorker[w].id => cjPatch'[k] = cjPatch[k]
  BY <1>5 DEF CJInv, CJKinds
<1>13. cjWorker[w].pc \in CJAtWork \cup {"taken"}
  BY <1>1
<1> QED
  BY <1>3, <1>7, <1>8, <1>9, <1>10, <1>11, <1>12, <1>13, CJRecordMoves

\* The patch is written and the result shown.
LEMMA CJHandBackKeeps ==
  ASSUME CJInv, NEW w \in CJWorkers, CJHandBack(w)
  PROVE  CJInv'
<1>1. cjWorker[w] \in CJWorkerRecs /\ cjWorker[w].pc = "compare" /\ cjWorker[w].pc \in CJAtWork
  BY CJOfWorker DEF CJHandBack, CJAtWork
<1>2. CASE CJEnd(w, "NOT_HANDED_BACK", "WORSE_AFTER") \/ CJEnd(w, "FAILED", "SANDBOX_UNAVAILABLE")
  <2>1. "FAILED" \in CJEnded \ {"HANDED_BACK"} /\ "NOT_HANDED_BACK" \in CJEnded \ {"HANDED_BACK"}
    BY DEF CJEnded
  <2> QED
    BY <1>1, <1>2, <2>1, CJEndKeeps
<1> DEFINE j == cjWorker[w].id
           project == cjWorker[w].project
           ctx == cjWorker[w].ctx
           result == [patch |-> cjWorker[w].left, before |-> cjWorker[w].before, after |-> cjWorker[w].after]
           rec == [cjRec[j] EXCEPT !.result = result]
           mine == [CJIdle EXCEPT !.pc = "finish", !.id = j, !.project = project, !.ctx = ctx, !.end = "HANDED_BACK"]
<1>3. ASSUME noWorse(CJKindOf(w), cjWorker[w].before, cjWorker[w].after), cjPatch' = [cjPatch EXCEPT ![j] = cjWorker[w].left], CJUpdate(w, rec, mine, TRUE)
      PROVE  CJInv'
  <2>1. j \in CJJobs /\ cjRec[j] \in CJRecords /\ cjRec[j].state = "RUNNING"
    BY <1>1, CJOfWorker DEF CJInv, CJRuns
  <2>2. CJCame(cjWorker[w], cjRec[j], cjPatch[j])
    BY <1>1 DEF CJInv, CJComes
  <2>3. cjWorker[w].left = "clean" /\ CJKind(cjRec[j].req) # "assess" /\ baselineReady(CJKind(cjRec[j].req), cjWorker[w].before)
    BY <1>1, <2>2 DEF CJCame
  <2>4. result \in CJResults /\ result.patch = "clean" /\ result.before = cjWorker[w].before /\ result.after = cjWorker[w].after
    BY <1>1, <2>3, CJWorkerFields DEF CJResults
  <2>5. CJGood(cjRec[j].req, result)
    <3>1. noWorse(CJKind(cjRec[j].req), result.before, result.after) /\ baselineReady(CJKind(cjRec[j].req), result.before)
      BY <1>3, <2>3, <2>4, Zenon DEF CJKindOf
    <3> QED
      BY <2>3, <2>4, <3>1, CJNoWorseIsGood
  <2>6. j \in 0..CJMaxJobs /\ project \in CJProjects \cup {""} /\ ctx \in {"live", "cancelled", "expired"}
    BY <1>1, CJWorkerFields
  <2>7. j = cjWorker[w].id /\ project = cjWorker[w].project
    OBVIOUS
  <2>8. cjRec' = [cjRec EXCEPT ![j] = rec] /\ cjDisk' = [cjDisk EXCEPT ![j] = rec] /\ cjWorker' = [cjWorker EXCEPT ![w] = mine]
        /\ UNCHANGED <<cjQueue, cjMade, cjBusy, cjWake, cjUp>>
    BY <1>3 DEF CJUpdate, CJSave
  <2>9. cjPatch' = [cjPatch EXCEPT ![j] = "clean"]
    BY <1>3, <2>3
  <2> HIDE DEF j, project, ctx, result
  <2>10. mine \in CJWorkerRecs /\ mine.pc = "finish" /\ mine.id = j /\ mine.project = project /\ mine.end = "HANDED_BACK" /\ mine.broker = "closed"
    BY <2>6, CJIdleIs DEF CJWorkerRecs, CJAtWork, CJEnded
  <2>11. rec \in CJRecords /\ rec.state = "RUNNING" /\ rec.req = cjRec[j].req /\ rec.result = result
    BY <2>1, <2>4 DEF CJRecords
  <2> HIDE DEF mine, rec
  <2>12. cjPatch' \in [CJJobs -> CJWork] /\ cjPatch'[j] = "clean" /\ \A k \in CJJobs : k # j => cjPatch'[k] = cjPatch[k]
    BY <2>1, <2>9 DEF CJInv, CJKinds, CJWork
  <2>13. mine.pc \in CJAtWork
    BY <2>10 DEF CJAtWork
  <2>14. CJCame(mine, rec, cjPatch'[j])
    BY <2>4, <2>5, <2>10, <2>11, <2>12 DEF CJCame, CJEnded
  <2>15. cjWorker[w].pc \in CJAtWork \cup {"taken"} /\ (cjDisk' = cjDisk \/ cjDisk' = [cjDisk EXCEPT ![j] = rec])
    BY <1>1, <2>8
  <2> QED
    BY <2>7, <2>8, <2>10, <2>11, <2>12, <2>13, <2>14, <2>15, CJRecordMoves
<1> QED
  BY <1>2, <1>3 DEF CJHandBack

\* run, its last update.
LEMMA CJFinishKeeps ==
  ASSUME CJInv, NEW w \in CJWorkers, CJFinish(w)
  PROVE  CJInv'
<1> DEFINE j == cjWorker[w].id
           project == cjWorker[w].project
           end == IF cjWorker[w].ctx = "expired" /\ cjWorker[w].end \notin {"HANDED_BACK", "NOT_HANDED_BACK", "ASSESSED"}
                  THEN "FAILED" ELSE cjWorker[w].end
           rec == [cjRec[j] EXCEPT !.state = end]
           mine == [CJIdle EXCEPT !.pc = "clear", !.project = project]
<1>1. cjWorker[w] \in CJWorkerRecs /\ cjWorker[w].pc = "finish" /\ cjWorker[w].pc \in CJAtWork
  BY CJOfWorker DEF CJFinish, CJAtWork
<1>2. j \in CJJobs /\ cjRec[j] \in CJRecords /\ cjRec[j].state = "RUNNING" /\ project # "" /\ cjUp # "down" /\ project \in CJProjects
  BY <1>1, CJOfWorker, CJWorkerFields DEF CJInv, CJRuns
<1>3. PICK ok \in BOOLEAN : CJUpdate(w, rec, mine, ok)
  BY DEF CJFinish
<1>4. cjPatch' = cjPatch
  BY DEF CJFinish
<1>5. end \in CJEnded /\ (end = "HANDED_BACK" => cjWorker[w].end = "HANDED_BACK")
  <2>1. cjWorker[w].end \in CJEnded
    BY <1>1 DEF CJInv, CJComes, CJCame
  <2> QED
    BY <2>1 DEF CJEnded
<1>6. end = "HANDED_BACK" => CJGood(cjRec[j].req, cjRec[j].result) /\ cjPatch[j] = cjRec[j].result.patch
  BY <1>1, <1>5 DEF CJInv, CJComes, CJCame
<1>7. j = cjWorker[w].id /\ project = cjWorker[w].project
  OBVIOUS
<1> HIDE DEF end, j, project
<1>8. rec \in CJRecords /\ rec.state = end /\ rec.req = cjRec[j].req /\ rec.result = cjRec[j].result
  <2>1. end \in CJActive \cup CJEnded
    BY <1>5
  <2> QED
    BY <1>2, <2>1 DEF CJRecords
<1>9. mine \in CJWorkerRecs /\ mine.pc = "clear" /\ mine.id = 0 /\ mine.project = project /\ mine.broker = "closed"
  BY <1>2, CJIdleIs DEF CJWorkerRecs
<1> HIDE DEF mine, rec
<1>10. cjRec' = [cjRec EXCEPT ![j] = rec] /\ cjWorker' = [cjWorker EXCEPT ![w] = mine]
  BY <1>3, <1>7 DEF CJUpdate
<1>11. cjQueue' = cjQueue /\ cjMade' = cjMade /\ cjBusy' = cjBusy /\ cjWake' = cjWake /\ cjUp' = cjUp
  BY <1>3 DEF CJUpdate
<1>12. cjDisk' = cjDisk \/ cjDisk' = [cjDisk EXCEPT ![j] = rec]
  BY <1>3, <1>7 DEF CJUpdate, CJSave
<1>13. /\ cjRec' \in [CJJobs -> CJRecords \cup {CJNone}] /\ cjDisk' \in [CJJobs -> CJRecords \cup {CJNone}] /\ cjRec'[j] = rec
       /\ \A k \in CJJobs : k # j => cjRec'[k] = cjRec[k] /\ cjDisk'[k] = cjDisk[k]
       /\ cjDisk'[j] = cjDisk[j] \/ cjDisk'[j] = rec
  BY <1>2, <1>8, <1>10, <1>12 DEF CJInv, CJKinds
<1>14. cjWorker' \in [CJWorkers -> CJWorkerRecs] /\ cjWorker'[w] = mine /\ \A v \in CJWorkers : v # w => cjWorker'[v] = cjWorker[v]
  BY <1>9, <1>10 DEF CJInv, CJKinds
<1>15. CJKinds'
  BY <1>4, <1>11, <1>13, <1>14 DEF CJInv, CJKinds
<1>16. \A v \in CJWorkers : v # w /\ cjWorker[v].id # 0 => cjWorker[v].id # j
  BY <1>7, CJHoldsOf
<1>17. CJWaiting'
  <2>1. \A i \in 1..Len(cjQueue) : /\ cjQueue[i] \in CJJobs /\ cjQueue[i] # 0 /\ cjQueue[i] <= cjMade /\ cjRec[cjQueue[i]].state = "QUEUED"
                                   /\ \A v \in CJWorkers : cjWorker[v].id # cjQueue[i]
    BY CJWaitingOf
  <2>2. \A i \in 1..Len(cjQueue) : /\ cjQueue[i] <= cjMade /\ cjRec'[cjQueue[i]].state = "QUEUED"
                                   /\ \A v \in CJWorkers : cjWorker'[v].id # cjQueue[i]
    <3> SUFFICES ASSUME NEW i \in 1..Len(cjQueue)
                 PROVE  /\ cjQueue[i] <= cjMade /\ cjRec'[cjQueue[i]].state = "QUEUED"
                        /\ \A v \in CJWorkers : cjWorker'[v].id # cjQueue[i]
      OBVIOUS
    <3>1. /\ cjQueue[i] \in CJJobs /\ cjQueue[i] # 0 /\ cjQueue[i] <= cjMade /\ cjRec[cjQueue[i]].state = "QUEUED"
          /\ \A v \in CJWorkers : cjWorker[v].id # cjQueue[i]
      BY <2>1, Zenon
    <3>2. cjQueue[i] # j
      BY <1>7, <3>1
    <3>3. \A v \in CJWorkers : cjWorker'[v].id # cjQueue[i]
      BY <1>9, <1>14, <3>1
    <3> QED
      BY <1>13, <3>1, <3>2, <3>3
  <2> QED
    BY <1>11, <2>2, CJWaitingOf DEF CJWaiting
<1>18. CJHolds'
  <2>1. ASSUME NEW v \in CJWorkers
        PROVE  /\ cjWorker'[v].id <= cjMade
               /\ cjWorker'[v].pc \in {"idle", "asleep"} <=> cjWorker'[v].project = ""
               /\ cjWorker'[v].pc \in {"idle", "asleep", "clear"} <=> cjWorker'[v].id = 0
               /\ cjWorker'[v].broker = "open" => cjWorker'[v].pc \in {"agent", "review"}
               /\ cjUp' = "down" => cjWorker'[v].pc = "asleep"
    <3>1. CASE v = w
      <4>1. 0 <= cjMade
        BY CJBounds DEF CJInv, CJKinds
      <4> QED
        BY <1>2, <1>9, <1>11, <1>14, <3>1, <4>1
    <3>2. CASE v # w
      BY <1>11, <1>14, <3>2, CJHoldsOf
    <3> QED
      BY <3>1, <3>2
  <2>2. \A v \in CJWorkers : cjWorker'[v].project = cjWorker[v].project /\ (cjWorker'[v].id = cjWorker[v].id \/ (cjWorker'[v].id = 0 /\ v = w))
    <3>1. \A v \in CJWorkers : v # w => cjWorker'[v].project = cjWorker[v].project /\ cjWorker'[v].id = cjWorker[v].id
      BY <1>14, Zenon
    <3>2. cjWorker'[w].project = cjWorker[w].project /\ cjWorker'[w].id = 0
      BY <1>7, <1>9, <1>14
    <3> SUFFICES ASSUME NEW v \in CJWorkers
                 PROVE  cjWorker'[v].project = cjWorker[v].project /\ (cjWorker'[v].id = cjWorker[v].id \/ (cjWorker'[v].id = 0 /\ v = w))
      OBVIOUS
    <3>3. CASE v = w
      BY <3>2, <3>3
    <3>4. CASE v # w
      BY <3>1, <3>4
    <3> QED
      BY <3>3, <3>4
  <2>3. ASSUME NEW u \in CJWorkers, NEW v \in CJWorkers, u # v
        PROVE  /\ cjWorker'[u].project # "" => cjWorker'[u].project # cjWorker'[v].project
               /\ cjWorker'[u].id # 0 => cjWorker'[u].id # cjWorker'[v].id
    <3>1. /\ cjWorker[u].project # "" => cjWorker[u].project # cjWorker[v].project
          /\ cjWorker[u].id # 0 => cjWorker[u].id # cjWorker[v].id
      BY <2>3, CJHoldsOf
    <3>2. cjWorker'[u].project = cjWorker[u].project /\ cjWorker'[v].project = cjWorker[v].project
      BY <2>2
    <3>3. cjWorker'[u].id # 0 => cjWorker'[u].id = cjWorker[u].id
      BY <2>2
    <3>4. cjWorker'[v].id \in {0, cjWorker[v].id}
      BY <2>2
    <3> QED
      BY <3>1, <3>2, <3>3, <3>4
  <2>4. cjBusy' = {cjWorker'[v].project : v \in CJWorkers} \ {""}
    <3>1. {cjWorker'[v].project : v \in CJWorkers} = {cjWorker[v].project : v \in CJWorkers}
      BY <2>2
    <3> QED
      BY <1>11, <3>1, CJHoldsOf
  <2> QED
    BY <1>11, <2>1, <2>3, <2>4, Zenon DEF CJHolds
<1>19. ASSUME NEW v \in CJWorkers, cjWorker'[v].pc \in CJAtWork \cup {"taken"}
       PROVE  cjWorker'[v] = cjWorker[v] /\ v # w /\ cjWorker[v].id \in CJJobs /\ cjWorker[v].id # j /\ cjRec'[cjWorker[v].id] = cjRec[cjWorker[v].id]
  <2>1. v # w
    BY <1>9, <1>14, <1>19 DEF CJAtWork
  <2>2. cjWorker'[v] = cjWorker[v]
    BY <1>14, <2>1
  <2>3. cjWorker[v].id \in CJJobs /\ cjWorker[v].id # 0
    BY <1>19, <2>2, CJOfWorker DEF CJInv, CJHolds, CJAtWork
  <2> QED
    BY <1>13, <1>16, <2>1, <2>2, <2>3
<1>20. CJRuns'
  <2>1. ASSUME NEW v \in CJWorkers
        PROVE  /\ cjWorker'[v].pc \in CJAtWork => cjRec'[cjWorker'[v].id].state = "RUNNING"
               /\ cjWorker'[v].pc = "taken" => cjRec'[cjWorker'[v].id].state \in {"QUEUED", "STOPPED", "NONE"}
    BY <1>19 DEF CJInv, CJRuns
  <2> QED
    BY <2>1 DEF CJRuns
<1>21. CJComes'
  <2> SUFFICES ASSUME NEW v \in CJWorkers, cjWorker'[v].pc \in CJAtWork  PROVE CJCame(cjWorker'[v], cjRec'[cjWorker'[v].id], cjPatch'[cjWorker'[v].id])
    BY Zenon DEF CJComes, CJCame
  <2>1. cjWorker'[v] = cjWorker[v] /\ cjRec'[cjWorker[v].id] = cjRec[cjWorker[v].id]
    BY <1>19
  <2>2. CJCame(cjWorker[v], cjRec[cjWorker[v].id], cjPatch[cjWorker[v].id])
    BY <2>1 DEF CJInv, CJComes
  <2> QED
    BY <1>4, <2>1, <2>2, Zenon
<1>22. CJBacked'
  <2>1. cjRec[j].state # "HANDED_BACK"
    BY <1>2
  <2>2. cjDisk[j].state # "HANDED_BACK"
    BY <1>2, <2>1 DEF CJInv, CJBacked
  <2>3. ASSUME NEW k \in CJJobs
        PROVE  /\ cjRec'[k].state = "HANDED_BACK" => CJGood(cjRec'[k].req, cjRec'[k].result) /\ cjPatch'[k] = cjRec'[k].result.patch
               /\ cjDisk'[k].state = "HANDED_BACK" => CJGood(cjDisk'[k].req, cjDisk'[k].result) /\ cjPatch'[k] = cjDisk'[k].result.patch
               /\ cjDisk'[k].state = "HANDED_BACK" /\ cjUp' # "down" => cjRec'[k].state = "HANDED_BACK"
    <3>1. CASE k # j
      BY <1>4, <1>11, <1>13, <3>1 DEF CJInv, CJBacked
    <3>2. CASE k = j
      <4>1. rec.state = "HANDED_BACK" => CJGood(rec.req, rec.result) /\ cjPatch[j] = rec.result.patch
        BY <1>6, <1>8
      <4> QED
        BY <1>4, <1>13, <2>2, <3>2, <4>1, Zenon
    <3> QED
      BY <3>1, <3>2
  <2> QED
    BY <2>3 DEF CJBacked
<1> QED
  BY <1>15, <1>17, <1>18, <1>20, <1>21, <1>22 DEF CJInv

\* run, its last section, and work's nudge.
LEMMA CJClearKeeps ==
  ASSUME CJInv, NEW w \in CJWorkers, CJClear(w)
  PROVE  CJInv'
<1> DEFINE project == cjWorker[w].project
<1>1. cjUp # "down" /\ cjWorker[w].pc = "clear" /\ cjBusy' = cjBusy \ {project} /\ cjWorker' = [cjWorker EXCEPT ![w] = CJIdle]
      /\ cjWake' = Cardinality(CJWorkers) /\ UNCHANGED <<cjRec, cjDisk, cjPatch, cjQueue, cjMade, cjUp>>
  BY DEF CJClear, CJNudged
<1>2. cjRec' = cjRec /\ cjDisk' = cjDisk /\ cjPatch' = cjPatch /\ cjQueue' = cjQueue /\ cjMade' = cjMade /\ cjUp' = cjUp
  BY <1>1
<1>3. cjWorker' \in [CJWorkers -> CJWorkerRecs] /\ cjWorker'[w] = CJIdle /\ \A v \in CJWorkers : v # w => cjWorker'[v] = cjWorker[v]
  BY <1>1, CJIdleIs DEF CJInv, CJKinds
<1>4. project = cjWorker[w].project /\ project # "" /\ cjWorker[w].id = 0
  BY <1>1, CJHoldsOf
<1> HIDE DEF project
<1>5. CJKinds'
  <2>1. cjWake' \in 0..Cardinality(CJWorkers)
    BY <1>1, CJBounds
  <2> QED
    BY <1>1, <1>2, <1>3, <2>1 DEF CJInv, CJKinds
<1>6. \A v \in CJWorkers : cjWorker'[v].id = cjWorker[v].id
  <2>1. cjWorker'[w].id = 0
    BY <1>3, CJIdleIs
  <2> QED
    BY <1>3, <1>4, <2>1
<1>7. CJWaiting'
  BY <1>2, <1>6, CJWaitingOf DEF CJWaiting
<1>8. CJHolds'
  <2>1. ASSUME NEW v \in CJWorkers
        PROVE  /\ cjWorker'[v].id <= cjMade
               /\ cjWorker'[v].pc \in {"idle", "asleep"} <=> cjWorker'[v].project = ""
               /\ cjWorker'[v].pc \in {"idle", "asleep", "clear"} <=> cjWorker'[v].id = 0
               /\ cjWorker'[v].broker = "open" => cjWorker'[v].pc \in {"agent", "review"}
               /\ cjUp' = "down" => cjWorker'[v].pc = "asleep"
    <3>1. CASE v = w
      <4>1. 0 <= cjMade
        BY CJBounds DEF CJInv, CJKinds
      <4> QED
        BY <1>1, <1>2, <1>3, <3>1, <4>1, CJIdleIs
    <3>2. CASE v # w
      BY <1>2, <1>3, <3>2, CJHoldsOf
    <3> QED
      BY <3>1, <3>2
  <2>2. cjWorker'[w].project = "" /\ \A v \in CJWorkers : v # w => cjWorker'[v].project = cjWorker[v].project
    BY <1>3, CJIdleIs
  <2>3. ASSUME NEW u \in CJWorkers, NEW v \in CJWorkers, u # v
        PROVE  /\ cjWorker'[u].project # "" => cjWorker'[u].project # cjWorker'[v].project
               /\ cjWorker'[u].id # 0 => cjWorker'[u].id # cjWorker'[v].id
    <3>1. /\ cjWorker[u].project # "" => cjWorker[u].project # cjWorker[v].project
          /\ cjWorker[u].id # 0 => cjWorker[u].id # cjWorker[v].id
      BY <2>3, CJHoldsOf
    <3>2. cjWorker'[u].project \in {"", cjWorker[u].project} /\ cjWorker'[v].project \in {"", cjWorker[v].project}
      BY <2>2
    <3> QED
      BY <1>6, <3>1, <3>2
  <2>4. cjBusy' = {cjWorker'[v].project : v \in CJWorkers} \ {""}
    <3>1. ASSUME NEW p  PROVE p \in {cjWorker'[v].project : v \in CJWorkers} \ {""} <=> p \in ({cjWorker[v].project : v \in CJWorkers} \ {""}) \ {project}
      <4>1. \A v \in CJWorkers : v # w => cjWorker[v].project # project
        BY <1>4, CJHoldsOf
      <4> QED
        BY <1>4, <2>2, <4>1
    <3> QED
      BY <1>1, <3>1, CJHoldsOf
  <2> QED
    BY <1>2, <2>1, <2>3, <2>4, Zenon DEF CJHolds
<1>9. ASSUME NEW v \in CJWorkers, cjWorker'[v].pc \in CJAtWork \cup {"taken"}
      PROVE  cjWorker'[v] = cjWorker[v]
  BY <1>3, <1>9, CJIdleIs DEF CJAtWork
<1>10. CJRuns'
  <2>1. ASSUME NEW v \in CJWorkers
        PROVE  /\ cjWorker'[v].pc \in CJAtWork => cjRec'[cjWorker'[v].id].state = "RUNNING"
               /\ cjWorker'[v].pc = "taken" => cjRec'[cjWorker'[v].id].state \in {"QUEUED", "STOPPED", "NONE"}
    BY <1>2, <1>9 DEF CJInv, CJRuns
  <2> QED
    BY <2>1 DEF CJRuns
<1>11. CJComes'
  <2> SUFFICES ASSUME NEW v \in CJWorkers, cjWorker'[v].pc \in CJAtWork  PROVE CJCame(cjWorker'[v], cjRec'[cjWorker'[v].id], cjPatch'[cjWorker'[v].id])
    BY Zenon DEF CJComes, CJCame
  <2>1. cjWorker'[v] = cjWorker[v]
    BY <1>9
  <2>2. CJCame(cjWorker[v], cjRec[cjWorker[v].id], cjPatch[cjWorker[v].id])
    BY <2>1 DEF CJInv, CJComes
  <2> QED
    BY <1>2, <2>1, <2>2, Zenon
<1>12. CJBacked'
  BY <1>2 DEF CJInv, CJBacked
<1> QED
  BY <1>5, <1>7, <1>8, <1>10, <1>11, <1>12 DEF CJInv

\* A worker that finds no free project sleeps; nothing else changes but the
\* tokens.
LEMMA CJSleepKeeps ==
  ASSUME CJInv, NEW w \in CJWorkers, cjUp = "up", cjWorker[w].pc \in {"idle", "asleep"}, cjWorker' = [cjWorker EXCEPT ![w].pc = "asleep"],
         cjWake' \in 0..Cardinality(CJWorkers), UNCHANGED <<cjRec, cjDisk, cjPatch, cjQueue, cjMade, cjBusy, cjUp>>
  PROVE  CJInv'
<1>1. cjRec' = cjRec /\ cjDisk' = cjDisk /\ cjPatch' = cjPatch /\ cjQueue' = cjQueue /\ cjMade' = cjMade /\ cjBusy' = cjBusy /\ cjUp' = cjUp
  OBVIOUS
<1>2. /\ cjWorker' \in [CJWorkers -> CJWorkerRecs] /\ cjWorker'[w].pc = "asleep" /\ \A v \in CJWorkers : v # w => cjWorker'[v] = cjWorker[v]
      /\ cjWorker'[w].id = cjWorker[w].id /\ cjWorker'[w].project = cjWorker[w].project /\ cjWorker'[w].broker = cjWorker[w].broker
  <2>1. cjWorker[w] \in CJWorkerRecs
    BY CJOfWorker
  <2>2. [cjWorker[w] EXCEPT !.pc = "asleep"] \in CJWorkerRecs
    BY <2>1 DEF CJWorkerRecs
  <2> QED
    BY <2>1, <2>2 DEF CJInv, CJKinds, CJWorkerRecs
<1>3. \A v \in CJWorkers : cjWorker'[v].id = cjWorker[v].id /\ cjWorker'[v].project = cjWorker[v].project
  BY <1>2
<1>4. CJKinds'
  BY <1>1, <1>2 DEF CJInv, CJKinds
<1>5. CJWaiting'
  BY <1>1, <1>3, CJWaitingOf DEF CJWaiting
<1>6. CJHolds'
  <2>1. ASSUME NEW v \in CJWorkers
        PROVE  /\ cjWorker'[v].id <= cjMade
               /\ cjWorker'[v].pc \in {"idle", "asleep"} <=> cjWorker'[v].project = ""
               /\ cjWorker'[v].pc \in {"idle", "asleep", "clear"} <=> cjWorker'[v].id = 0
               /\ cjWorker'[v].broker = "open" => cjWorker'[v].pc \in {"agent", "review"}
               /\ cjUp' = "down" => cjWorker'[v].pc = "asleep"
    <3>1. CASE v = w
      BY <1>1, <1>2, <3>1, CJHoldsOf
    <3>2. CASE v # w
      BY <1>1, <1>2, <3>2, CJHoldsOf
    <3> QED
      BY <3>1, <3>2
  <2>2. ASSUME NEW u \in CJWorkers, NEW v \in CJWorkers, u # v
        PROVE  /\ cjWorker'[u].project # "" => cjWorker'[u].project # cjWorker'[v].project
               /\ cjWorker'[u].id # 0 => cjWorker'[u].id # cjWorker'[v].id
    <3>1. /\ cjWorker[u].project # "" => cjWorker[u].project # cjWorker[v].project
          /\ cjWorker[u].id # 0 => cjWorker[u].id # cjWorker[v].id
      BY <2>2, CJHoldsOf
    <3> QED
      BY <1>3, <3>1
  <2>3. cjBusy' = {cjWorker'[v].project : v \in CJWorkers} \ {""}
    <3>1. {cjWorker'[v].project : v \in CJWorkers} = {cjWorker[v].project : v \in CJWorkers}
      BY <1>3
    <3> QED
      BY <1>1, <3>1, CJHoldsOf
  <2> QED
    BY <1>1, <2>1, <2>2, <2>3, Zenon DEF CJHolds
<1>7. ASSUME NEW v \in CJWorkers, cjWorker'[v].pc \in CJAtWork \cup {"taken"}
      PROVE  cjWorker'[v] = cjWorker[v]
  BY <1>2, <1>7 DEF CJAtWork
<1>8. CJRuns'
  <2>1. ASSUME NEW v \in CJWorkers
        PROVE  /\ cjWorker'[v].pc \in CJAtWork => cjRec'[cjWorker'[v].id].state = "RUNNING"
               /\ cjWorker'[v].pc = "taken" => cjRec'[cjWorker'[v].id].state \in {"QUEUED", "STOPPED", "NONE"}
    BY <1>1, <1>7 DEF CJInv, CJRuns
  <2> QED
    BY <2>1 DEF CJRuns
<1>9. CJComes'
  <2> SUFFICES ASSUME NEW v \in CJWorkers, cjWorker'[v].pc \in CJAtWork  PROVE CJCame(cjWorker'[v], cjRec'[cjWorker'[v].id], cjPatch'[cjWorker'[v].id])
    BY Zenon DEF CJComes, CJCame
  <2>1. cjWorker'[v] = cjWorker[v]
    BY <1>7
  <2>2. CJCame(cjWorker[v], cjRec[cjWorker[v].id], cjPatch[cjWorker[v].id])
    BY <2>1 DEF CJInv, CJComes
  <2> QED
    BY <1>1, <2>1, <2>2, Zenon
<1>10. CJBacked'
  BY <1>1 DEF CJInv, CJBacked
<1> QED
  BY <1>4, <1>5, <1>6, <1>8, <1>9, <1>10 DEF CJInv

\* next gives worker w the i-th job of the queue, of a project that is free.
LEMMA CJTakenKeeps ==
  ASSUME CJInv, NEW w \in CJWorkers, cjUp = "up", cjWorker[w].pc \in {"idle", "asleep"}, NEW i \in 1..Len(cjQueue), NEW project,
         project = CJProject(cjRec[cjQueue[i]].req), project \notin cjBusy, cjQueue' = RemoveAt(cjQueue, i), cjBusy' = cjBusy \cup {project},
         cjWorker' = [cjWorker EXCEPT ![w] = [CJIdle EXCEPT !.pc = "taken", !.id = cjQueue[i], !.project = project]],
         cjWake' \in 0..Cardinality(CJWorkers), UNCHANGED <<cjRec, cjDisk, cjPatch, cjMade, cjUp>>
  PROVE  CJInv'
<1> DEFINE j == cjQueue[i]
           mine == [CJIdle EXCEPT !.pc = "taken", !.id = j, !.project = project]
<1>1. cjRec' = cjRec /\ cjDisk' = cjDisk /\ cjPatch' = cjPatch /\ cjMade' = cjMade /\ cjUp' = cjUp
  OBVIOUS
<1>2. j \in CJJobs /\ j # 0 /\ j <= cjMade /\ cjRec[j].state = "QUEUED" /\ \A v \in CJWorkers : cjWorker[v].id # j
  BY CJWaitingOf
<1>3. project \in CJProjects /\ project # ""
  <2>1. cjRec[j] \in CJRecords
    <3>1. cjRec[j] \in CJRecords \cup {CJNone}
      BY <1>2 DEF CJInv, CJKinds
    <3> QED
      BY <1>2, <3>1 DEF CJNone
  <2>2. cjRec[j].req \in CJRequests
    BY <2>1, CJRecordFields
  <2> QED
    BY <2>2, CJAssumption DEF CJProjects
<1>4. cjQueue' \in Seq(CJJobs) /\ (\A k \in 1..Len(cjQueue') : cjQueue'[k] # j /\ \E n \in 1..Len(cjQueue) : cjQueue'[k] = cjQueue[n])
      /\ \A m, n \in 1..Len(cjQueue') : m # n => cjQueue'[m] # cjQueue'[n]
  <2>1. cjQueue \in Seq(CJJobs) /\ \A m, n \in 1..Len(cjQueue) : m # n => cjQueue[m] # cjQueue[n]
    BY CJWaitingOf DEF CJInv, CJKinds
  <2> QED
    BY <2>1, RemoveAtLeaves, SMTT(40)
<1>5. cjWorker' = [cjWorker EXCEPT ![w] = mine]
  OBVIOUS
<1> HIDE DEF j
<1>6. mine \in CJWorkerRecs /\ mine.pc = "taken" /\ mine.id = j /\ mine.project = project /\ mine.broker = "closed"
  <2>1. j \in 0..CJMaxJobs
    BY <1>2, CJBounds DEF CJJobs
  <2> QED
    BY <1>3, <2>1, CJIdleIs DEF CJWorkerRecs
<1> HIDE DEF mine
<1>7. cjWorker' \in [CJWorkers -> CJWorkerRecs] /\ cjWorker'[w] = mine /\ \A v \in CJWorkers : v # w => cjWorker'[v] = cjWorker[v]
  BY <1>5, <1>6 DEF CJInv, CJKinds
<1>8. cjWorker[w].project = "" /\ cjWorker[w].id = 0
  BY CJHoldsOf
<1>9. CJKinds'
  <2>1. cjBusy' \subseteq CJProjects
    BY <1>3 DEF CJInv, CJKinds
  <2> QED
    BY <1>1, <1>4, <1>7, <2>1 DEF CJInv, CJKinds
<1>10. CJWaiting'
  <2>1. ASSUME NEW k \in 1..Len(cjQueue')
        PROVE  /\ cjQueue'[k] <= cjMade /\ cjRec[cjQueue'[k]].state = "QUEUED"
               /\ \A v \in CJWorkers : cjWorker'[v].id # cjQueue'[k]
    <3>1. PICK n \in 1..Len(cjQueue) : cjQueue'[k] = cjQueue[n]
      BY <1>4
    <3>2. cjQueue[n] <= cjMade /\ cjRec[cjQueue[n]].state = "QUEUED" /\ \A v \in CJWorkers : cjWorker[v].id # cjQueue[n]
      BY CJWaitingOf
    <3>3. cjQueue[n] # j
      BY <1>4, <3>1
    <3>4. \A v \in CJWorkers : cjWorker'[v].id # cjQueue[n]
      BY <1>6, <1>7, <3>2, <3>3
    <3> QED
      BY <3>1, <3>2, <3>4
  <2>2. cjUp' # "down"
    BY <1>1
  <2> QED
    BY <1>1, <1>4, <2>1, <2>2 DEF CJWaiting
<1>11. CJHolds'
  <2>1. ASSUME NEW v \in CJWorkers
        PROVE  /\ cjWorker'[v].id <= cjMade
               /\ cjWorker'[v].pc \in {"idle", "asleep"} <=> cjWorker'[v].project = ""
               /\ cjWorker'[v].pc \in {"idle", "asleep", "clear"} <=> cjWorker'[v].id = 0
               /\ cjWorker'[v].broker = "open" => cjWorker'[v].pc \in {"agent", "review"}
               /\ cjUp' = "down" => cjWorker'[v].pc = "asleep"
    <3>1. CASE v = w
      BY <1>1, <1>2, <1>3, <1>6, <1>7, <3>1
    <3>2. CASE v # w
      BY <1>1, <1>7, <3>2, CJHoldsOf
    <3> QED
      BY <3>1, <3>2
  <2>2. \A v \in CJWorkers : cjWorker[v].project # project
    BY <1>3, CJHoldsOf
  <2>3. ASSUME NEW u \in CJWorkers, NEW v \in CJWorkers, u # v
        PROVE  /\ cjWorker'[u].project # "" => cjWorker'[u].project # cjWorker'[v].project
               /\ cjWorker'[u].id # 0 => cjWorker'[u].id # cjWorker'[v].id
    <3>1. CASE u = w
      <4>1. cjWorker'[u] = mine /\ cjWorker'[v] = cjWorker[v]
        BY <1>7, <2>3, <3>1
      <4> QED
        BY <1>2, <1>6, <2>2, <4>1
    <3>2. CASE v = w
      <4>1. cjWorker'[v] = mine /\ cjWorker'[u] = cjWorker[u]
        BY <1>7, <2>3, <3>2
      <4> QED
        BY <1>2, <1>6, <2>2, <4>1
    <3>3. CASE u # w /\ v # w
      <4>1. /\ cjWorker[u].project # "" => cjWorker[u].project # cjWorker[v].project
            /\ cjWorker[u].id # 0 => cjWorker[u].id # cjWorker[v].id
        BY <2>3, CJHoldsOf
      <4> QED
        BY <1>7, <3>3, <4>1
    <3> QED
      BY <3>1, <3>2, <3>3
  <2>4. cjBusy' = {cjWorker'[v].project : v \in CJWorkers} \ {""}
    <3>1. cjWorker'[w].project = project /\ \A v \in CJWorkers : v # w => cjWorker'[v].project = cjWorker[v].project
      BY <1>6, <1>7
    <3>2. ASSUME NEW p  PROVE p \in {cjWorker'[v].project : v \in CJWorkers} \ {""} <=> p \in ({cjWorker[v].project : v \in CJWorkers} \ {""}) \cup {project}
      BY <1>3, <1>8, <3>1
    <3> QED
      BY <3>2, CJHoldsOf
  <2> QED
    BY <1>1, <2>1, <2>3, <2>4, Zenon DEF CJHolds
<1>12. ASSUME NEW v \in CJWorkers, v # w  PROVE cjWorker'[v] = cjWorker[v]
  BY <1>7, <1>12
<1>13. CJRuns'
  <2>1. ASSUME NEW v \in CJWorkers
        PROVE  /\ cjWorker'[v].pc \in CJAtWork => cjRec'[cjWorker'[v].id].state = "RUNNING"
               /\ cjWorker'[v].pc = "taken" => cjRec'[cjWorker'[v].id].state \in {"QUEUED", "STOPPED", "NONE"}
    <3>1. CASE v = w
      BY <1>1, <1>2, <1>6, <1>7, <3>1 DEF CJAtWork
    <3>2. CASE v # w
      BY <1>1, <1>12, <3>2 DEF CJInv, CJRuns
    <3> QED
      BY <3>1, <3>2
  <2> QED
    BY <2>1 DEF CJRuns
<1>14. CJComes'
  <2> SUFFICES ASSUME NEW v \in CJWorkers, cjWorker'[v].pc \in CJAtWork  PROVE CJCame(cjWorker'[v], cjRec'[cjWorker'[v].id], cjPatch'[cjWorker'[v].id])
    BY Zenon DEF CJComes, CJCame
  <2>1. v # w
    BY <1>6, <1>7 DEF CJAtWork
  <2>2. cjWorker'[v] = cjWorker[v]
    BY <1>12, <2>1
  <2>3. CJCame(cjWorker[v], cjRec[cjWorker[v].id], cjPatch[cjWorker[v].id])
    BY <2>2 DEF CJInv, CJComes
  <2> QED
    BY <1>1, <2>2, <2>3, Zenon
<1>15. CJBacked'
  BY <1>1 DEF CJInv, CJBacked
<1> QED
  BY <1>9, <1>10, <1>11, <1>13, <1>14, <1>15 DEF CJInv

\* next.
LEMMA CJTakeOrKeeps ==
  ASSUME CJInv, NEW w \in CJWorkers, cjUp = "up", cjWorker[w].pc \in {"idle", "asleep"}, CJTakeOr(w, "asleep"),
         cjWake' \in 0..Cardinality(CJWorkers), UNCHANGED <<cjRec, cjDisk, cjPatch, cjMade, cjUp>>
  PROVE  CJInv'
<1>1. ASSUME NEW i \in DOMAIN cjQueue, CJFree(cjQueue[i]), cjQueue' = RemoveAt(cjQueue, i), cjBusy' = cjBusy \cup {CJProject(cjRec[cjQueue[i]].req)},
             cjWorker' = [cjWorker EXCEPT ![w] = [CJIdle EXCEPT !.pc = "taken", !.id = cjQueue[i], !.project = CJProject(cjRec[cjQueue[i]].req)]]
      PROVE  CJInv'
  <2>1. i \in 1..Len(cjQueue)
    BY DEF CJInv, CJKinds
  <2>2. CJProject(cjRec[cjQueue[i]].req) \notin cjBusy
    BY <1>1 DEF CJFree
  <2> QED
    BY <1>1, <2>1, <2>2, CJTakenKeeps
<1>2. ASSUME cjWorker' = [cjWorker EXCEPT ![w].pc = "asleep"], UNCHANGED <<cjQueue, cjBusy>>
      PROVE  CJInv'
  BY <1>2, CJSleepKeeps
<1> QED
  BY <1>1, <1>2 DEF CJTakeOr

\* A worker comes round its loop.
LEMMA CJTakeKeeps ==
  ASSUME CJInv, NEW w \in CJWorkers, CJTake(w)
  PROVE  CJInv'
<1>1. cjUp = "up" /\ cjWorker[w].pc = "idle" /\ CJTakeOr(w, "asleep") /\ UNCHANGED <<cjRec, cjDisk, cjPatch, cjMade, cjWake, cjUp>>
  BY DEF CJTake
<1>2. cjWake' \in 0..Cardinality(CJWorkers)
  BY <1>1 DEF CJInv, CJKinds
<1> QED
  BY <1>1, <1>2, CJTakeOrKeeps

\* A worker is woken.
LEMMA CJAwakeKeeps ==
  ASSUME CJInv, NEW w \in CJWorkers, CJAwake(w)
  PROVE  CJInv'
<1>1. cjUp = "up" /\ cjWorker[w].pc = "asleep" /\ CJTakeOr(w, "asleep") /\ UNCHANGED <<cjRec, cjDisk, cjPatch, cjMade, cjUp>>
  BY DEF CJAwake
<1>2. cjWake' \in 0..Cardinality(CJWorkers)
  <2>1. cjWake' = cjWake - 1 /\ cjWake > 0
    BY DEF CJAwake
  <2>2. cjWake \in 0..Cardinality(CJWorkers) /\ Cardinality(CJWorkers) \in Nat
    BY CJBounds DEF CJInv, CJKinds
  <2> QED
    BY <2>1, <2>2
<1> QED
  BY <1>1, <1>2, CJTakeOrKeeps

\* Only ended jobs are pruned.
LEMMA CJPrunedEnded ==
  ASSUME NEW recs
  PROVE  \A j \in CJPruned(recs) : j \in CJJobs /\ recs[j].state \in CJEnded
BY DEF CJPruned

\* The patches of the jobs that stay after pruning stay.
LEMMA CJDropsPatches ==
  ASSUME CJInv, NEW gone
  PROVE  CJDropPatches(gone) \in [CJJobs -> CJWork] /\ \A j \in CJJobs : j \notin gone => CJDropPatches(gone)[j] = cjPatch[j]
<1>1. cjPatch \in [CJJobs -> CJWork] /\ "none" \in CJWork
  BY DEF CJInv, CJKinds, CJWork
<1> QED
  BY <1>1 DEF CJDropPatches

\* A request is queued, saved, and the oldest ended jobs are pruned.
LEMMA CJQueuedKeeps ==
  ASSUME CJInv, NEW r \in CJRequests, cjUp # "down", cjMade < CJMaxJobs, NEW j, j = cjMade + 1,
         NEW rec, rec = [state |-> "QUEUED", req |-> r, result |-> CJNoResult], NEW gone, gone = CJPruned([cjRec EXCEPT ![j] = rec]),
         cjMade' = j, cjRec' = CJDrop([cjRec EXCEPT ![j] = rec], gone), cjDisk' = CJDrop([cjDisk EXCEPT ![j] = rec], gone),
         cjPatch' = CJDropPatches(gone), cjQueue' = Append(cjQueue, j), cjWake' = CJNudged, UNCHANGED <<cjBusy, cjWorker, cjUp>>
  PROVE  CJInv'
<1>1. cjBusy' = cjBusy /\ cjWorker' = cjWorker /\ cjUp' = cjUp
  OBVIOUS
<1>2. j \in CJJobs /\ j \in 0..CJMaxJobs /\ cjMade <= j /\ (\A n \in 0..CJMaxJobs : n <= cjMade => n <= j /\ n # j)
  BY CJBounds DEF CJInv, CJKinds, CJJobs
<1>3. rec \in CJRecords /\ rec.state = "QUEUED"
  <2>1. CJNoResult \in CJResults
    <3>1. CJNoCheck \in CJSeen /\ "none" \in CJWork
      BY DEF CJSeen, CJWork
    <3> HIDE DEF CJNoCheck
    <3> QED
      BY <3>1 DEF CJNoResult, CJResults
  <2> HIDE DEF CJNoResult
  <2> QED
    BY <2>1 DEF CJRecords, CJActive
<1> DEFINE recs == [cjRec EXCEPT ![j] = rec]
           disk == [cjDisk EXCEPT ![j] = rec]
<1>4. recs \in [CJJobs -> CJRecords \cup {CJNone}] /\ disk \in [CJJobs -> CJRecords \cup {CJNone}] /\ recs[j] = rec /\ disk[j] = rec
      /\ \A k \in CJJobs : k # j => recs[k] = cjRec[k] /\ disk[k] = cjDisk[k]
  BY <1>2, <1>3 DEF CJInv, CJKinds
<1>5. gone = CJPruned(recs) /\ cjRec' = CJDrop(recs, gone) /\ cjDisk' = CJDrop(disk, gone) /\ cjPatch' = CJDropPatches(gone)
  OBVIOUS
<1> HIDE DEF recs, disk
<1>6. \A k \in gone : k \in CJJobs /\ recs[k].state \in CJEnded
  BY <1>5, CJPrunedEnded
<1>7. /\ cjRec' \in [CJJobs -> CJRecords \cup {CJNone}] /\ cjDisk' \in [CJJobs -> CJRecords \cup {CJNone}] /\ cjPatch' \in [CJJobs -> CJWork]
      /\ \A k \in CJJobs : IF k \in gone THEN cjRec'[k].state = "NONE" /\ cjDisk'[k].state = "NONE"
                           ELSE cjRec'[k] = recs[k] /\ cjDisk'[k] = disk[k] /\ cjPatch'[k] = cjPatch[k]
  <2>1. cjRec' \in [CJJobs -> CJRecords \cup {CJNone}]
        /\ \A k \in CJJobs : (k \in gone => cjRec'[k].state = "NONE") /\ (k \notin gone => cjRec'[k] = recs[k])
    <3>1. cjRec' = [k \in CJJobs |-> IF k \in gone THEN CJNone ELSE recs[k]]
      BY <1>5, Zenon DEF CJDrop
    <3>2. \A k \in CJJobs : cjRec'[k] = IF k \in gone THEN CJNone ELSE recs[k]
      BY <3>1, Zenon
    <3>3. \A k \in CJJobs : (IF k \in gone THEN CJNone ELSE recs[k]) \in CJRecords \cup {CJNone}
      BY <1>4
    <3>4. cjRec' \in [CJJobs -> CJRecords \cup {CJNone}]
      BY <3>1, <3>3, Zenon
    <3>5. CJNone.state = "NONE"
      BY DEF CJNone
    <3>6. ASSUME NEW k \in CJJobs  PROVE (k \in gone => cjRec'[k].state = "NONE") /\ (k \notin gone => cjRec'[k] = recs[k])
      <4>1. cjRec'[k] = IF k \in gone THEN CJNone ELSE recs[k]
        BY <3>2, Zenon
      <4>2. CASE k \in gone
        BY <3>5, <4>1, <4>2, Zenon
      <4>3. CASE k \notin gone
        BY <4>1, <4>3, Zenon
      <4> QED
        BY <4>2, <4>3, Zenon
    <3> QED
      BY <3>4, <3>6, Zenon
  <2>2. cjDisk' \in [CJJobs -> CJRecords \cup {CJNone}]
        /\ \A k \in CJJobs : (k \in gone => cjDisk'[k].state = "NONE") /\ (k \notin gone => cjDisk'[k] = disk[k])
    <3>1. cjDisk' = [k \in CJJobs |-> IF k \in gone THEN CJNone ELSE disk[k]]
      BY <1>5, Zenon DEF CJDrop
    <3>2. \A k \in CJJobs : cjDisk'[k] = IF k \in gone THEN CJNone ELSE disk[k]
      BY <3>1, Zenon
    <3>3. \A k \in CJJobs : (IF k \in gone THEN CJNone ELSE disk[k]) \in CJRecords \cup {CJNone}
      BY <1>4
    <3>4. cjDisk' \in [CJJobs -> CJRecords \cup {CJNone}]
      BY <3>1, <3>3, Zenon
    <3>5. CJNone.state = "NONE"
      BY DEF CJNone
    <3>6. ASSUME NEW k \in CJJobs  PROVE (k \in gone => cjDisk'[k].state = "NONE") /\ (k \notin gone => cjDisk'[k] = disk[k])
      <4>1. cjDisk'[k] = IF k \in gone THEN CJNone ELSE disk[k]
        BY <3>2, Zenon
      <4>2. CASE k \in gone
        BY <3>5, <4>1, <4>2, Zenon
      <4>3. CASE k \notin gone
        BY <4>1, <4>3, Zenon
      <4> QED
        BY <4>2, <4>3, Zenon
    <3> QED
      BY <3>4, <3>6, Zenon
  <2>3. cjPatch' \in [CJJobs -> CJWork] /\ \A k \in CJJobs : k \notin gone => cjPatch'[k] = cjPatch[k]
    BY <1>5, CJDropsPatches
  <2> QED
    BY <2>1, <2>2, <2>3
<1>8. j \notin gone /\ cjRec'[j] = rec /\ cjDisk'[j] = rec
  <2>1. j \notin gone
    BY <1>3, <1>4, <1>6 DEF CJEnded
  <2> QED
    BY <1>2, <1>4, <1>7, <2>1
<1>9. ASSUME NEW k \in CJJobs, k # j
      PROVE  \/ cjRec'[k] = cjRec[k] /\ cjDisk'[k] = cjDisk[k] /\ cjPatch'[k] = cjPatch[k]
             \/ cjRec'[k].state = "NONE" /\ cjDisk'[k].state = "NONE" /\ cjRec[k].state \in CJEnded
  BY <1>4, <1>6, <1>7, <1>9
<1>10. CJKinds'
  <2>1. cjQueue' \in Seq(CJJobs) /\ cjWake' \in 0..Cardinality(CJWorkers)
    BY <1>2, CJBounds DEF CJInv, CJKinds, CJNudged
  <2> QED
    BY <1>1, <1>2, <1>7, <2>1 DEF CJInv, CJKinds
<1>11. \A v \in CJWorkers : cjWorker[v].id # j /\ cjWorker[v].id <= j
  <2> SUFFICES ASSUME NEW v \in CJWorkers  PROVE cjWorker[v].id # j /\ cjWorker[v].id <= j
    OBVIOUS
  <2>1. cjWorker[v].id \in 0..CJMaxJobs /\ cjWorker[v].id <= cjMade
    BY CJOfWorker, CJWorkerFields, CJHoldsOf
  <2> QED
    BY <1>2, <2>1
<1>12. CJWaiting'
  <2>1. cjQueue \in Seq(CJJobs) /\ Len(cjQueue') = Len(cjQueue) + 1 /\ Len(cjQueue) \in Nat
        /\ \A k \in 1..Len(cjQueue) + 1 : cjQueue'[k] = IF k = Len(cjQueue) + 1 THEN j ELSE cjQueue[k]
    BY <1>2 DEF CJInv, CJKinds
  <2>2. \A k \in 1..Len(cjQueue') : k \in 1..Len(cjQueue) \/ k = Len(cjQueue) + 1
    BY <2>1
  <2>3. \A k \in 1..Len(cjQueue) : cjQueue[k] \in CJJobs /\ cjQueue[k] <= j /\ cjQueue[k] # j
    <3> SUFFICES ASSUME NEW k \in 1..Len(cjQueue)  PROVE cjQueue[k] \in CJJobs /\ cjQueue[k] <= j /\ cjQueue[k] # j
      OBVIOUS
    <3>1. cjQueue[k] \in CJJobs /\ cjQueue[k] <= cjMade
      BY CJWaitingOf
    <3>2. cjQueue[k] \in 0..CJMaxJobs
      BY <3>1, CJBounds DEF CJJobs
    <3> QED
      BY <1>2, <3>1, <3>2
  <2>4. \A k \in 1..Len(cjQueue) : cjQueue'[k] = cjQueue[k]
    BY <2>1
  <2>5. cjQueue'[Len(cjQueue) + 1] = j
    BY <2>1
  <2>6. ASSUME NEW k \in 1..Len(cjQueue')
        PROVE  /\ cjQueue'[k] <= cjMade' /\ cjRec'[cjQueue'[k]].state = "QUEUED"
               /\ \A v \in CJWorkers : cjWorker'[v].id # cjQueue'[k]
    <3>1. CASE k \in 1..Len(cjQueue)
      <4>1. cjQueue'[k] = cjQueue[k] /\ cjQueue[k] \in CJJobs /\ cjQueue[k] <= j /\ cjQueue[k] # j
        BY <2>3, <2>4, <3>1, Zenon
      <4>2. cjRec[cjQueue[k]].state = "QUEUED" /\ \A v \in CJWorkers : cjWorker[v].id # cjQueue[k]
        BY <3>1, CJWaitingOf
      <4>3. cjRec'[cjQueue[k]].state = "QUEUED"
        BY <1>9, <4>1, <4>2 DEF CJEnded
      <4> QED
        BY <1>1, <4>1, <4>2, <4>3
    <3>2. CASE k = Len(cjQueue) + 1
      <4>1. cjQueue'[k] = j
        BY <2>5, <3>2, Zenon
      <4>2. j <= j
        BY <1>2
      <4> QED
        BY <1>1, <1>3, <1>8, <1>11, <4>1, <4>2
    <3> QED
      BY <2>2, <3>1, <3>2
  <2>7. ASSUME NEW k \in 1..Len(cjQueue'), NEW m \in 1..Len(cjQueue'), k # m
        PROVE  cjQueue'[k] # cjQueue'[m]
    <3>1. CASE k \in 1..Len(cjQueue) /\ m \in 1..Len(cjQueue)
      BY <2>4, <2>7, <3>1, CJWaitingOf
    <3>2. CASE k \in 1..Len(cjQueue) /\ m = Len(cjQueue) + 1
      BY <2>3, <2>4, <2>5, <3>2
    <3>3. CASE m \in 1..Len(cjQueue) /\ k = Len(cjQueue) + 1
      BY <2>3, <2>4, <2>5, <3>3
    <3> QED
      BY <2>2, <2>7, <3>1, <3>2, <3>3
  <2>8. cjUp' # "down"
    BY <1>1
  <2> QED
    BY <2>6, <2>7, <2>8, Zenon DEF CJWaiting
<1>13. CJHolds'
  <2>1. \A v \in CJWorkers : cjWorker'[v].id <= cjMade'
    BY <1>1, <1>11
  <2> QED
    BY <1>1, <2>1, CJHoldsOf, Zenon DEF CJHolds
<1>14. ASSUME NEW v \in CJWorkers, cjWorker[v].pc \in CJAtWork \cup {"taken"}
       PROVE  LET k == cjWorker[v].id IN k \in CJJobs /\ k # j
  BY <1>11, <1>14, CJOfWorker
<1>15. CJRuns'
  <2>1. ASSUME NEW v \in CJWorkers
        PROVE  /\ cjWorker'[v].pc \in CJAtWork => cjRec'[cjWorker'[v].id].state = "RUNNING"
               /\ cjWorker'[v].pc = "taken" => cjRec'[cjWorker'[v].id].state \in {"QUEUED", "STOPPED", "NONE"}
    <3>1. cjWorker'[v] = cjWorker[v]
      BY <1>1
    <3>2. /\ cjWorker[v].pc \in CJAtWork => cjRec[cjWorker[v].id].state = "RUNNING"
          /\ cjWorker[v].pc = "taken" => cjRec[cjWorker[v].id].state \in {"QUEUED", "STOPPED", "NONE"}
      BY DEF CJInv, CJRuns
    <3> QED
      BY <1>9, <1>14, <3>1, <3>2 DEF CJEnded
  <2> QED
    BY <2>1 DEF CJRuns
<1>16. CJComes'
  <2> SUFFICES ASSUME NEW v \in CJWorkers, cjWorker'[v].pc \in CJAtWork  PROVE CJCame(cjWorker'[v], cjRec'[cjWorker'[v].id], cjPatch'[cjWorker'[v].id])
    BY Zenon DEF CJComes, CJCame
  <2>1. cjWorker'[v] = cjWorker[v] /\ cjWorker[v].pc \in CJAtWork
    BY <1>1
  <2>2. CJCame(cjWorker[v], cjRec[cjWorker[v].id], cjPatch[cjWorker[v].id]) /\ cjRec[cjWorker[v].id].state = "RUNNING"
    BY <2>1 DEF CJInv, CJComes, CJRuns
  <2>3. cjRec'[cjWorker[v].id] = cjRec[cjWorker[v].id] /\ cjPatch'[cjWorker[v].id] = cjPatch[cjWorker[v].id]
    BY <1>9, <1>14, <2>1, <2>2 DEF CJEnded
  <2> QED
    BY <2>1, <2>2, <2>3, Zenon
<1>17. CJBacked'
  <2>1. ASSUME NEW k \in CJJobs
        PROVE  /\ cjRec'[k].state = "HANDED_BACK" => CJGood(cjRec'[k].req, cjRec'[k].result) /\ cjPatch'[k] = cjRec'[k].result.patch
               /\ cjDisk'[k].state = "HANDED_BACK" => CJGood(cjDisk'[k].req, cjDisk'[k].result) /\ cjPatch'[k] = cjDisk'[k].result.patch
               /\ cjDisk'[k].state = "HANDED_BACK" /\ cjUp' # "down" => cjRec'[k].state = "HANDED_BACK"
    <3>1. CASE k = j
      BY <1>3, <1>8, <3>1
    <3>2. CASE k # j
      <4>1. CASE cjRec'[k] = cjRec[k] /\ cjDisk'[k] = cjDisk[k] /\ cjPatch'[k] = cjPatch[k]
        BY <1>1, <4>1 DEF CJInv, CJBacked
      <4>2. CASE cjRec'[k].state = "NONE" /\ cjDisk'[k].state = "NONE"
        BY <4>2
      <4> QED
        BY <1>9, <3>2, <4>1, <4>2
    <3> QED
      BY <3>1, <3>2
  <2> QED
    BY <2>1, Zenon DEF CJBacked
<1> QED
  BY <1>10, <1>12, <1>13, <1>15, <1>16, <1>17 DEF CJInv

\* A step that leaves all of this alone.
LEMMA CJSameKeeps ==
  ASSUME CJInv, cjDisk' = cjDisk, UNCHANGED <<cjMade, cjRec, cjPatch, cjQueue, cjWake>>, UNCHANGED <<cjBusy, cjWorker, cjUp>>
  PROVE  CJInv'
<1>1. cjRec' = cjRec /\ cjDisk' = cjDisk /\ cjPatch' = cjPatch /\ cjQueue' = cjQueue /\ cjMade' = cjMade /\ cjBusy' = cjBusy /\ cjWake' = cjWake
      /\ cjUp' = cjUp /\ cjWorker' = cjWorker
  OBVIOUS
<1>2. CJKinds'
  BY <1>1 DEF CJInv, CJKinds
<1>3. CJWaiting'
  BY <1>1, CJWaitingOf DEF CJWaiting
<1>4. CJHolds'
  BY <1>1, CJHoldsOf, Zenon DEF CJHolds
<1>5. CJRuns' /\ CJBacked'
  BY <1>1 DEF CJInv, CJRuns, CJBacked
<1>6. CJComes'
  BY <1>1, Zenon DEF CJInv, CJComes, CJCame
<1> QED
  BY <1>2, <1>3, <1>4, <1>5, <1>6 DEF CJInv

\* StartChangeJob: the save may fail, and then nothing is queued.
LEMMA CJStartKeeps ==
  ASSUME CJInv, NEW r \in CJRequests, CJStart(r)
  PROVE  CJInv'
<1> DEFINE j == cjMade + 1
           rec == [state |-> "QUEUED", req |-> r, result |-> CJNoResult]
           recs == [cjRec EXCEPT ![j] = rec]
           gone == CJPruned(recs)
<1>1. cjUp # "down" /\ cjMade < CJMaxJobs /\ UNCHANGED <<cjBusy, cjWorker, cjUp>>
  BY DEF CJStart
<1>2. \/ /\ cjMade' = j /\ cjRec' = CJDrop(recs, gone) /\ cjDisk' = CJDrop([cjDisk EXCEPT ![j] = rec], gone)
         /\ cjPatch' = CJDropPatches(gone) /\ cjQueue' = Append(cjQueue, j) /\ cjWake' = CJNudged
      \/ cjDisk' = cjDisk /\ UNCHANGED <<cjMade, cjRec, cjPatch, cjQueue, cjWake>>
  BY DEF CJStart, CJSave
<1>3. CASE /\ cjMade' = j /\ cjRec' = CJDrop(recs, gone) /\ cjDisk' = CJDrop([cjDisk EXCEPT ![j] = rec], gone)
           /\ cjPatch' = CJDropPatches(gone) /\ cjQueue' = Append(cjQueue, j) /\ cjWake' = CJNudged
  BY <1>1, <1>3, CJQueuedKeeps
<1>4. CASE cjDisk' = cjDisk /\ UNCHANGED <<cjMade, cjRec, cjPatch, cjQueue, cjWake>>
  BY <1>1, <1>4, CJSameKeeps
<1> QED
  BY <1>2, <1>3, <1>4

\* StopChangeJob of a queued job; one that a worker has just taken is stopped all
\* the same.
LEMMA CJStopQueuedKeeps ==
  ASSUME CJInv, NEW j \in CJJobs, CJStopQueued(j)
  PROVE  CJInv'
<1> DEFINE rec == [cjRec[j] EXCEPT !.state = "STOPPED"]
<1>1. cjRec[j] \in CJRecords /\ cjRec[j].state = "QUEUED" /\ cjUp # "down"
  BY DEF CJStopQueued, CJHas, CJInv, CJKinds
<1>2. cjRec' = [cjRec EXCEPT ![j] = rec] /\ cjQueue' = RemoveFirst(cjQueue, j) /\ (cjDisk' = cjDisk \/ cjDisk' = [cjDisk EXCEPT ![j] = rec])
  BY DEF CJStopQueued, CJSave
<1>3. cjPatch' = cjPatch /\ cjMade' = cjMade /\ cjBusy' = cjBusy /\ cjWorker' = cjWorker /\ cjWake' = cjWake /\ cjUp' = cjUp
  BY DEF CJStopQueued
<1>4. rec \in CJRecords /\ rec.state = "STOPPED"
  BY <1>1 DEF CJRecords, CJEnded
<1> HIDE DEF rec
<1>5. /\ cjRec' \in [CJJobs -> CJRecords \cup {CJNone}] /\ cjDisk' \in [CJJobs -> CJRecords \cup {CJNone}] /\ cjRec'[j] = rec
      /\ \A k \in CJJobs : k # j => cjRec'[k] = cjRec[k] /\ cjDisk'[k] = cjDisk[k]
      /\ cjDisk'[j] = cjDisk[j] \/ cjDisk'[j] = rec
  BY <1>2, <1>4 DEF CJInv, CJKinds
<1>6. cjQueue' \in Seq(CJJobs) /\ (\A k \in 1..Len(cjQueue') : cjQueue'[k] # j /\ \E n \in 1..Len(cjQueue) : cjQueue'[k] = cjQueue[n])
      /\ \A m, n \in 1..Len(cjQueue') : m # n => cjQueue'[m] # cjQueue'[n]
  <2>1. cjQueue \in Seq(CJJobs) /\ \A m, n \in 1..Len(cjQueue) : m # n => cjQueue[m] # cjQueue[n]
    BY CJWaitingOf DEF CJInv, CJKinds
  <2>2. cjQueue' = RemoveFirst(cjQueue, j)
    BY <1>2
  <2>3. LeftWithout(CJJobs, cjQueue, j, cjQueue')
    BY <2>1, <2>2, RemoveFirstLeavesRest, Zenon
  <2> QED
    BY <2>3, Zenon DEF LeftWithout
<1>7. CJKinds'
  BY <1>3, <1>5, <1>6 DEF CJInv, CJKinds
<1>8. CJWaiting'
  <2>1. ASSUME NEW k \in 1..Len(cjQueue')
        PROVE  /\ cjQueue'[k] <= cjMade' /\ cjRec'[cjQueue'[k]].state = "QUEUED"
               /\ \A v \in CJWorkers : cjWorker'[v].id # cjQueue'[k]
    <3>1. PICK n \in 1..Len(cjQueue) : cjQueue'[k] = cjQueue[n]
      BY <1>6
    <3>2. cjQueue[n] \in CJJobs /\ cjQueue[n] <= cjMade /\ cjRec[cjQueue[n]].state = "QUEUED" /\ \A v \in CJWorkers : cjWorker[v].id # cjQueue[n]
      BY CJWaitingOf
    <3>3. cjQueue[n] # j
      BY <1>6, <3>1
    <3>4. cjRec'[cjQueue[n]] = cjRec[cjQueue[n]]
      BY <1>5, <3>2, <3>3
    <3> QED
      BY <1>3, <3>1, <3>2, <3>4
  <2>2. cjUp' # "down"
    BY <1>1, <1>3
  <2> QED
    BY <1>6, <2>1, <2>2 DEF CJWaiting
<1>9. CJHolds'
  BY <1>3, CJHoldsOf, Zenon DEF CJHolds
<1>10. CJRuns'
  <2>1. ASSUME NEW v \in CJWorkers
        PROVE  /\ cjWorker'[v].pc \in CJAtWork => cjRec'[cjWorker'[v].id].state = "RUNNING"
               /\ cjWorker'[v].pc = "taken" => cjRec'[cjWorker'[v].id].state \in {"QUEUED", "STOPPED", "NONE"}
    <3>1. cjWorker'[v] = cjWorker[v]
      BY <1>3
    <3>2. /\ cjWorker[v].pc \in CJAtWork => cjRec[cjWorker[v].id].state = "RUNNING"
          /\ cjWorker[v].pc = "taken" => cjRec[cjWorker[v].id].state \in {"QUEUED", "STOPPED", "NONE"}
      BY DEF CJInv, CJRuns
    <3>3. cjWorker[v].pc \in CJAtWork \cup {"taken"} => cjWorker[v].id \in CJJobs
      BY CJOfWorker
    <3> QED
      BY <1>1, <1>4, <1>5, <3>1, <3>2, <3>3
  <2> QED
    BY <2>1 DEF CJRuns
<1>11. CJComes'
  <2> SUFFICES ASSUME NEW v \in CJWorkers, cjWorker'[v].pc \in CJAtWork  PROVE CJCame(cjWorker'[v], cjRec'[cjWorker'[v].id], cjPatch'[cjWorker'[v].id])
    BY Zenon DEF CJComes, CJCame
  <2>1. cjWorker'[v] = cjWorker[v] /\ cjWorker[v].pc \in CJAtWork
    BY <1>3
  <2>2. CJCame(cjWorker[v], cjRec[cjWorker[v].id], cjPatch[cjWorker[v].id]) /\ cjRec[cjWorker[v].id].state = "RUNNING" /\ cjWorker[v].id \in CJJobs
    BY <2>1, CJOfWorker DEF CJInv, CJComes, CJRuns
  <2>3. cjRec'[cjWorker[v].id] = cjRec[cjWorker[v].id]
    BY <1>1, <1>5, <2>2
  <2> QED
    BY <1>3, <2>1, <2>2, <2>3, Zenon
<1>12. CJBacked'
  <2>1. cjDisk[j].state # "HANDED_BACK"
    BY <1>1 DEF CJInv, CJBacked
  <2>2. ASSUME NEW k \in CJJobs
        PROVE  /\ cjRec'[k].state = "HANDED_BACK" => CJGood(cjRec'[k].req, cjRec'[k].result) /\ cjPatch'[k] = cjRec'[k].result.patch
               /\ cjDisk'[k].state = "HANDED_BACK" => CJGood(cjDisk'[k].req, cjDisk'[k].result) /\ cjPatch'[k] = cjDisk'[k].result.patch
               /\ cjDisk'[k].state = "HANDED_BACK" /\ cjUp' # "down" => cjRec'[k].state = "HANDED_BACK"
    <3>1. CASE k = j
      BY <1>4, <1>5, <2>1, <3>1
    <3>2. CASE k # j
      BY <1>3, <1>5, <3>2 DEF CJInv, CJBacked
    <3> QED
      BY <3>1, <3>2
  <2> QED
    BY <2>2, Zenon DEF CJBacked
<1> QED
  BY <1>7, <1>8, <1>9, <1>10, <1>11, <1>12 DEF CJInv

\* Close: the jobs' contexts end.
LEMMA CJCloseKeeps ==
  ASSUME CJInv, CJClose
  PROVE  CJInv'
<1>1. cjRec' = cjRec /\ cjDisk' = cjDisk /\ cjPatch' = cjPatch /\ cjQueue' = cjQueue /\ cjMade' = cjMade /\ cjBusy' = cjBusy /\ cjWake' = cjWake
      /\ cjUp = "up" /\ cjUp' = "closing"
  BY DEF CJClose
<1>2. \A v \in CJWorkers : cjWorker'[v] = cjWorker[v] \/ cjWorker'[v] = [cjWorker[v] EXCEPT !.ctx = "cancelled"]
  BY DEF CJClose
<1>3. ASSUME NEW v \in CJWorkers
      PROVE  /\ cjWorker'[v] \in CJWorkerRecs /\ cjWorker'[v].pc = cjWorker[v].pc /\ cjWorker'[v].id = cjWorker[v].id
             /\ cjWorker'[v].project = cjWorker[v].project /\ cjWorker'[v].broker = cjWorker[v].broker /\ cjWorker'[v].left = cjWorker[v].left
             /\ cjWorker'[v].before = cjWorker[v].before /\ cjWorker'[v].end = cjWorker[v].end
  <2>1. cjWorker[v] \in CJWorkerRecs
    BY CJOfWorker
  <2> QED
    BY <1>2, <2>1 DEF CJWorkerRecs
<1>4. CJKinds'
  <2>1. cjWorker' \in [CJWorkers -> CJWorkerRecs]
    BY <1>3 DEF CJClose
  <2> QED
    BY <1>1, <2>1 DEF CJInv, CJKinds
<1>5. CJWaiting'
  <2>1. \A v \in CJWorkers : cjWorker'[v].id = cjWorker[v].id
    BY <1>3
  <2>2. cjUp' # "down"
    BY <1>1
  <2> QED
    BY <1>1, <2>1, <2>2, CJWaitingOf DEF CJWaiting
<1>6. CJHolds'
  <2>1. ASSUME NEW v \in CJWorkers
        PROVE  /\ cjWorker'[v].id <= cjMade
               /\ cjWorker'[v].pc \in {"idle", "asleep"} <=> cjWorker'[v].project = ""
               /\ cjWorker'[v].pc \in {"idle", "asleep", "clear"} <=> cjWorker'[v].id = 0
               /\ cjWorker'[v].broker = "open" => cjWorker'[v].pc \in {"agent", "review"}
               /\ cjUp' = "down" => cjWorker'[v].pc = "asleep"
    BY <1>1, <1>3, CJHoldsOf
  <2>2. ASSUME NEW u \in CJWorkers, NEW v \in CJWorkers, u # v
        PROVE  /\ cjWorker'[u].project # "" => cjWorker'[u].project # cjWorker'[v].project
               /\ cjWorker'[u].id # 0 => cjWorker'[u].id # cjWorker'[v].id
    <3>1. /\ cjWorker[u].project # "" => cjWorker[u].project # cjWorker[v].project
          /\ cjWorker[u].id # 0 => cjWorker[u].id # cjWorker[v].id
      BY <2>2, CJHoldsOf
    <3> QED
      BY <1>3, <3>1
  <2>3. cjBusy' = {cjWorker'[v].project : v \in CJWorkers} \ {""}
    <3>1. {cjWorker'[v].project : v \in CJWorkers} = {cjWorker[v].project : v \in CJWorkers}
      BY <1>3
    <3> QED
      BY <1>1, <3>1, CJHoldsOf
  <2> QED
    BY <1>1, <2>1, <2>2, <2>3, Zenon DEF CJHolds
<1>7. CJRuns'
  BY <1>1, <1>3 DEF CJInv, CJRuns
<1>8. CJComes'
  <2> SUFFICES ASSUME NEW v \in CJWorkers, cjWorker'[v].pc \in CJAtWork  PROVE CJCame(cjWorker'[v], cjRec[cjWorker[v].id], cjPatch[cjWorker[v].id])
    BY <1>1, <1>3, Zenon DEF CJComes, CJCame
  <2>1. CJCame(cjWorker[v], cjRec[cjWorker[v].id], cjPatch[cjWorker[v].id])
    BY <1>3 DEF CJInv, CJComes
  <2> QED
    BY <1>3, <2>1 DEF CJCame
<1>9. CJBacked'
  BY <1>1 DEF CJInv, CJBacked
<1> QED
  BY <1>4, <1>5, <1>6, <1>7, <1>8, <1>9 DEF CJInv

\* Counting starts at zero: for places where strings are about.
LEMMA FromZero == \A n \in Nat : \A m \in 0..n : 0 <= m
OBVIOUS

\* What holds after a step that leaves no worker a job and nothing queued.
LEMMA CJAllAsleepNext ==
  ASSUME CJKinds', \A v \in CJWorkers : cjWorker'[v].pc = "asleep" /\ cjWorker'[v].id = 0 /\ cjWorker'[v].project = "" /\ cjWorker'[v].broker = "closed",
         cjQueue' = <<>>, cjBusy' = {}
  PROVE  CJWaiting' /\ CJHolds' /\ CJRuns' /\ CJComes'
<1>1. CJWaiting'
  <2>1. Len(cjQueue') = 0
    OBVIOUS
  <2>2. \A i \in 1..Len(cjQueue') : FALSE
    BY <2>1, NoneIn, Zenon
  <2> QED
    BY <2>2, Zenon DEF CJWaiting
<1>2. CJHolds'
  <2>1. {cjWorker'[w].project : w \in CJWorkers} \ {""} = {}
    OBVIOUS
  <2>2. 0 <= cjMade'
    <3>1. cjMade' \in 0..CJMaxJobs /\ CJMaxJobs \in Nat
      BY CJBounds, Zenon DEF CJKinds
    <3> QED
      BY <3>1, FromZero, Zenon
  <2>3. \A v \in CJWorkers : cjWorker'[v].broker # "open"
    OBVIOUS
  <2> QED
    BY <2>1, <2>2, <2>3 DEF CJHolds
<1>3. CJRuns' /\ CJComes'
  BY DEF CJRuns, CJComes, CJAtWork
<1> QED
  BY <1>1, <1>2, <1>3

\* The process ends: what is left is on disk.
LEMMA CJDownKeeps ==
  ASSUME CJInv, CJDown
  PROVE  CJInv'
<1> DEFINE asleep == [CJIdle EXCEPT !.pc = "asleep"]
<1>1. cjUp' = "down" /\ cjWorker' = [w \in CJWorkers |-> asleep] /\ cjQueue' = <<>> /\ cjBusy' = {} /\ cjWake' = 0 /\ cjRec' = [j \in CJJobs |-> CJNone]
      /\ cjDisk' = cjDisk /\ cjPatch' = cjPatch /\ cjMade' = cjMade
  BY DEF CJDown
<1>2. asleep \in CJWorkerRecs /\ asleep.pc = "asleep" /\ asleep.id = 0 /\ asleep.project = "" /\ asleep.broker = "closed"
  BY CJIdleIs DEF CJWorkerRecs
<1> HIDE DEF asleep
<1>3. cjWorker' \in [CJWorkers -> CJWorkerRecs] /\ \A v \in CJWorkers : cjWorker'[v] = asleep
  BY <1>1, <1>2
<1>4. \A j \in CJJobs : cjRec'[j] = CJNone
  BY <1>1
<1>5. CJKinds'
  <2>1. cjRec' \in [CJJobs -> CJRecords \cup {CJNone}]
    BY <1>1
  <2>2. cjQueue' \in Seq(CJJobs) /\ cjWake' \in 0..Cardinality(CJWorkers)
    BY <1>1, CJBounds
  <2> QED
    BY <1>1, <1>3, <2>1, <2>2 DEF CJInv, CJKinds
<1>6. CJWaiting' /\ CJHolds' /\ CJRuns' /\ CJComes'
  <2>1. \A v \in CJWorkers : cjWorker'[v].pc = "asleep" /\ cjWorker'[v].id = 0 /\ cjWorker'[v].project = "" /\ cjWorker'[v].broker = "closed"
    BY <1>2, <1>3
  <2>2. cjQueue' = <<>> /\ cjBusy' = {}
    BY <1>1
  <2> QED
    BY <1>5, <2>1, <2>2, CJAllAsleepNext
<1>7. CJBacked'
  <2>1. \A j \in CJJobs : cjRec'[j].state = "NONE"
    BY <1>4 DEF CJNone
  <2>2. \A j \in CJJobs : cjDisk[j].state = "HANDED_BACK" => CJGood(cjDisk[j].req, cjDisk[j].result) /\ cjPatch[j] = cjDisk[j].result.patch
    BY DEF CJInv, CJBacked
  <2> QED
    BY <1>1, <2>1, <2>2 DEF CJBacked
<1> QED
  BY <1>5, <1>6, <1>7 DEF CJInv

\* load: a job that had not ended is of unknown end; the oldest ended ones go.
LEMMA CJLoadKeeps ==
  ASSUME CJInv, CJLoad
  PROVE  CJInv'
<1> DEFINE told == [j \in CJJobs |-> IF cjDisk[j].state \in CJActive THEN [cjDisk[j] EXCEPT !.state = "UNKNOWN"] ELSE cjDisk[j]]
           gone == CJPruned(told)
<1>1. cjUp = "down" /\ cjUp' = "up" /\ cjRec' = CJDrop(told, gone) /\ cjDisk' = CJDrop(told, gone) /\ cjPatch' = CJDropPatches(gone)
  BY DEF CJLoad
<1>2. cjQueue' = cjQueue /\ cjMade' = cjMade /\ cjBusy' = cjBusy /\ cjWorker' = cjWorker /\ cjWake' = cjWake
  BY DEF CJLoad
<1>3. /\ told \in [CJJobs -> CJRecords \cup {CJNone}]
      /\ \A j \in CJJobs : told[j].state = "HANDED_BACK" => told[j] = cjDisk[j]
  <2>1. ASSUME NEW j \in CJJobs
        PROVE  told[j] \in CJRecords \cup {CJNone} /\ (told[j].state = "HANDED_BACK" => told[j] = cjDisk[j])
    <3>1. cjDisk[j] \in CJRecords \cup {CJNone}
      BY DEF CJInv, CJKinds
    <3>2. CASE cjDisk[j].state \in CJActive
      <4>1. cjDisk[j] \in CJRecords
        BY <3>1, <3>2 DEF CJNone, CJActive
      <4>2. [cjDisk[j] EXCEPT !.state = "UNKNOWN"] \in CJRecords /\ [cjDisk[j] EXCEPT !.state = "UNKNOWN"].state = "UNKNOWN"
        BY <4>1 DEF CJRecords, CJEnded
      <4>3. told[j] = [cjDisk[j] EXCEPT !.state = "UNKNOWN"]
        BY <3>2
      <4> QED
        BY <4>2, <4>3
    <3>3. CASE cjDisk[j].state \notin CJActive
      <4>1. told[j] = cjDisk[j]
        BY <3>3
      <4> QED
        BY <3>1, <4>1
    <3> QED
      BY <3>2, <3>3
  <2> QED
    BY <2>1
<1> HIDE DEF told, gone
<1>4. cjRec' \in [CJJobs -> CJRecords \cup {CJNone}] /\ \A j \in CJJobs : (j \in gone => cjRec'[j].state = "NONE") /\ (j \notin gone => cjRec'[j] = told[j])
  <2>1. cjRec' = [k \in CJJobs |-> IF k \in gone THEN CJNone ELSE told[k]]
    BY <1>1, Zenon DEF CJDrop
  <2>2. \A k \in CJJobs : cjRec'[k] = IF k \in gone THEN CJNone ELSE told[k]
    BY <2>1, Zenon
  <2>3. \A k \in CJJobs : (IF k \in gone THEN CJNone ELSE told[k]) \in CJRecords \cup {CJNone}
    BY <1>3
  <2>4. cjRec' \in [CJJobs -> CJRecords \cup {CJNone}]
    BY <2>1, <2>3, Zenon
  <2> QED
    BY <2>2, <2>4 DEF CJNone
<1>5. cjDisk' = cjRec'
  BY <1>1
<1>6. cjPatch' \in [CJJobs -> CJWork] /\ \A j \in CJJobs : j \notin gone => cjPatch'[j] = cjPatch[j]
  BY <1>1, CJDropsPatches
<1>7. CJKinds'
  BY <1>1, <1>2, <1>4, <1>5, <1>6 DEF CJInv, CJKinds
<1>8. CJWaiting' /\ CJHolds' /\ CJRuns' /\ CJComes'
  <2>1. \A v \in CJWorkers : cjWorker[v].pc = "asleep" /\ cjWorker[v].id = 0 /\ cjWorker[v].project = "" /\ cjWorker[v].broker \in {"open", "closed"}
                             /\ cjWorker[v].broker # "open"
    BY <1>1, CJHoldsOf, CJOfWorker, CJWorkerFields
  <2>2. cjQueue = <<>>
    BY <1>1, CJWaitingOf
  <2>3. cjBusy = {}
    BY <2>1, CJHoldsOf
  <2>4. \A v \in CJWorkers : cjWorker'[v].pc = "asleep" /\ cjWorker'[v].id = 0 /\ cjWorker'[v].project = "" /\ cjWorker'[v].broker = "closed"
    BY <1>2, <2>1
  <2> QED
    BY <1>2, <1>7, <2>2, <2>3, <2>4, CJAllAsleepNext
<1>9. CJBacked'
  <2>1. ASSUME NEW j \in CJJobs, cjRec'[j].state = "HANDED_BACK"
        PROVE  CJGood(cjRec'[j].req, cjRec'[j].result) /\ cjPatch'[j] = cjRec'[j].result.patch
    <3>1. j \notin gone /\ cjRec'[j] = cjDisk[j]
      BY <1>3, <1>4, <2>1
    <3> QED
      BY <1>6, <2>1, <3>1 DEF CJInv, CJBacked
  <2> QED
    BY <1>5, <2>1, Zenon DEF CJBacked
<1> QED
  BY <1>7, <1>8, <1>9 DEF CJInv

\* A step of worker w.
LEMMA CJWorkerStepKeeps ==
  ASSUME CJInv, NEW w \in CJWorkers, CJWorkerStep(w)
  PROVE  CJInv'
BY CJTakeKeeps, CJAwakeKeeps, CJMarkKeeps, CJPrepareKeeps, CJBaselineKeeps, CJAssessKeeps, CJReadyKeeps, CJAgentKeeps, CJPlanKeeps,
   CJReviewKeeps, CJResultKeeps, CJProveKeeps, CJAfterKeeps, CJHandBackKeeps, CJFinishKeeps, CJClearKeeps, Zenon DEF CJWorkerStep

\* Every step.
LEMMA CJStepKeeps == CJInv /\ [CJNext]_cjVars => CJInv'
<1> SUFFICES ASSUME CJInv, [CJNext]_cjVars  PROVE CJInv'
  OBVIOUS
<1>1. CASE UNCHANGED cjVars
  <2>1. cjDisk' = cjDisk /\ UNCHANGED <<cjMade, cjRec, cjPatch, cjQueue, cjWake>> /\ UNCHANGED <<cjBusy, cjWorker, cjUp>>
    BY <1>1 DEF cjVars
  <2> QED
    BY <2>1, CJSameKeeps
<1>2. CASE \E r \in CJRequests : CJStart(r)
  BY <1>2, CJStartKeeps
<1>3. CASE \E j \in CJJobs : CJStopQueued(j)
  BY <1>3, CJStopQueuedKeeps
<1>4. CASE \E w \in CJWorkers : CJWorkerStep(w) \/ CJCommand(w) \/ \E how \in {"cancelled", "expired"} : CJEndContext(w, how)
  BY <1>4, CJWorkerStepKeeps, CJCommandKeeps, CJEndContextKeeps
<1>5. CASE CJClose \/ CJDown \/ CJLoad
  BY <1>5, CJCloseKeeps, CJDownKeeps, CJLoadKeeps
<1> QED
  BY <1>1, <1>2, <1>3, <1>4, <1>5, Zenon DEF CJNext

\* The invariant gives what the run checks.
LEMMA CJInvIsSound == CJInv => CJSound
<1> SUFFICES ASSUME CJInv  PROVE CJSound
  OBVIOUS
<1>1. CJTypeOK
  <2>1. \A j \in CJJobs : cjRec[j] = CJNone \/ cjRec[j].state \in CJActive \cup CJEnded
    BY CJRecordFields DEF CJInv, CJKinds
  <2> QED
    BY <2>1 DEF CJInv, CJKinds, CJTypeOK, CJProjects
<1>2. CJHandedBackIsSound
  BY DEF CJInv, CJBacked, CJGood, CJHandedBackIsSound
<1>3. CJOnePerProject
  BY DEF CJInv, CJHolds, CJOnePerProject
<1> QED
  BY <1>1, <1>2, <1>3 DEF CJSound

-----------------------------------------------------------------------------
\* A job is handed back only with the patch its record names, one that is clean, no
\* worse than the baseline and made on a baseline that was ready, and no two
\* workers have jobs of one project, whatever is stopped, fails to be saved, is
\* pruned or is lost with the process (ChangeManager, runChange, load).
THEOREM ChangeJobsHandBackSoundly == CJSpec => []CJSound
<1>1. CJInit => CJInv
  BY CJStarts
<1>2. CJInv /\ [CJNext]_cjVars => CJInv'
  BY CJStepKeeps
<1>3. CJInv => CJSound
  BY CJInvIsSound
<1> QED
  BY <1>1, <1>2, <1>3, PTL DEF CJSpec


\* Both managers' jobs end with the verdict their evidence gives: the invariant
\* that the jobs run checks on its small instances, for every one.
THEOREM JobsHold == SJSpec /\ CJSpec => []JobsSound
<1>1. SJSound /\ CJSound => JobsSound
  BY DEF JobsSound
<1> QED
  BY <1>1, StackJobVerdictsAreEvidence, ChangeJobsHandBackSoundly, PTL
=============================================================================
