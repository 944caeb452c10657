------------------------------- MODULE MCJobs --------------------------------
(***************************************************************************)
(* What the service does in the background, each part for TLC on its own   *)
(* small instance: the two job managers, the collection of a run's         *)
(* activity and its streams. They share no state here, so a behaviour      *)
(* moves one of them, chosen at the start.                                 *)
(***************************************************************************)
EXTENDS StackJobs, ChangeJobs, ActivityDetail, ActivityStreams

VARIABLE focus   \* the component that moves; the others stay at their start

\* What the two stack jobs find in their sources: parts with an unsupported one
\* between two that run, and a scan of one part with a build and tests.
Part(stack, build, test) == [stack |-> stack, build |-> build, test |-> test, version |-> "1"]
Source(r) ==
  IF r = "r1" THEN {<<Part("php", FALSE, FALSE), Part(Unsupported, FALSE, FALSE), Part("python", FALSE, FALSE)>>}
  ELSE {<<Part("go", TRUE, TRUE)>>, <<Part(Unsupported, FALSE, FALSE)>>}

\* What a check of a change job can show: all is well, a build that fails, one
\* test more.
Check(build, test, tests) == [install |-> "PASSED", build |-> build, test |-> test, tests |-> tests]
Passing(n) == Check("PASSED", "PASSED", [passed |-> n, failed |-> 0, known |-> TRUE])
Checks(r) == IF r = "r1" THEN {Passing(1), Passing(2), Check("FAILED", "NOT_RUN", NoTests)} ELSE {Passing(1)}
Project(r) == "p"
Kind(r) == IF r = "r1" THEN "tests" ELSE "assess"
\* Two runs of one repository and one of another.
RepositoryOf(r) == IF r = "r3" THEN "l" ELSE "k"

MCJobsInit ==
  /\ focus \in {"stack jobs", "change jobs", "detail", "streams"}
  /\ SJInit /\ CJInit /\ ADInit /\ AVInit

MCJobsNext ==
  \/ focus = "stack jobs" /\ SJNext /\ UNCHANGED <<focus, cjVars, adVars, avVars>>
  \/ focus = "change jobs" /\ CJNext /\ UNCHANGED <<focus, sjVars, adVars, avVars>>
  \/ focus = "detail" /\ ADNext /\ UNCHANGED <<focus, sjVars, cjVars, avVars>>
  \/ focus = "streams" /\ AVNext /\ UNCHANGED <<focus, sjVars, cjVars, adVars>>

MCJobsVars == <<focus, sjVars, cjVars, adVars, avVars>>
MCJobsSpec ==
  /\ MCJobsInit /\ [][MCJobsNext]_MCJobsVars
  /\ \A w \in CJWorkers : WF_cjVars(focus = "change jobs" /\ CJWorkerStep(w))

-----------------------------------------------------------------------------
\* A job's verdict is what its steps showed, and what it hands back is no worse
\* than what it was given, whichever manager it has.
JobsSound == SJSound /\ CJSound

\* What a client is shown of the builder is whole or says what is missing, and
\* somebody collects it while a stream waits for it.
ActivitySound == ADSound /\ AVSound
=============================================================================
