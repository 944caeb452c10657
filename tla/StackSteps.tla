------------------------------ MODULE StackSteps ------------------------------
(***************************************************************************)
(* internal/stackjob: what a part of a customer's code runs and how each   *)
(* step is told.  Stack jobs and change jobs run the same steps            *)
(* (runSteps), so both modules extend this one.                            *)
(*                                                                         *)
(* A part is [stack, build, test, version]: its stack, whether it has a    *)
(* build script and tests, and the version it runs on.  Commands, folders  *)
(* and output are left out.                                                *)
(***************************************************************************)
EXTENDS Naturals, Sequences

Unsupported == "unsupported"
StepState == {"WAITING", "RUNNING", "PASSED", "FAILED", "SKIPPED", "STOPPED", "NOT_RUN"}
Outcome == {"ok", "nonzero", "no-tests", "timeout", "broken"}
NoTests == [passed |-> 0, failed |-> 0, known |-> FALSE]

\* Only: the parts of stacks a job may not run stay as found and are not run.
Only(parts, stacks) ==
  [n \in DOMAIN parts |-> IF stacks = {} \/ parts[n].stack \in stacks THEN parts[n]
                          ELSE [parts[n] EXCEPT !.stack = Unsupported]]

\* Pin: a part of a pinned stack runs on the pinned version when it is served.
Pin(parts, version, served) ==
  [n \in DOMAIN parts |-> IF parts[n].stack # Unsupported /\ version \in served
                          THEN [parts[n] EXCEPT !.version = version] ELSE parts[n]]

\* Steps: install, build and test, the ones the part has no use for skipped.
Skips(p, name) ==
  CASE name = "install" -> p.stack = "java"
    [] name = "build"   -> p.stack \in {"ruby", "php"} \/ (p.stack = "node" /\ ~p.build)
    [] name = "test"    -> p.stack \notin {"python", "java"} /\ ~p.test

\* ScanSteps: the install, a Java part's build, no tests, then the scanner.
ScanSkips(p, name) ==
  CASE name = "install" -> Skips(p, name)
    [] name = "build"   -> p.stack # "java" \/ Skips(p, name)
    [] name = "test"    -> TRUE
    [] name = "scan"    -> FALSE

StepNames(scan) == IF scan THEN <<"install", "build", "test", "scan">> ELSE <<"install", "build", "test">>

\* partSteps: a part's steps as a job first shows them.
partSteps(p, scan) ==
  IF p.stack = Unsupported THEN <<>>
  ELSE [i \in DOMAIN StepNames(scan) |->
          [name |-> StepNames(scan)[i], state |-> "WAITING", tests |-> NoTests,
           skip |-> IF scan THEN ScanSkips(p, StepNames(scan)[i]) ELSE Skips(p, StepNames(scan)[i])]]

\* failureOf.
FailureOf(name) ==
  CASE name = "install" -> "INSTALL_FAILED" [] name = "build" -> "BUILD_FAILED"
    [] name = "test" -> "TESTS_FAILED"      [] name = "scan" -> "SCAN_FAILED"

\* Mutant of StepResult: a failed build lets the part go on, as a scan's does.
StepResultLenient(scan, name, python, outcome, cancelled) ==
  CASE cancelled -> <<"STOPPED", "STOPPED">>
    [] outcome = "ok" -> <<"PASSED", "">>
    [] outcome = "timeout" -> <<"FAILED", "TIMED_OUT">>
    [] outcome = "broken" -> <<"FAILED", "SANDBOX_UNAVAILABLE">>
    [] outcome = "no-tests" /\ python /\ name = "test" -> <<"SKIPPED", "">>
    [] name \in {"install", "build"} -> <<"FAILED", "">>
    [] OTHER -> <<"FAILED", FailureOf(name)>>

\* The switch of runSteps after Exec: the state of the step and the failure of
\* its part.  A stop comes before a timeout, a timeout before the exit code,
\* and a scan goes on without a whole install.
StepResult(scan, name, python, outcome, cancelled) ==
  CASE cancelled -> <<"STOPPED", "STOPPED">>
    [] ~cancelled /\ outcome = "timeout" -> <<"FAILED", "TIMED_OUT">>
    [] ~cancelled /\ outcome = "broken" -> <<"FAILED", "SANDBOX_UNAVAILABLE">>
    [] ~cancelled /\ outcome = "ok" -> <<"PASSED", "">>
    [] ~cancelled /\ outcome = "no-tests" /\ python /\ name = "test" -> <<"SKIPPED", "">>
    [] ~cancelled /\ scan /\ name \in {"install", "build"} /\ outcome \in {"nonzero", "no-tests"} -> <<"FAILED", "">>
    [] OTHER -> <<"FAILED", FailureOf(name)>>

\* A step the job never reached says so (the last update of run).
NotRun(steps) == [i \in DOMAIN steps |->
  IF steps[i].state \in {"WAITING", "RUNNING"} THEN [steps[i] EXCEPT !.state = "NOT_RUN"] ELSE steps[i]]

\* step, fine: a step by name, and whether it passed, was skipped or is absent.
Fine(steps, name) == \A i \in DOMAIN steps : steps[i].name = name => steps[i].state \in {"PASSED", "SKIPPED"}
=============================================================================
