------------------------------ MODULE RunProcess -----------------------------
(***************************************************************************)
(* The governed runner of internal/run inside one `abcp run` process: it   *)
(* looks at its context and at what the step it supervises ended with,     *)
(* decides the next transition, and selects that transition under the      *)
(* run-transition lease, where a typed API cancellation wins over whatever *)
(* was decided.  Deciding and selecting are separate steps: the watcher,   *)
(* the signal handler and the service run in between.                      *)
(***************************************************************************)
EXTENDS RunLedger

CONSTANTS Profiles,    \* the authority profiles a run may have
          MaxFaults    \* bound on injected failures

ProfileKind == {"plain",      \* Ralphex in its wall
                "open",       \* Ralphex with an open-model engine
                "bounded",    \* a V3 bounded invocation: it ends at IMPLEMENTATION_COMPLETED
                "exact"}      \* an exact edit, which starts no builder

ASSUME ProfileAssumption == Profiles \subseteq ProfileKind /\ MaxFaults \in Nat

VARIABLES
  ledger,      \* the durable event history
  profile,     \* the profile of the run's immutable authority
  proc,        \* the process: "running", "exited" or "crashed"
  resumed,     \* this process is `abcp run --resume`
  at,          \* the state the runner believes the run is in
  pc,          \* "choose", "commit", "frozen" (lease held, owner closing), "returned"
  intent,      \* the transition decided on
  retried,     \* the fresh attempt has been used
  ctx,         \* why the run's context is cancelled: Live, Signalled, or the operation
  faults       \* injected failures so far

runVars == <<ledger, profile, proc, resumed, at, pc, intent, retried, ctx, faults>>

Intent == [to : State \cup {""}, src : Source, how : {"plain", "final", "blocker"}]
NoIntent == [to |-> "", src |-> "governed-runner", how |-> "plain"]

Step(to, src) == [to |-> to, src |-> src, how |-> "plain"]
FinalStep(to, src) == [to |-> to, src |-> src, how |-> "final"]

\* A step that failed: cancelled when the context was, failed otherwise.
StopFor(src) == {Step(IF ctx = Live THEN "FAILED" ELSE "CANCELLED", src)}

\* The sources that stop a run while its build is being prepared.
PrepareSources == {"ralphex-adapter", "build-wall"} \cup
                  (IF profile = "open" THEN {"open-model-engine"} ELSE {})

\* Mutant of PendingAnswer: an answer to any pause will do.
AnyAnswer == {"proceed", "abort"}

\* pendingResumeAnswer: the answer recorded for the one blocker of the run.
PendingAnswer ==
  {ledger[i].ans : i \in {j \in DOMAIN ledger :
      \E b \in Blockers(ledger) : Blockers(ledger) = {b} /\ j \in AnswersTo(ledger, b)}}

(***************************************************************************)
(* What the runner may decide in each state.                               *)
(***************************************************************************)
ResumeIntents ==
  {Step(IF a = "proceed" THEN "AUTHORITY_VALIDATED" ELSE "FAILED", "resume-controller") : a \in PendingAnswer}

PrepareIntents(sources) ==
  {Step("EXECUTION_STARTING", "governed-runner")} \cup {Step("FAILED", s) : s \in sources}

AuthorityValidatedIntents ==
  (IF resumed THEN {Step("FAILED", "resume-controller")} ELSE {}) \cup
  (IF profile # "exact" THEN PrepareIntents(PrepareSources)
   ELSE IF resumed THEN {Step("FAILED", "exact-edit")}
   ELSE {Step("EXECUTION_STARTING", "governed-runner")})

\* runExactEdit.
ExactEditIntents ==
  {Step("IMPLEMENTATION_COMPLETED", "exact-edit"), Step("FAILED", "exact-edit")} \cup StopFor("exact-edit")

\* freshAttemptEligible: one fresh attempt, never of a bounded invocation.
MayRetry == ~retried /\ profile # "bounded"

ImplementingIntents ==
  IF profile = "exact" THEN ExactEditIntents
  ELSE {Step("FAILED", "ralphex-adapter")}
    \cup (IF profile = "bounded" THEN {Step("FAILED", "governance-controller")} ELSE {})
    \cup (IF ctx # Live THEN {Step("CANCELLED", "ralphex-adapter")} ELSE {})
    \cup (IF ctx \in Cancels THEN {}
          ELSE {[to |-> "HUMAN_DECISION_REQUIRED", src |-> "ralphex-adapter", how |-> "blocker"],
                IF profile = "bounded" THEN FinalStep("IMPLEMENTATION_COMPLETED", "ralphex-adapter")
                ELSE Step("IMPLEMENTATION_COMPLETED", "ralphex-adapter")}
            \cup (IF MayRetry THEN {Step("RETRYING", "ralphex-adapter")} ELSE {}))

AcceptanceIntents ==
  IF ctx # Live THEN {Step("CANCELLED", "acceptance-controller")}
  ELSE {Step("VALIDATION_UNAVAILABLE", "acceptance-controller"), Step("FAILED", "acceptance-controller"),
        FinalStep("BRANCH_ACCEPTED", "acceptance-controller")}

Intents ==
  CASE at = "RUN_CREATED"               -> {Step("AUTHORITY_VALIDATED", "authority-validator")} \cup StopFor("authority-validator")
    [] at = "HUMAN_DECISION_REQUIRED"   -> ResumeIntents
    [] at = "AUTHORITY_VALIDATED"       -> AuthorityValidatedIntents
    [] at = "RETRYING"                  -> PrepareIntents(PrepareSources)
    [] at = "EXECUTION_STARTING"        -> {Step("IMPLEMENTING", IF profile = "exact" THEN "exact-edit" ELSE "ralphex-adapter")}
    [] at = "IMPLEMENTING"              -> ImplementingIntents
    [] at = "IMPLEMENTATION_COMPLETED"  -> {Step("BRANCH_ACCEPTANCE_PENDING", "acceptance-controller"),
                                            Step("FAILED", "acceptance-controller")} \cup StopFor("acceptance-controller")
    [] at = "BRANCH_ACCEPTANCE_PENDING" -> AcceptanceIntents
    [] OTHER                            -> {}

\* The states after which Run returns.
Returns(to) ==
  \/ to \in {"FAILED", "CANCELLED", "BRANCH_ACCEPTED", "VALIDATION_UNAVAILABLE", "HUMAN_DECISION_REQUIRED"}
  \/ to = "IMPLEMENTATION_COMPLETED" /\ profile = "bounded"

-----------------------------------------------------------------------------
RunInit ==
  /\ ledger = <<>> /\ profile \in Profiles /\ proc = "running" /\ resumed = FALSE
  /\ at = "" /\ pc = "choose" /\ intent = NoIntent /\ retried = FALSE
  /\ ctx = Live /\ faults = 0

\* Mutant of Create: a fresh attempt creates the run again.
CreatePerAttempt ==
  /\ proc = "running" /\ pc = "choose" /\ at \in {"", "RETRYING"} /\ ~resumed
  /\ ledger' = Append(ledger, CreatedEvent)
  /\ at' = "RUN_CREATED"
  /\ UNCHANGED <<profile, proc, resumed, pc, intent, retried, ctx, faults>>

\* appendCreated.
Create ==
  /\ proc = "running" /\ pc = "choose" /\ at = "" /\ ~resumed
  /\ ledger' = Append(ledger, CreatedEvent)
  /\ at' = "RUN_CREATED"
  /\ UNCHANGED <<profile, proc, resumed, pc, intent, retried, ctx, faults>>

\* resumeFromHumanDecision: the resumed process reads where the run stopped.
\* It goes on only from HUMAN_DECISION_REQUIRED with one recorded answer.
ReadPausedRun ==
  /\ proc = "running" /\ pc = "choose" /\ at = "" /\ resumed
  /\ IF CurrentState(ledger) = "HUMAN_DECISION_REQUIRED" /\ PendingAnswer # {}
     THEN at' = "HUMAN_DECISION_REQUIRED" /\ pc' = pc
     ELSE at' = at /\ pc' = "returned"
  /\ UNCHANGED <<ledger, profile, proc, resumed, intent, retried, ctx, faults>>

\* The supervised step ended, the context was looked at: the next transition
\* is decided, outside every lock.
Choose(i) ==
  /\ proc = "running" /\ pc = "choose" /\ i \in Intents
  /\ intent' = i /\ pc' = "commit"
  /\ UNCHANGED <<ledger, profile, proc, resumed, at, retried, ctx, faults>>

\* The run moved to `to`: go on, or return from Run.
MoveTo(to) ==
  /\ at' = to
  /\ pc' = IF Returns(to) THEN "returned" ELSE "choose"
  /\ intent' = NoIntent
  /\ retried' = (retried \/ to = "RETRYING")

\* The transition the lease holder appends: a typed API cancellation replaces
\* whatever was decided, and carries the operation and its request event.
\* A blocker decision is appended as it was decided.
SelectedTo == IF ctx \in Cancels /\ intent.how # "blocker" THEN "CANCELLED" ELSE intent.to

\* Mutant of SelectedEvent: the decided transition is appended as decided.
DecidedEvent ==
  IF intent.how = "blocker" THEN BlockerEvent(at, intent.to, intent.src)
  ELSE TransitionEvent(at, intent.to, intent.src, NoOp, 0)

SelectedEvent ==
  IF intent.how = "blocker" THEN BlockerEvent(at, intent.to, intent.src)
  ELSE IF ctx \in Cancels
       THEN TransitionEvent(at, "CANCELLED", intent.src, ctx, CHOOSE i \in RequestsOf(ledger, ctx) : TRUE)
       ELSE TransitionEvent(at, intent.to, intent.src, NoOp, 0)

\* Does this selection close the owner before it appends?
ClosesOwner == intent.how = "final" /\ ctx \notin Cancels

\* Mutant of MaySelect: the state is not read again under the lease.
SelectOnBelief ==
  /\ proc = "running" /\ pc = "commit" /\ ValidateTransition(at, SelectedTo)
  /\ ctx \in Cancels /\ intent.how # "blocker" => RequestsOf(ledger, ctx) # {}

\* transitionWithReservedSnapshot and appendBlockedTransition: under the
\* lease the state must still be the one decided from.
MaySelect ==
  /\ proc = "running" /\ pc = "commit"
  /\ CurrentState(ledger) = at /\ ValidateTransition(at, SelectedTo)
  /\ ctx \in Cancels /\ intent.how # "blocker" => RequestsOf(ledger, ctx) # {}

Commit ==
  /\ MaySelect /\ ~ClosesOwner
  /\ ledger' = Append(ledger, SelectedEvent)
  /\ MoveTo(SelectedTo)
  /\ UNCHANGED <<profile, proc, resumed, ctx, faults>>

\* The two halves of a successful final transition: BeginClose returned, the
\* lease is still held, then the event is appended.
Freeze ==
  /\ MaySelect /\ ClosesOwner
  /\ pc' = "frozen"
  /\ UNCHANGED <<ledger, profile, proc, resumed, at, intent, retried, ctx, faults>>

CommitFrozen ==
  /\ proc = "running" /\ pc = "frozen"
  /\ ledger' = Append(ledger, TransitionEvent(at, intent.to, intent.src, NoOp, 0))
  /\ MoveTo(intent.to)
  /\ UNCHANGED <<profile, proc, resumed, ctx, faults>>

\* A selection that fails.  Run returns the error without another transition,
\* except that a failed blocker decision becomes a plain failure.  The append
\* may have become durable before it reported the failure (durable).
CommitFails(durable) ==
  /\ proc = "running" /\ pc \in {"commit", "frozen"} /\ faults < MaxFaults
  /\ faults' = faults + 1
  /\ durable => pc = "frozen" \/ (MaySelect /\ ~ClosesOwner)
  /\ ledger' = IF ~durable THEN ledger
               ELSE Append(ledger, IF pc = "frozen" THEN TransitionEvent(at, intent.to, intent.src, NoOp, 0) ELSE SelectedEvent)
  /\ IF intent.how = "blocker"
     THEN intent' = Step("FAILED", "ralphex-adapter") /\ pc' = "commit"
     ELSE intent' = NoIntent /\ pc' = "returned"
  /\ UNCHANGED <<profile, proc, resumed, at, retried, ctx>>

\* The state moved under the runner, or the selected edge is not in the table.
CommitRefused ==
  /\ proc = "running" /\ pc = "commit" /\ ~MaySelect
  /\ IF intent.how = "blocker"
     THEN intent' = Step("FAILED", "ralphex-adapter") /\ pc' = pc
     ELSE intent' = NoIntent /\ pc' = "returned"
  /\ UNCHANGED <<ledger, profile, proc, resumed, at, retried, ctx, faults>>

\* SIGINT or SIGTERM; the first cause of a context is the one it keeps.
Signal ==
  /\ proc = "running" /\ ctx = Live
  /\ ctx' = Signalled
  /\ UNCHANGED <<ledger, profile, proc, resumed, at, pc, intent, retried, faults>>

\* Mutant of CauseAfter: a cancellation without its operation.
UntypedCause(op) == NoOp

\* The watcher's cancelCause.
CauseAfter(op) == IF ctx = Live THEN op ELSE ctx

Crash ==
  /\ proc = "running" /\ faults < MaxFaults
  /\ proc' = "crashed" /\ faults' = faults + 1
  /\ UNCHANGED <<ledger, profile, resumed, at, pc, intent, retried, ctx>>

RunnerStep ==
  \/ Create \/ ReadPausedRun
  \/ \E i \in Intents : Choose(i)
  \/ Commit \/ CommitFrozen \/ CommitRefused

\* The type of the runner and its ledger.
RunTypeOK ==
  /\ ledger \in Seq(Event) /\ profile \in Profiles
  /\ proc \in {"running", "exited", "crashed"} /\ resumed \in BOOLEAN
  /\ at \in State \cup {""} /\ pc \in {"choose", "commit", "frozen", "returned"}
  /\ intent \in Intent /\ retried \in BOOLEAN
  /\ ctx \in Cancels \cup {Live, Signalled} /\ faults \in 0..MaxFaults
=============================================================================
