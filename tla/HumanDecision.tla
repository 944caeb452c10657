---------------------------- MODULE HumanDecision ----------------------------
(***************************************************************************)
(* The human-decision action on top of the cancel mailbox: a client        *)
(* answers the blocker a run paused on, the service's workers claim the    *)
(* answer, record it in the ledger under the run-transition lease, settle  *)
(* it in the journal and re-launch the run, whose new process installs the *)
(* next owner generation and resumes from the recorded answer.  Modelled   *)
(* from internal/actionapi, internal/runadmission/resume_linux.go and the  *)
(* registration in cmd/abcp.                                               *)
(***************************************************************************)
EXTENDS CancelMailbox

CONSTANT MaxGen        \* bound on the generations of the run's process

ASSUME MaxGenAssumption == MaxGen \in Nat \ {0}

VARIABLES
  ref,         \* per decision: the blocker event it answers
  ans,         \* per decision: its answer
  work         \* per decision: where the service's worker is with it

decisionVars == <<ref, ans, work>>
allVars == <<runVars, boxVars, decisionVars>>

\* "recorded" and "resuming" hold the decision-effect lease.
Stage == {"none", "queued", "claimed", "recorded", "resuming"}

DecisionInit ==
  /\ CancelInit
  /\ ref = [d \in Decisions |-> 0] /\ ans = [d \in Decisions |-> "abort"]
  /\ work = [d \in Decisions |-> "none"]

-----------------------------------------------------------------------------
\* A materialised receipt holds its decision request for ever.
Materialised(d) == status[d] \notin {"NONE", "VALIDATING", "REFUSED", "RESERVED"}
Taken(d, b) == \E e \in Decisions \ {d} : ref[e] = b /\ Materialised(e)

\* DecodeHumanDecision: b is the blocker the run is paused on, unanswered.
OpenBlocker(b) ==
  /\ b \in Blockers(ledger) /\ b = LatestTransition(ledger)
  /\ ledger[b].to = "HUMAN_DECISION_REQUIRED" /\ AnswersTo(ledger, b) = {}

\* AdmitAction for a decision, up to its receipt.
ValidateDecision(d, b, a) ==
  /\ status[d] = "NONE" /\ ~Taken(d, b) /\ OpenBlocker(b)
  /\ status' = [status EXCEPT ![d] = "VALIDATING"]
  /\ admitted' = [admitted EXCEPT ![d] = b]
  /\ ref' = [ref EXCEPT ![d] = b] /\ ans' = [ans EXCEPT ![d] = a]
  /\ UNCHANGED <<runVars, gen, owner, jseq, seq, leaseOf, watcherVars, work>>

\* CreateReceipt, bound to no owner; torn as for a cancel.
ReceiveDecision(d, torn) ==
  /\ status[d] = "VALIDATING" /\ ~Taken(d, ref[d])
  /\ IF torn
     THEN /\ faults < MaxFaults /\ faults' = faults + 1
          /\ status' = [status EXCEPT ![d] = "RESERVED"]
          /\ UNCHANGED <<jseq, seq, work>>
     ELSE /\ jseq' = jseq + 1 /\ seq' = [seq EXCEPT ![d] = jseq + 1]
          /\ status' = [status EXCEPT ![d] = "RECEIVED"]
          /\ work' = [work EXCEPT ![d] = "queued"]
          /\ UNCHANGED faults
  /\ UNCHANGED <<ledger, profile, proc, resumed, at, pc, intent, retried, ctx,
                 gen, owner, leaseOf, admitted, watcherVars, ref, ans>>

\* 409 decision_already_recorded.
RefuseDecision(d) ==
  /\ status[d] = "VALIDATING" /\ Taken(d, ref[d])
  /\ status' = [status EXCEPT ![d] = "REFUSED"]
  /\ UNCHANGED <<runVars, gen, owner, journalVars, watcherVars, decisionVars>>

\* ReplayReceipt of a reserved decision, unless another receipt took the
\* decision request meanwhile.
ReplayDecision(d) ==
  /\ status[d] = "RESERVED" /\ ~Taken(d, ref[d])
  /\ jseq' = jseq + 1 /\ seq' = [seq EXCEPT ![d] = jseq + 1]
  /\ status' = [status EXCEPT ![d] = "RECEIVED"]
  /\ work' = [work EXCEPT ![d] = "queued"]
  /\ UNCHANGED <<runVars, gen, owner, leaseOf, admitted, watcherVars, ref, ans>>

\* A retry or a status read puts an unfinished decision back on the queue.
Enqueue(d) ==
  /\ Materialised(d) /\ status[d] \notin SettledStatus /\ work[d] = "none"
  /\ work' = [work EXCEPT ![d] = "queued"]
  /\ UNCHANGED <<runVars, boxVars, ref, ans>>

-----------------------------------------------------------------------------
(* The workers.                                                            *)

SetStatus(d, s) == status' = [status EXCEPT ![d] = s]
SetWork(d, w) == work' = [work EXCEPT ![d] = w]
ServiceOnly == UNCHANGED <<gen, owner, journalVars, watcherVars, ref, ans>>

EffectLeaseFree == \A e \in Decisions : work[e] \notin {"recorded", "resuming"}

\* ProcessOperation of a received decision: claim it, or reject it when the
\* pause it answers is over.
ClaimDecision(d) ==
  /\ work[d] = "queued" /\ status[d] = "RECEIVED"
  /\ IF OpenBlocker(ref[d]) /\ SnapshotMatches(d)
     THEN SetStatus(d, "CLAIMED") /\ SetWork(d, "claimed")
     ELSE SetStatus(d, "REJECTED") /\ SetWork(d, "none")
  /\ UNCHANGED runVars /\ ServiceOnly

\* applyDecision: under the effect lease and the run-transition lease the
\* blocker is checked once more and the answer appended.
Record(d) ==
  /\ work[d] = "claimed" /\ EffectLeaseFree /\ pc # "frozen"
  /\ OpenBlocker(ref[d])
  /\ ledger' = Append(ledger, DecisionEvent(d, ref[d], ans[d]))
  /\ SetWork(d, "recorded")
  /\ UNCHANGED <<profile, proc, resumed, at, pc, intent, retried, ctx, faults, status>> /\ ServiceOnly

\* The precondition advanced, or (a fault) a lease, a lock or the append
\* failed: the operation is marked for reconciliation; the append may have
\* become durable.
RecordFails(d, durable) ==
  /\ work[d] = "claimed" /\ EffectLeaseFree
  /\ IF OpenBlocker(ref[d])
     THEN /\ faults < MaxFaults /\ faults' = faults + 1
          /\ ledger' = IF durable THEN Append(ledger, DecisionEvent(d, ref[d], ans[d])) ELSE ledger
          /\ durable => pc # "frozen"
     ELSE ~durable /\ UNCHANGED <<faults, ledger>>
  /\ SetStatus(d, "RECONCILIATION_REQUIRED") /\ SetWork(d, "queued")
  /\ UNCHANGED <<profile, proc, resumed, at, pc, intent, retried, ctx>> /\ ServiceOnly

\* AcquireDecisionEffect times out (another decision holds the effect lease),
\* or the outcome of a recorded answer cannot be appended: the worker gives up.
GiveUp(d) ==
  /\ work[d] \in {"claimed", "recorded"}
  /\ IF work[d] = "claimed" /\ ~EffectLeaseFree THEN UNCHANGED faults
     ELSE faults < MaxFaults /\ faults' = faults + 1
  /\ SetWork(d, "none")
  /\ UNCHANGED <<ledger, profile, proc, resumed, at, pc, intent, retried, ctx, status>> /\ ServiceOnly

\* Mutant of Settle: the resume hook runs before the outcome is recorded.
ResumeBeforeOutcome(d) ==
  /\ work[d] = "recorded" /\ SetWork(d, "resuming")
  /\ UNCHANGED <<runVars, status>> /\ ServiceOnly

\* The outcome of a recorded answer.
Settle(d) ==
  /\ work[d] = "recorded"
  /\ SetStatus(d, "APPLIED") /\ SetWork(d, "resuming")
  /\ UNCHANGED runVars /\ ServiceOnly

\* Mutant of ReconcileDecision: a lost claim is written off without reading the ledger.
WriteOffClaim(d) ==
  /\ work[d] = "queued" /\ EffectLeaseFree
  /\ status[d] \in {"CLAIMED", "RECONCILIATION_REQUIRED"}
  /\ SetStatus(d, "RECONCILED_NOT_APPLIED") /\ SetWork(d, "none")
  /\ UNCHANGED runVars /\ ServiceOnly

\* Mutant of ReconcileDecision: a claim found on the queue is applied once more.
ReapplyClaim(d) ==
  /\ work[d] = "queued" /\ EffectLeaseFree /\ status[d] = "CLAIMED"
  /\ ledger' = Append(ledger, DecisionEvent(d, ref[d], ans[d]))
  /\ SetWork(d, "recorded")
  /\ UNCHANGED <<profile, proc, resumed, at, pc, intent, retried, ctx, faults, status>> /\ ServiceOnly

\* reconcileDecision: a claim this worker did not make is never applied, only
\* concluded from the ledger.
ReconcileDecision(d) ==
  /\ work[d] = "queued" /\ EffectLeaseFree
  /\ \/ status[d] = "CLAIMED" /\ SetStatus(d, "RECONCILIATION_REQUIRED") /\ UNCHANGED work
     \/ /\ status[d] = "RECONCILIATION_REQUIRED"
        /\ SetStatus(d, IF \E i \in AnswersTo(ledger, ref[d]) : ledger[i].op = d
                        THEN "RECONCILED_APPLIED" ELSE "RECONCILED_NOT_APPLIED")
        /\ SetWork(d, "none")
  /\ UNCHANGED runVars /\ ServiceOnly

\* The service process dies: its queue and its workers are gone.
ServeCrash ==
  /\ faults < MaxFaults /\ faults' = faults + 1
  /\ \E d \in Decisions : work[d] # "none"
  /\ work' = [d \in Decisions |-> "none"]
  /\ UNCHANGED <<ledger, profile, proc, resumed, at, pc, intent, retried, ctx, boxVars, ref, ans>>

-----------------------------------------------------------------------------
\* ResumeRun: the run process holds the launch lock for its whole life, so a
\* launch finds it taken while the paused process has not exited.  A launched
\* process registers the next owner generation, or exits when the prior lease
\* is not RETIRED.
LaunchLockFree == proc # "running"
MayInstall == owner.state = "RETIRED"

ResumeRun(d) ==
  /\ work[d] = "resuming" /\ gen < MaxGen
  /\ SetWork(d, "none")
  /\ IF LaunchLockFree /\ MayInstall
     THEN /\ proc' = "running" /\ resumed' = TRUE /\ at' = "" /\ pc' = "choose"
          /\ intent' = NoIntent /\ retried' = FALSE /\ ctx' = Live
          /\ gen' = gen + 1 /\ owner' = [gen |-> gen + 1, state |-> "ACTIVE", drain |-> 0]
          /\ watcher' = "watching" /\ item' = NoOp /\ delivered' = {} /\ through' = FALSE
          /\ UNCHANGED <<ledger, profile, faults, journalVars, status, ref, ans>>
     ELSE UNCHANGED <<runVars, boxVars, ref, ans>>

\* Nobody looks at the bound: past it the hook is only not followed.
ResumeBeyondBound(d) ==
  /\ work[d] = "resuming" /\ gen = MaxGen
  /\ SetWork(d, "none")
  /\ UNCHANGED <<runVars, boxVars, ref, ans>>

WorkerStep(d) ==
  \/ ClaimDecision(d) \/ Record(d) \/ RecordFails(d, FALSE) \/ RecordFails(d, TRUE)
  \/ GiveUp(d) \/ Settle(d) \/ ReconcileDecision(d) \/ ResumeRun(d) \/ ResumeBeyondBound(d)

DecisionNext ==
  \/ CancelNext /\ UNCHANGED decisionVars
  \/ \E d \in Decisions :
       \/ \E b \in Blockers(ledger), a \in Answer : ValidateDecision(d, b, a)
       \/ ReceiveDecision(d, FALSE) \/ ReceiveDecision(d, TRUE) \/ RefuseDecision(d)
       \/ ReplayDecision(d) \/ Enqueue(d) \/ WorkerStep(d)
  \/ ServeCrash

DecisionSpec == DecisionInit /\ [][DecisionNext]_allVars

\* As CancelFairness, and the workers finish what is on their queue.
DecisionFairSpec ==
  /\ DecisionSpec
  /\ WF_allVars(((RunnerStep /\ UNCHANGED boxVars) \/ FreezeOwner) /\ UNCHANGED decisionVars)
  /\ WF_allVars(WatcherStep /\ UNCHANGED decisionVars)
  /\ WF_allVars(MainStep /\ UNCHANGED decisionVars)
  /\ \A d \in Decisions : WF_allVars(WorkerStep(d))

-----------------------------------------------------------------------------
\* The type of the decision service on top of the cancel mailbox.
DecisionTypeOK ==
  /\ CancelTypeOK
  /\ gen \in 1..MaxGen
  /\ ref \in [Decisions -> Nat] /\ ans \in [Decisions -> Answer] /\ work \in [Decisions -> Stage]

(* One pause has at most one recorded answer, whatever clients retry,      *)
(* workers race, the service crashes and receipts are materialised late.   *)
OneAnswerPerBlocker ==
  \A i, j \in DOMAIN ledger :
    /\ ledger[i].kind = "API_HUMAN_DECISION_RECORDED" /\ ledger[j].kind = "API_HUMAN_DECISION_RECORDED"
    /\ ledger[i].ref = ledger[j].ref
    => i = j

(* The journal's word on a decision is the ledger's: applied means its own *)
(* answer is recorded, settled otherwise means it never is, also later.    *)
DecisionOutcomesAreTrue ==
  \A d \in Decisions :
    LET recorded == \E i \in AnswersTo(ledger, ref[d]) : ledger[i].op = d /\ ledger[i].ans = ans[d]
    IN  /\ status[d] \in AppliedStatus => recorded
        /\ status[d] \in {"REJECTED", "REFUSED", "RESERVED", "RECEIVED", "RECONCILED_NOT_APPLIED"} => ~recorded

(* A run leaves HUMAN_DECISION_REQUIRED only on the word of the human:     *)
(* after an answer to that very pause was recorded, on to                  *)
(* AUTHORITY_VALIDATED only for proceed, and to FAILED only for abort.     *)
ResumeFollowsTheAnswer ==
  \A t \in Marks(ledger) : ledger[t].from = "HUMAN_DECISION_REQUIRED" /\ ledger[t].op = NoOp =>
    \E b \in Blockers(ledger) : \E i \in AnswersTo(ledger, b) :
      /\ b < i /\ i < t /\ NoMarkBetween(ledger, b, t)
      /\ ledger[t].to = (IF ledger[i].ans = "proceed" THEN "AUTHORITY_VALIDATED" ELSE "FAILED")

(* An admitted decision does not stay open: while nothing fails, the       *)
(* workers settle it one way or the other, whatever the run does meanwhile *)
(* (it may be cancelled, ended or resumed while the answer is on its way). *)
AdmittedDecisionSettles ==
  \A d \in Decisions : (status[d] = "RECEIVED") ~> (status[d] \in SettledStatus \/ faults > 0)
=============================================================================
