---------------------------- MODULE MergeLifecycle ----------------------------
(***************************************************************************)
(* internal/mergelifecycle: the controller that takes one run from         *)
(* READY_FOR_MERGE to MERGED, FAILED or CANCELLED with at most one         *)
(* target-ref submission, whatever crashes come in between.                *)
(*                                                                         *)
(* Execute and Cancel hold the run-transition lease for the whole call, so *)
(* at most one invocation runs: pc is where it is.  Every durable write is *)
(* a step of its own, and Crash may follow any of them.  The records of    *)
(* the attempt, the counters, the channels, the ledger and the barrier     *)
(* survive a crash; pc, sel, via and disp do not.                          *)
(***************************************************************************)
EXTENDS TransitionBarrier, Naturals, FiniteSets

CONSTANTS MaxCalls,    \* provider HTTP calls of one attempt (limits.providerCalls)
          MaxRounds,   \* reconciliation rounds of one attempt
          MaxCrashes,  \* bound: crashes of the controller process
          MaxNoise     \* bound: events other runs append to the shared ledger

ASSUME MergeAssumption == {MaxCalls, MaxRounds, MaxCrashes, MaxNoise} \subseteq Nat

VARIABLES
  pc,        \* the invocation's position, "idle" when none runs
  op,        \* "execute" or "cancel"
  sel,       \* the terminal core being selected or finished
  via,       \* how its event is appended: "barrier" or "leased"
  disp,      \* the target disposition the provider just returned
  records,   \* the published records of the attempt
  outcome,   \* target-outcome.json
  reconciled,\* target-reconciliation.json
  submissions, http, calls, rounds, pending,
             \* counters.jsonl: target submissions, target HTTP reservations,
             \* provider calls, reconciliation rounds, an unaccounted call
  cores,     \* the terminal-intents channel of this run
  channels,  \* the other channels that hold an entry of this attempt
  boundary,  \* cancellation-authority.json, the draft: its boundary, ""
  seen,      \* without a draft, and the ledger it observed
  remote,    \* the provider's side of the target update
  sent,      \* target updates sent
  created,   \* result commits created
  noise,     \* events of other runs in the ledger
  crashes

memVars == <<pc, op, sel, via, disp>>
storeVars == <<records, outcome, reconciled>>
counterVars == <<submissions, http, calls, rounds, pending>>
draftVars == <<boundary, seen>>
worldVars == <<remote, sent, created>>
envVars == <<noise, crashes>>
mvars == <<barrier, ledger, memVars, storeVars, counterVars, cores, channels, draftVars, worldVars, envVars>>

Record == {"admission", "marker", "preparation", "revalidation", "seal", "sealed", "submission",
           "merge-result", "post-merge", "pending-cancellation"}
Channel == {"final-terminals", "pending-cancellations"}
Disposition == {"APPLIED", "NOT_APPLIED", "UNKNOWN"}
Boundary == {"PRE_ADMISSION", "PRE_TARGET", "ZERO_BYTES", "NOT_APPLIED", "UNKNOWN"}
\* The boundaries at which a sealed target submission exists.
Submitted == {"ZERO_BYTES", "NOT_APPLIED", "UNKNOWN"}

\* TerminalCoreV1: the destination and what it was selected for.
Core(dest, reason) == [dest |-> dest, reason |-> reason]
Cores == {Core("MERGED", "accepted")}
           \cup {Core("FAILED", r) : r \in {"before", "authority", "exhausted", "not-applied", "post-merge"}}
           \cup {Core("CANCELLED", b) : b \in Boundary}
NoCore == Core("", "")

MergeInit ==
  /\ barrier = "absent" /\ ledger = "READY_FOR_MERGE"
  /\ pc = "idle" /\ op = "execute" /\ sel = NoCore /\ via = "leased" /\ disp = "UNKNOWN"
  /\ records = {} /\ outcome = "" /\ reconciled = ""
  /\ submissions = 0 /\ http = 0 /\ calls = 0 /\ rounds = 0 /\ pending = "none"
  /\ cores = {} /\ channels = {}
  /\ boundary = "" /\ seen = 0
  /\ remote = "unsent" /\ sent = 0 /\ created = 0
  /\ noise = 0 /\ crashes = 0

-----------------------------------------------------------------------------
(* The attempt store. *)

\* attemptStore.publish of a record, and the next position.
Publish(r, next) ==
  /\ records' = records \cup {r} /\ pc' = next
  /\ UNCHANGED <<barrier, ledger, op, sel, via, disp, outcome, reconciled, counterVars, cores, channels,
                 draftVars, worldVars, envVars>>

\* The invocation moves on, or returns (next = "idle"), writing nothing.
Goto(next) ==
  /\ pc' = next
  /\ UNCHANGED <<barrier, ledger, op, sel, via, disp, storeVars, counterVars, cores, channels,
                 draftVars, worldVars, envVars>>

\* The invocation goes on to terminalize core c through w.
Select(c, w) ==
  /\ pc' = "select" /\ sel' = c /\ via' = w
  /\ UNCHANGED <<barrier, ledger, op, disp, storeVars, counterVars, cores, channels, draftVars, worldVars, envVars>>

\* providerBudget: the budget is unusable while a call is unaccounted, and
\* exhausted when every call is spent.
Unaccounted == pending = "call"
Exhausted == calls >= MaxCalls

\* reserveHTTPCall: the call is durable, and unaccounted, before transport.
ReserveCall(next) ==
  /\ calls' = calls + 1 /\ pending' = "call" /\ UNCHANGED <<submissions, http, rounds>>
  /\ pc' = next
  /\ UNCHANGED <<barrier, ledger, op, sel, via, disp, storeVars, cores, channels, draftVars, envVars>>

\* Mutant of TargetReserved: the reservation is read off the outcome record.
ReservedByOutcome == outcome # ""

\* targetHTTPReservationAudit: a target HTTP reservation was ever made.
TargetReserved == http > 0

\* Mutant of RoundsLeft: one round too many.
RoundsLeftInclusive == rounds <= MaxRounds

\* reserveReconciliation: a round of the attempt is left.
RoundsLeft == rounds < MaxRounds

\* loadLatestTargetOutcome: the reconciliation record wins.
LatestOutcome == IF reconciled # "" THEN reconciled ELSE outcome

-----------------------------------------------------------------------------
(* Cancellation authority. *)

\* The pending-cancellations channel has this attempt's cancellation.
Indexed == "pending-cancellations" \in channels

\* indexedCancellationAt, before any terminal: the indexed authority still
\* agrees with the ledger bytes it saw and with the attempt's records.
IndexedValid ==
  /\ ledger = "READY_FOR_MERGE" /\ noise = seen
  /\ \/ boundary = "PRE_ADMISSION" /\ "admission" \notin records
     \/ boundary = "PRE_TARGET" /\ "admission" \in records /\ "sealed" \notin records
     \/ boundary = "UNKNOWN" /\ LatestOutcome \in {"UNKNOWN", "NOT_APPLIED"}
     \/ boundary = "NOT_APPLIED" /\ LatestOutcome = "NOT_APPLIED"

\* cancellationBoundary, the last three boundaries: what the target records
\* say of the sealed submission; "" when APPLIED defeats the cancellation.
SubmittedBoundary ==
  IF LatestOutcome = "" THEN IF submissions = 0 THEN "ZERO_BYTES" ELSE "UNKNOWN"
  ELSE IF LatestOutcome = "APPLIED" THEN "" ELSE LatestOutcome

\* The barrier the CANCELLED event of boundary b is appended through.
CancelVia(b) == IF b \in Submitted THEN "barrier" ELSE "leased"

-----------------------------------------------------------------------------
(* The terminal protocol. *)

\* finishSelectedTerminal before the event: a CANCELLED core needs its index
\* entry and, when it has a NOT_APPLIED proof, the outcome record it came from.
MayFinish(c) == c.dest = "CANCELLED" => Indexed /\ IndexedValid

\* Mutant of FinishSelected: the event is always appended under the lease.
FinishLeased(c) ==
  /\ pc = "idle" /\ ~BarrierUnreadable /\ ledger \in {"READY_FOR_MERGE", c.dest} /\ MayFinish(c)
  /\ pc' = IF ledger = c.dest THEN "final" ELSE "event"
  /\ sel' = c /\ via' = "leased"
  /\ UNCHANGED <<barrier, ledger, op, disp, storeVars, counterVars, cores, channels, draftVars, worldVars, envVars>>

\* finishSelectedTerminal: append the predetermined event, or verify it.
FinishSelected(c) ==
  /\ pc = "idle" /\ ~BarrierUnreadable /\ ledger \in {"READY_FOR_MERGE", c.dest} /\ MayFinish(c)
  /\ pc' = IF ledger = c.dest THEN "final" ELSE "event"
  /\ sel' = c /\ via' = (IF BarrierFound THEN "barrier" ELSE "leased")
  /\ UNCHANGED <<barrier, ledger, op, disp, storeVars, counterVars, cores, channels, draftVars, worldVars, envVars>>

\* recoverTerminal: the ledger already has the terminal event of core c.
RecoverTerminal(c) ==
  /\ pc = "idle" /\ ledger = c.dest
  /\ pc' = "final" /\ sel' = c
  /\ UNCHANGED <<barrier, ledger, op, via, disp, storeVars, counterVars, cores, channels, draftVars, worldVars, envVars>>

\* terminalize: the terminal intent, the irreversible selection point.
AppendIntent ==
  /\ pc = "select"
  /\ cores' = cores \cup {sel} /\ pc' = "event"
  /\ UNCHANGED <<barrier, ledger, op, sel, via, disp, storeVars, counterVars, channels, draftVars, worldVars, envVars>>

\* terminalize: the exact event; a refused append ends the invocation.
AppendEvent ==
  /\ pc = "event"
  /\ \/ AppendOrVerify(sel.dest, via) /\ pc' = "final"
     \/ ~authorizeTransition(via) /\ pc' = "idle" /\ UNCHANGED ledgerVars
  /\ UNCHANGED <<op, sel, via, disp, storeVars, counterVars, cores, channels, draftVars, worldVars, envVars>>

\* The final-terminals channel, then the barrier.
AppendFinal ==
  /\ pc = "final" /\ channels' = channels \cup {"final-terminals"} /\ pc' = "resolve"
  /\ UNCHANGED <<barrier, ledger, op, sel, via, disp, storeVars, counterVars, cores, draftVars, worldVars, envVars>>

ResolveBarrier ==
  /\ pc = "resolve" /\ ResolveTransitionBarrier /\ pc' = "idle"
  /\ UNCHANGED <<op, sel, via, disp, storeVars, counterVars, cores, channels, draftVars, worldVars, envVars>>

\* Mutants of AuthorityFails: it selects under an active barrier; it does not
\* look for a durable selection.
AuthorityIgnoresBarrier ==
  /\ pc = "idle" /\ ledger = "READY_FOR_MERGE" /\ cores \subseteq {Core("FAILED", "authority")}
  /\ Select(Core("FAILED", "authority"), "leased")
AuthorityForgetsSelection ==
  /\ pc = "idle" /\ ledger = "READY_FOR_MERGE" /\ ~BarrierUnreadable /\ ~BarrierFound
  /\ Select(Core("FAILED", "authority"), "leased")

\* terminalizeIdentifiedAuthorityFailure, from Execute or Cancel: the run's
\* authority cannot be assembled any more.
AuthorityFails ==
  /\ pc = "idle" /\ ledger = "READY_FOR_MERGE"
  /\ ~BarrierUnreadable /\ ~BarrierFound
  /\ cores \subseteq {Core("FAILED", "authority")}
  /\ Select(Core("FAILED", "authority"), "leased")

-----------------------------------------------------------------------------
(* Execute. *)

\* recoverIndexedCancellation: an indexed authority that no longer agrees with
\* the records ends the invocation (no step); a pending one is presented.
RecoverIndexed ==
  /\ Indexed /\ IndexedValid
  /\ \/ /\ boundary = "UNKNOWN"
        /\ records' = records \cup {"pending-cancellation"} /\ pc' = "admit"
        /\ UNCHANGED <<sel, via>>
     \/ /\ boundary # "UNKNOWN" /\ ~BarrierUnreadable
        /\ pc' = "select" /\ sel' = Core("CANCELLED", boundary)
        /\ via' = IF boundary \in Submitted /\ BarrierFound THEN "barrier" ELSE "leased"
        /\ UNCHANGED records
  /\ op' = "execute"
  /\ UNCHANGED <<barrier, ledger, disp, outcome, reconciled, counterVars, cores, channels, draftVars, worldVars, envVars>>

StartAttempt ==
  /\ ~Indexed /\ pc' = "admit" /\ op' = "execute"
  /\ UNCHANGED <<barrier, ledger, sel, via, disp, storeVars, counterVars, cores, channels, draftVars, worldVars, envVars>>

Execute ==
  /\ pc = "idle"
  /\ \/ ledger # "READY_FOR_MERGE" /\ \E c \in cores : RecoverTerminal(c)
     \/ ledger = "READY_FOR_MERGE" /\ \E c \in cores : FinishSelected(c)
     \/ ledger = "READY_FOR_MERGE" /\ cores = {} /\ (RecoverIndexed \/ StartAttempt)

\* failBeforeSubmission: FAILED, appended under the lease.
FailBeforeSubmission == Select(Core("FAILED", "before"), "leased")

\* The three phases that read or prepare before the submission, the record
\* that proves each one done and the phase after it.
Phase == {"admit", "prepare", "seal"}
Done(p) == CASE p = "admit" -> "admission" [] p = "prepare" -> "preparation" [] p = "seal" -> "seal"
After(p) == CASE p = "admit" -> "prepare" [] p = "prepare" -> "seal" [] p = "seal" -> "publish-sealed"
Call(p) == CASE p = "admit" -> "observing-initial" [] p = "prepare" -> "reading-commit"
             [] p = "seal" -> "observing-final"

SkipPhase == \E p \in Phase : pc = p /\ Done(p) \in records /\ Goto(After(p))

\* observe, and the read-only half of ensureCommitPreparation: the marker found
\* by a later invocation takes the right to create the commit away.
ReadPhase ==
  \E p \in Phase :
    /\ pc = p /\ Done(p) \notin records /\ (p = "prepare" => "marker" \in records)
    /\ \/ (Unaccounted \/ Exhausted) /\ FailBeforeSubmission
       \/ ~Unaccounted /\ ~Exhausted /\ ReserveCall(Call(p)) /\ UNCHANGED worldVars

\* ensureCommitPreparation: the marker is durable before the one creation.
PublishMarker ==
  pc = "prepare" /\ {"preparation", "marker"} \cap records = {} /\ Publish("marker", "create")

CreateCommit ==
  /\ pc = "create"
  /\ \/ (Unaccounted \/ Exhausted) /\ FailBeforeSubmission
     \/ /\ ~Unaccounted /\ ~Exhausted /\ ReserveCall("creating")
        /\ created' = created + 1 /\ UNCHANGED <<remote, sent>>

\* accountHTTPCall closes the call.
Accounted == pending' = "none" /\ UNCHANGED <<submissions, http, calls, rounds>>

\* An answered read: the record it proves, or the failure of the attempt.  A
\* failed creation is read back first.
AnswerPhase ==
  /\ \/ /\ \E p \in Phase : /\ pc = Call(p)
                            /\ \/ p # "seal" /\ records' = records \cup {Done(p)} /\ pc' = After(p)
                               \/ p = "seal" /\ pc' = "revalidated" /\ UNCHANGED records
        /\ UNCHANGED <<sel, via>>
     \/ /\ pc = "creating" /\ records' = records \cup {"preparation"} /\ pc' = "seal"
        /\ UNCHANGED <<sel, via>>
     \/ /\ pc = "creating" /\ pc' = "prepare" /\ UNCHANGED <<records, sel, via>>
     \/ /\ \E p \in Phase : pc = Call(p)
        /\ pc' = "select" /\ sel' = Core("FAILED", "before") /\ via' = "leased" /\ UNCHANGED records
  /\ Accounted
  /\ UNCHANGED <<barrier, ledger, op, disp, outcome, reconciled, cores, channels, draftVars, worldVars, envVars>>

\* ensureSealedSubmission: final-revalidation.json names the observation it
\* was made of, so a second observation conflicts with an earlier one's record.
PublishRevalidation ==
  /\ pc = "revalidated"
  /\ \/ "revalidation" \notin records /\ Publish("revalidation", "publish-seal")
     \/ "revalidation" \in records /\ FailBeforeSubmission
PublishSeal == pc = "publish-seal" /\ Publish("seal", "publish-sealed")
PublishSealed == pc = "publish-sealed" /\ Publish("sealed", "install")


-----------------------------------------------------------------------------
(* The barrier and the one target submission. *)

\* What follows the barrier in Execute and in Cancel.
AfterInstall == IF op = "execute" THEN "submission" ELSE "boundary"

\* What the barrier's files leave alone.
barrierFrame == <<op, disp, storeVars, counterVars, cores, channels, draftVars, worldVars, envVars>>

\* InstallTransitionBarrier as both operations call it.
InstallBarrier ==
  \/ pc = "install" /\ BarrierFound /\ Goto(AfterInstall)
  \/ pc = "install" /\ BarrierUnreadable /\ Goto("idle")
  \/ pc = "install" /\ barrier = "torn" /\ op = "execute" /\ FailBeforeSubmission
  \/ pc = "install" /\ barrier = "torn" /\ op = "cancel" /\ Goto("idle")
  \/ pc = "install" /\ barrier = "staged" /\ Goto("link")
  \/ /\ \/ pc = "install" /\ StageBarrier /\ pc' = "link"
        \/ pc = "link" /\ LinkBarrier /\ pc' = "unlink"
        \/ pc = "unlink" /\ UnlinkStage /\ pc' = AfterInstall
     /\ UNCHANGED <<sel, via, barrierFrame>>

\* The end of ensureSealedSubmission: the submission record; a record found
\* with no HTTP reservation still owns the one submission.
EnsureSubmission ==
  /\ pc = "submission"
  /\ \/ "submission" \notin records /\ Publish("submission", "reserve")
     \/ "submission" \in records /\ Goto(IF TargetReserved THEN "recover" ELSE "reserve")

\* reserveCounter("target-submission"): a storage error fails the attempt,
\* whose event the barrier then holds back.
ReserveSubmission ==
  /\ pc = "reserve"
  /\ \/ submissions = 0 /\ FailBeforeSubmission
     \/ /\ submissions' = 1 /\ UNCHANGED <<http, calls, rounds, pending>> /\ pc' = "submit"
        /\ UNCHANGED <<barrier, ledger, op, sel, via, disp, storeVars, cores, channels, draftVars, worldVars, envVars>>

\* The provider's disposition dd is what the invocation goes on with.
Answered(dd, next) ==
  /\ disp' = dd /\ pc' = next /\ Accounted
  /\ UNCHANGED <<barrier, ledger, op, sel, via, storeVars, cores, channels, draftVars, worldVars, envVars>>

\* SubmitTarget up to the transport: it may refuse before it reserves the
\* call; targetHTTPReservationAudit lets one target call be reserved.
SubmitTarget ==
  /\ pc = "submit"
  /\ \/ Unaccounted /\ Goto("idle")
     \/ ~Unaccounted /\ Exhausted /\ Select(Core("FAILED", "exhausted"), "barrier")
     \/ ~Unaccounted /\ ~Exhausted /\ \E dd \in {"NOT_APPLIED", "UNKNOWN"} : Answered(dd, "outcome")
     \/ /\ ~Unaccounted /\ ~Exhausted
        /\ http' = 1 /\ calls' = calls + 1 /\ pending' = "call" /\ UNCHANGED <<submissions, rounds>> /\ pc' = "transport"
        /\ UNCHANGED <<barrier, ledger, op, sel, via, disp, storeVars, cores, channels, draftVars, worldVars, envVars>>

\* The transport: request bytes leave, or none do.
Transport ==
  /\ pc = "transport" /\ pc' = "response"
  /\ \/ remote' = "inflight" /\ sent' = sent + 1 /\ UNCHANGED created
     \/ UNCHANGED worldVars
  /\ UNCHANGED <<barrier, ledger, op, sel, via, disp, storeVars, counterVars, cores, channels, draftVars, envVars>>

\* The provider applies or refuses the atomic update when it gets to it.
RemoteDecides ==
  /\ remote = "inflight" /\ remote' \in {"applied", "refused"}
  /\ UNCHANGED <<barrier, ledger, memVars, storeVars, counterVars, cores, channels, draftVars, sent, created, envVars>>

\* Mutant of SubmitAnswers: a request that may have been sent counts as
\* applied without the observation of the target.
SubmitTrusts(r) ==
  CASE r \in {"applied", "inflight"} -> {"APPLIED", "UNKNOWN"} [] OTHER -> {"NOT_APPLIED", "UNKNOWN"}

\* SubmitTarget's answer: APPLIED is observed on the target, NOT_APPLIED is an
\* atomic rejection or the proof that no byte left; all else is UNKNOWN.
SubmitAnswers(r) ==
  CASE r = "applied" -> {"APPLIED", "UNKNOWN"}
    [] r = "inflight" -> {"UNKNOWN"}
    [] OTHER -> {"NOT_APPLIED", "UNKNOWN"}

Response == pc = "response" /\ \E dd \in SubmitAnswers(remote) : Answered(dd, "outcome")

\* persistTargetOutcome: the record is immutable; a different outcome, or the
\* same with other accounting, conflicts and ends the invocation.
PersistOutcome ==
  /\ pc = "outcome"
  /\ \/ /\ outcome = "" /\ outcome' = disp /\ pc' = "settle"
        /\ UNCHANGED <<barrier, ledger, op, sel, via, disp, records, reconciled, counterVars, cores, channels,
                       draftVars, worldVars, envVars>>
     \/ outcome = disp /\ Goto("settle")
     \/ outcome # "" /\ Goto("idle")

\* Mutant of Unresolved: an ambiguous submission gives its barrier back.
UnresolvedReleases ==
  /\ pc = "settle" /\ disp = "UNKNOWN" /\ pc' = "idle" /\ ResolveTransitionBarrier
  /\ UNCHANGED <<sel, via, barrierFrame>>

\* settle, UNKNOWN: the run stays READY_FOR_MERGE behind its barrier.
Unresolved == pc = "settle" /\ disp = "UNKNOWN" /\ Goto("idle")

\* settle, NOT_APPLIED: a presented cancellation wins over the failure.
SettleNotApplied ==
  /\ pc = "settle" /\ disp = "NOT_APPLIED"
  /\ \/ /\ "pending-cancellation" \in records /\ Indexed /\ IndexedValid
        /\ Select(Core("CANCELLED", boundary), "barrier")
     \/ "pending-cancellation" \in records /\ ~(Indexed /\ IndexedValid) /\ Goto("idle")
     \/ "pending-cancellation" \notin records /\ Select(Core("FAILED", "not-applied"), "barrier")

\* settle, APPLIED: the result is durable before the target is observed.
SettleApplied == pc = "settle" /\ disp = "APPLIED" /\ Publish("merge-result", "postmerge")

\* The post-merge observation, in settle and in a later executeAttempt.
PostMerge ==
  /\ pc = "postmerge"
  /\ \/ Unaccounted /\ Goto("idle")
     \/ ~Unaccounted /\ Exhausted /\ Select(Core("FAILED", "post-merge"), "barrier")
     \/ ~Unaccounted /\ ~Exhausted /\ ReserveCall("observing-merge") /\ UNCHANGED worldVars

ObservedMerge ==
  /\ pc = "observing-merge" /\ Accounted
  /\ \/ records' = records \cup {"post-merge"} /\ sel' = Core("MERGED", "accepted")
     \/ UNCHANGED records /\ sel' = Core("FAILED", "post-merge")
  /\ pc' = "select" /\ via' = "barrier"
  /\ UNCHANGED <<barrier, ledger, op, disp, outcome, reconciled, cores, channels, draftVars, worldVars, envVars>>

\* executeAttempt after an earlier submission: recoverAppliedRecords, else
\* reconcile; never a second submission.
RecoverApplied ==
  /\ pc = "recover"
  /\ \/ "post-merge" \in records /\ Select(Core("MERGED", "accepted"), "barrier")
     \/ "post-merge" \notin records /\ Goto(IF "merge-result" \in records THEN "postmerge" ELSE "reconcile")

\* reconcile: the round is durable before the budget is looked at.
Reconcile ==
  /\ pc = "reconcile"
  /\ \/ (Unaccounted \/ ~RoundsLeft) /\ Goto("idle")
     \/ /\ ~Unaccounted /\ RoundsLeft
        /\ rounds' = rounds + 1 /\ UNCHANGED <<submissions, http>>
        /\ \/ Exhausted /\ pc' = "idle" /\ UNCHANGED <<calls, pending>>
           \/ ~Exhausted /\ pc' = "reconciling" /\ calls' = calls + 1 /\ pending' = "call"
        /\ UNCHANGED <<barrier, ledger, op, sel, via, disp, storeVars, cores, channels, draftVars, worldVars, envVars>>

\* ReconcileTarget reads the target: only a settled remote gives a proof.
ReconcileAnswers(r) ==
  CASE r = "applied" -> {"APPLIED", "UNKNOWN"} [] r = "refused" -> {"NOT_APPLIED", "UNKNOWN"} [] OTHER -> {"UNKNOWN"}

Reconciled == pc = "reconciling" /\ \E dd \in ReconcileAnswers(remote) : Answered(dd, "reconciled")

PersistReconciliation ==
  /\ pc = "reconciled"
  /\ \/ disp = "UNKNOWN" /\ Goto("settle")
     \/ disp # "UNKNOWN" /\ reconciled # "" /\ Goto("idle")
     \/ /\ disp # "UNKNOWN" /\ reconciled = "" /\ reconciled' = disp /\ pc' = "settle"
        /\ UNCHANGED <<barrier, ledger, op, sel, via, disp, records, outcome, counterVars, cores, channels,
                       draftVars, worldVars, envVars>>

-----------------------------------------------------------------------------
(* Cancel. *)

\* The immutable draft, with the ledger the current-READY proof observed.
PublishDraft(b) ==
  /\ boundary' = b /\ seen' = noise /\ pc' = "index" /\ op' = "cancel"
  /\ UNCHANGED <<barrier, ledger, sel, via, disp, storeVars, counterVars, cores, channels, worldVars, envVars>>

CancelGoes(next) ==
  /\ pc' = next /\ op' = "cancel"
  /\ UNCHANGED <<barrier, ledger, sel, via, disp, storeVars, counterVars, cores, channels, draftVars, worldVars, envVars>>

\* buildCancellation: a draft is replayed as it is; without one the records
\* decide the boundary, and a sealed attempt is fenced first.
BuildCancellation ==
  \/ boundary # "" /\ CancelGoes(IF boundary \in Submitted THEN "install" ELSE "index")
  \/ boundary = "" /\ "admission" \notin records /\ PublishDraft("PRE_ADMISSION")
  \/ boundary = "" /\ "admission" \in records /\ "sealed" \notin records /\ PublishDraft("PRE_TARGET")
  \/ /\ boundary = "" /\ "sealed" \in records
     /\ records' = records \cup {"submission"} /\ pc' = "install" /\ op' = "cancel"
     /\ UNCHANGED <<barrier, ledger, sel, via, disp, outcome, reconciled, counterVars, cores, channels,
                    draftVars, worldVars, envVars>>

Cancel ==
  /\ pc = "idle"
  /\ \/ \E c \in cores : FinishSelected(c)
     \/ cores = {} /\ ledger = "READY_FOR_MERGE" /\ "pending-cancellation" \notin records /\ BuildCancellation

\* cancellationBoundary behind the barrier.
DraftSubmitted ==
  /\ pc = "boundary"
  /\ \/ boundary # "" /\ Goto("index")
     \/ boundary = "" /\ SubmittedBoundary = "" /\ Goto("idle")
     \/ boundary = "" /\ SubmittedBoundary # "" /\ PublishDraft(SubmittedBoundary)

\* The four channel appends of Cancel; the last indexes the cancellation.
IndexCancellation ==
  /\ pc = "index" /\ channels' = channels \cup {"pending-cancellations"}
  /\ \/ boundary = "UNKNOWN" /\ pc' = "present" /\ UNCHANGED <<sel, via>>
     \/ /\ boundary # "UNKNOWN" /\ pc' = "select"
        /\ sel' = Core("CANCELLED", boundary) /\ via' = CancelVia(boundary)
  /\ UNCHANGED <<barrier, ledger, op, disp, storeVars, counterVars, cores, draftVars, worldVars, envVars>>

PresentCancellation == pc = "present" /\ Publish("pending-cancellation", "idle")

-----------------------------------------------------------------------------
(* The environment. *)

\* Another run's event in the shared ledger.  A cancellation's proof holds the
\* ledger bytes it saw, so only whether one came since matters.
Noise ==
  /\ noise < MaxNoise /\ noise' = noise + 1
  /\ UNCHANGED <<barrier, ledger, memVars, storeVars, counterVars, cores, channels, draftVars, worldVars, crashes>>

\* The controller dies: its locks go, what it had in memory too.
Dies ==
  /\ pc # "idle" /\ crashes < MaxCrashes /\ crashes' = crashes + 1
  /\ pc' = "idle" /\ op' = "execute" /\ sel' = NoCore /\ via' = "leased" /\ disp' = "UNKNOWN"
  /\ UNCHANGED <<ledger, storeVars, cores, channels, draftVars, worldVars, noise>>

Crash ==
  \/ Dies /\ UNCHANGED <<barrier, counterVars>>
  \/ Unaccounted /\ Dies /\ Accounted /\ UNCHANGED barrier
  \/ pc = "install" /\ Dies /\ TearStage /\ UNCHANGED counterVars

\* The steps of a running invocation.
Terminalize == AppendIntent \/ AppendEvent \/ AppendFinal \/ ResolveBarrier
Prepare == \/ SkipPhase \/ ReadPhase \/ PublishMarker \/ CreateCommit \/ AnswerPhase
           \/ PublishRevalidation \/ PublishSeal \/ PublishSealed
Submit == \/ InstallBarrier \/ EnsureSubmission \/ ReserveSubmission \/ SubmitTarget \/ Transport \/ Response
          \/ PersistOutcome \/ Unresolved \/ SettleNotApplied \/ SettleApplied \/ PostMerge \/ ObservedMerge
          \/ RecoverApplied \/ Reconcile \/ Reconciled \/ PersistReconciliation
Cancelling == DraftSubmitted \/ IndexCancellation \/ PresentCancellation

Running == Terminalize \/ Prepare \/ Submit \/ Cancelling

Next == Execute \/ Cancel \/ AuthorityFails \/ Running \/ RemoteDecides \/ Noise \/ Crash

MergeSpec == MergeInit /\ [][Next]_mvars

\* A running invocation goes on, Execute is invoked again and again, the
\* provider answers in the end; crashes, cancellations and noise owe nothing.
MergeFairSpec == MergeSpec /\ WF_mvars(Running) /\ SF_mvars(Execute) /\ WF_mvars(RemoteDecides)

-----------------------------------------------------------------------------
Position ==
  {"idle", "select", "event", "final", "resolve", "create", "creating", "revalidated", "publish-seal",
   "publish-sealed", "install", "link", "unlink", "submission", "reserve", "submit", "transport", "response",
   "outcome", "settle", "postmerge", "observing-merge", "recover", "reconcile", "reconciling", "reconciled",
   "boundary", "index", "present", "observing-initial", "reading-commit", "observing-final"} \cup Phase

\* The types; counters.jsonl never passes a limit.
MemoryOK ==
  /\ pc \in Position /\ op \in {"execute", "cancel"} /\ sel \in Cores \cup {NoCore}
  /\ via \in {"barrier", "leased"} /\ disp \in Disposition
LedgerOK ==
  /\ barrier \in BarrierFile /\ ledger \in {"READY_FOR_MERGE", "MERGED", "FAILED", "CANCELLED"}
  /\ cores \subseteq Cores /\ channels \subseteq Channel
StoreOK == records \subseteq Record /\ outcome \in Disposition \cup {""} /\ reconciled \in Disposition \cup {""}
CountersOK ==
  /\ submissions \in 0..1 /\ http \in 0..1 /\ pending \in {"none", "call"}
  /\ calls \in Nat /\ calls <= MaxCalls /\ rounds \in Nat /\ rounds <= MaxRounds
CancelOK == boundary \in Boundary \cup {""}
WorldOK ==
  /\ remote \in {"unsent", "inflight", "applied", "refused"}
  /\ sent \in Nat /\ created \in Nat /\ seen \in Nat /\ seen <= noise
  /\ noise \in Nat /\ noise <= MaxNoise /\ crashes \in Nat /\ crashes <= MaxCrashes
\* The type of the whole controller, its store, its counters and the provider.
MergeTypeOK == MemoryOK /\ LedgerOK /\ StoreOK /\ CountersOK /\ CancelOK /\ WorldOK

(* Whatever crashes and replays, the target ref is written to and the      *)
(* result commit created at most once: executeAttempt decides from the     *)
(* HTTP reservation, ensureCommitPreparation from the marker.              *)
OneMutationEach == sent <= 1 /\ created <= 1

(* While a target call was reserved and the run is not terminal, the       *)
(* transition barrier is in place: nobody else can move the run.           *)
UnresolvedKeepsBarrier == (TargetReserved /\ ledger = "READY_FOR_MERGE") => BarrierFound

(* A MERGED event rests on an update the provider really applied and on a  *)
(* durable post-merge proof (settle, recoverAppliedRecords).               *)
MergedIsProved == ledger = "MERGED" => remote = "applied" /\ {"merge-result", "post-merge"} \subseteq records

(* A FAILED selection never hides an applied or a possible update: before  *)
(* the submission nothing was sent, after it the refusal is settled, and   *)
(* a failed post-merge acceptance keeps the applied result on record.      *)
FailureCoresAreHonest ==
  \A c \in cores : c.dest = "FAILED" =>
    /\ c.reason \in {"before", "authority", "exhausted"} => remote = "unsent"
    /\ c.reason = "not-applied" => remote \in {"unsent", "refused"}
    /\ c.reason = "post-merge" => remote = "applied" /\ "merge-result" \in records

(* terminal-intents is the irreversible selection point: a run never has   *)
(* two selections, and its terminal event is the one selected.             *)
OneSelection ==
  /\ \A c, d \in cores : c = d
  /\ ledger # "READY_FOR_MERGE" => \E c \in cores : c.dest = ledger

(* A durable MERGED or FAILED selection is carried to the ledger and the   *)
(* barrier is given back, whatever crashes come in between.                *)
SelectionFinishes ==
  (\E c \in cores : c.dest \in {"MERGED", "FAILED"}) ~>
    (\E c \in cores : ledger = c.dest /\ "final-terminals" \in channels /\ ~BarrierFound)

(* EP-005, failure matrix: with a valid result durable, "Cancellation      *)
(* cannot relabel it"; the run is never CANCELLED after APPLIED.           *)
AppliedIsNeverCancelled == "merge-result" \in records => ledger # "CANCELLED"

(* EP-005, failure matrix: any durable terminal core is finished, a        *)
(* CANCELLED one too.                                                      *)
EverySelectionFinishes == (cores # {}) ~> (\E c \in cores : ledger = c.dest)
=============================================================================
