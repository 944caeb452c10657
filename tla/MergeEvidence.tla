---------------------------- MODULE MergeEvidence -----------------------------
(***************************************************************************)
(* internal/githublifecycle: the evidence that authorizes one merge, and   *)
(* the evidence that says what became of it, over a hub and a ledger that  *)
(* change meanwhile.  MergeLifecycle models the controller that collects   *)
(* it; here every record is made when its constructor accepts it.          *)
(*                                                                         *)
(* "B" and "H" are the base and the head the READY event binds, "R" is the *)
(* commit the recipe makes of them; "X" is anything else, and "RX" has "R" *)
(* among its ancestors.  An observation is whether what it shows satisfies *)
(* the policy, whether it was read to its last page, and when.             *)
(***************************************************************************)
EXTENDS Naturals, FiniteSetsExt

CONSTANTS MEMaxChanges, MEMaxRounds, MEMaxCalls

ASSUME MEAssumption == {MEMaxChanges, MEMaxRounds, MEMaxCalls} \subseteq Nat

MEKinds == {"pr", "runs", "statuses"}
MEStages == {"admission", "final"}
MENotRead == [ok |-> FALSE, closed |-> FALSE, time |-> 0]

VARIABLES meBase, meHead, \* the refs of the hub
          meGood,    \* what the pull request, the check runs and the statuses are now
          meReady,   \* READY_FOR_MERGE is the run's last transition
          meSeen,    \* the observations of the attempt
          meProof,   \* when the current-READY proof was taken, 0 for none
          meTime,    \* the controller's clock: one tick a read
          meStage,   \* what has been made of the attempt so far
          meRequest, meStale, \* the request on its way; an earlier one that may still arrive
          meClaim,   \* what the records say of the merge
          meCancel,  \* the boundary of the cancellation authority
          meLanded,  \* history: "R" became the base
          meFresh,   \* history: what was good when it was read after the admission
          meRounds, meChanges

meVars == <<meBase, meHead, meGood, meReady, meSeen, meProof, meTime, meStage, meRequest, meStale, meClaim, meCancel, meLanded, meFresh,
            meRounds, meChanges>>

\* NewReadyAuthorityBindingV1: the READY event, the last of its prefix of the ledger.
MEBound == meReady = TRUE /\ meBase = "B" /\ meHead = "H"
MEInit ==
  /\ MEBound /\ meGood = [k \in MEKinds |-> TRUE]
  /\ meSeen = [s \in MEStages |-> [k \in MEKinds |-> MENotRead]] /\ meProof = 0 /\ meTime = 0 /\ meStage = "admission"
  /\ meRequest = "none" /\ meStale = 0 /\ meClaim = "none" /\ meCancel = "none" /\ meLanded = FALSE /\ meFresh = {}
  /\ meRounds = 0 /\ meChanges = 0

MEKeepHub == UNCHANGED <<meBase, meHead, meGood, meReady, meLanded, meChanges>>
MEKeepEvidence == UNCHANGED <<meSeen, meProof, meTime, meFresh>>
MEKeepRequest == UNCHANGED <<meRequest, meStale, meRounds>>

-----------------------------------------------------------------------------
(* The observations. *)

\* ValidatePullRequest, NewAuthoritativePullRequestSnapshotV1: open, of the exact
\* refs, and approved; ValidateCI: the checks of the exact head.
METrue(k) == meGood[k] /\ (k = "pr" => meBase = "B" /\ meHead = "H")
\* DerivePaginationQueryV1: the sources, read one after the other.
MEOrder == <<"pr", "runs", "statuses">>
MENext1(s) == CHOOSE i \in 1..3 : meSeen[s][MEOrder[i]].time = 0 /\ \A j \in 1..(i - 1) : meSeen[s][MEOrder[j]].time # 0
MEAll(s) == \A k \in MEKinds : meSeen[s][k].time # 0

\* NewPaginationClosureV1: whether a page of the source is missing.  A page that
\* is not read can hide what is not good.
MEHonest(k) == [ok |-> METrue(k), closed |-> TRUE, time |-> meTime + 1]
MEPartial == [ok |-> TRUE, closed |-> FALSE, time |-> meTime + 1]

METakes(s, k, o) ==
  /\ meStage = s /\ ~MEAll(s) /\ k = MEOrder[MENext1(s)] /\ meTime < MEMaxCalls /\ meTime' = meTime + 1
  /\ meSeen' = [meSeen EXCEPT ![s][k] = o] /\ meFresh' = IF s = "final" /\ METrue(k) THEN meFresh \cup {k} ELSE meFresh
  /\ MEKeepRequest /\ UNCHANGED <<meBase, meHead, meGood, meReady, meLanded, meProof, meStage, meClaim, meCancel>>
MERead(s, k) == METakes(s, k, MEHonest(k)) /\ UNCHANGED meChanges
\* Evidence that its constructor must refuse: not read to the end, or an old one again.
MEBadRead(s, k) ==
  /\ meChanges < MEMaxChanges /\ meChanges' = meChanges + 1
  /\ \E o \in {MEPartial, meSeen["admission"][k]} : o.time # 0 /\ METakes(s, k, o)

\* validateCurrentReadyLedger: the bound prefix, and no later transition of the run.
MEProveReady ==
  /\ meStage \in {"admission", "final"} /\ meReady /\ meProof = 0 /\ meTime < MEMaxCalls /\ meTime' = meTime + 1 /\ meProof' = meTime + 1
  /\ meFresh' = IF MEAll("admission") THEN meFresh \cup {"ready"} ELSE meFresh
  /\ MEKeepHub /\ MEKeepRequest /\ UNCHANGED <<meSeen, meStage, meClaim, meCancel>>

-----------------------------------------------------------------------------
(* The authorization. *)

\* Mutant of MEClosed: a source is taken as it is.
MEClosedAny(s) == TRUE

\* ValidatePaginationClosureV1, validatePaginationBoundaryV1: every source to its last page.
MEClosed(s) == \A k \in MEKinds : meSeen[s][k].closed

\* EvaluateMergePolicyV1: the required checks succeeded and the reviews approve.
MEPolicy(s) == MEClosed(s) /\ \A k \in MEKinds : meSeen[s][k].ok

\* validateMergeInput, NewMergeInput: the initial observations satisfy the policy,
\* and the recipe is derived from the authority.
MEAdmit ==
  /\ meStage = "admission" /\ MEAll("admission")
  /\ IF MEPolicy("admission") THEN meStage' = "final" /\ UNCHANGED meClaim ELSE meStage' = "over" /\ meClaim' = "refused"
  /\ MEKeepHub /\ MEKeepEvidence /\ MEKeepRequest /\ UNCHANGED meCancel

MELatest(s) == Max({meSeen[s][k].time : k \in MEKinds})
MEFirst(s) == Min({meSeen[s][k].time : k \in MEKinds})

\* Mutant of MEOrdered: the final observations may be the initial ones.
MEOrderedAny == meProof # 0

\* NewFinalRevalidationV1, requireFreshFinalRequests: READY was proved after the
\* admission, and everything was read again after that.
MEOrdered == meProof > MELatest("admission") /\ MEFirst("final") > meProof

\* AuthorizationCountersV1.valid: the calls of each stage, within the limits.
MECounted == \A s \in MEStages : MEAll(s) /\ MELatest(s) <= MEMaxCalls

\* NewFinalRevalidationV1, NewAuthorizationSealV1, NewTargetRefCommitmentV1,
\* NewSealedMergeAuthorizationV1.
MESeal ==
  /\ meStage = "final" /\ MEAll("final")
  /\ IF MEOrdered /\ MECounted /\ MEPolicy("final") THEN meStage' = "sealed" /\ UNCHANGED meClaim
     ELSE meStage' = "over" /\ meClaim' = "refused"
  /\ MEKeepHub /\ MEKeepEvidence /\ MEKeepRequest /\ UNCHANGED meCancel

\* NewTargetSubmissionV1: published before a byte is sent.
MESubmit ==
  /\ meStage = "sealed" /\ meStage' = "submitted" /\ MEKeepHub /\ MEKeepEvidence /\ MEKeepRequest /\ UNCHANGED <<meClaim, meCancel>>

-----------------------------------------------------------------------------
(* The request, and what is known of it. *)

MESend ==
  /\ meStage = "submitted" /\ meRequest' = "flying" /\ meStage' = "asked"
  /\ MEKeepHub /\ MEKeepEvidence /\ UNCHANGED <<meStale, meRounds, meClaim, meCancel>>
\* NewNotAppliedProofV1 with no request bytes.
MENotSent ==
  /\ meStage = "submitted" /\ meStage' = "over" /\ meClaim' = "not_applied"
  /\ MEKeepHub /\ MEKeepEvidence /\ MEKeepRequest /\ UNCHANGED meCancel

\* updateRefs: both refs as the commitment names them, or nothing.
MEUpdates == IF meBase = "B" /\ meHead = "H" THEN meBase' = "R" /\ meLanded' = TRUE ELSE UNCHANGED <<meBase, meLanded>>
MEArrives ==
  /\ meRequest = "flying" /\ MEUpdates /\ meRequest' = (IF meBase = "B" /\ meHead = "H" THEN "landed" ELSE "rejected")
  /\ MEKeepEvidence /\ UNCHANGED <<meHead, meGood, meReady, meChanges, meStage, meStale, meRounds, meClaim, meCancel>>

\* NewMergeExecutionResultV1, ValidateMergeResult: the response echoes the submission.
MESucceeds ==
  /\ meStage = "asked" /\ meRequest = "landed" /\ meStage' = "over" /\ meClaim' = "applied"
  /\ MEKeepHub /\ MEKeepEvidence /\ MEKeepRequest /\ UNCHANGED meCancel
\* parseAtomicRejectionResponse, NewNotAppliedProofV1: an authenticated rejection.
MERejected ==
  /\ meStage = "asked" /\ meRequest = "rejected" /\ meStage' = "over" /\ meClaim' = "not_applied"
  /\ MEKeepHub /\ MEKeepEvidence /\ MEKeepRequest /\ UNCHANGED meCancel

\* Mutant of MECanRetry: a merge is a write like any other.
MECanRetryWrite == meStale = 0

\* CanRetry: never a merge.
MECanRetry == FALSE
\* NewMergeExecutionError with submitted bytes: the response is lost.
MELost ==
  /\ meStage = "asked" /\ MEKeepHub /\ MEKeepEvidence /\ UNCHANGED <<meRequest, meRounds, meClaim, meCancel>>
  /\ IF MECanRetry THEN meStage' = "submitted" /\ meStale' = 1 ELSE meStage' = "lost" /\ UNCHANGED meStale

\* NewResultCommitObservationV1, NewTargetContainmentProofV1: the target is the
\* result, or ahead of it.
MEContains == meBase \in {"R", "RX"}

\* Mutant of MEDisposition: a target without the result is one it was not applied to.
MEDispositionRead == IF MEContains THEN "applied" ELSE "not_applied"

\* NewMergeReconciliationResult: APPLIED needs the result, NOT_APPLIED a typed
\* proof that no read gives.
MEDisposition == IF MEContains THEN "applied" ELSE "unknown"
MEReconcile ==
  /\ meStage = "lost" /\ meRounds < MEMaxRounds /\ meRounds' = meRounds + 1
  /\ meClaim' = MEDisposition /\ meStage' = IF MEDisposition = "unknown" THEN "lost" ELSE "over"
  /\ MEKeepHub /\ MEKeepEvidence /\ UNCHANGED <<meRequest, meStale, meCancel>>
\* VerifyPostMerge: the result object and its containment, observed again.
MEVerify ==
  /\ meClaim = "applied" /\ MEContains /\ meClaim' = "verified"
  /\ MEKeepHub /\ MEKeepEvidence /\ MEKeepRequest /\ UNCHANGED <<meStage, meCancel>>

-----------------------------------------------------------------------------
(* The cancellation. *)

\* Mutant of MEBoundary: a request without an answer was not submitted.
MEBoundaryUnanswered ==
  CASE meStage = "admission" -> "pre_admission" [] meStage \in {"final", "asked", "lost"} -> "pre_submission" [] OTHER -> "not_applied"

\* validateCancellationBoundary, NewCancellationSubmissionProofV1: how far the
\* attempt came decides what its cancellation may say.
MEBoundary ==
  CASE meStage = "admission" -> "pre_admission" [] meStage = "final" -> "pre_submission"
    [] meStage \in {"asked", "lost"} -> "unknown" [] OTHER -> "not_applied"
\* NewCancellationAuthorityV1, NewDurableCancellationAuthorityV1: with a
\* current-READY proof; an unknown submission does not end the attempt.
MECancel ==
  /\ meCancel = "none" /\ meReady /\ meStage # "sealed" /\ meClaim \notin {"applied", "verified", "refused"}
  /\ meCancel' = MEBoundary
  /\ IF MEBoundary = "unknown" THEN UNCHANGED <<meStage, meReady>> ELSE meStage' = "over" /\ meReady' = FALSE
  /\ MEKeepEvidence /\ MEKeepRequest /\ UNCHANGED <<meBase, meHead, meGood, meLanded, meChanges, meClaim>>

-----------------------------------------------------------------------------
(* The hub and the ledger. *)

MEChange == meChanges < MEMaxChanges /\ meChanges' = meChanges + 1 /\ MEKeepEvidence /\ MEKeepRequest /\ UNCHANGED <<meStage, meClaim, meCancel>>
MEFlip(k) == MEChange /\ meGood' = [meGood EXCEPT ![k] = ~@] /\ UNCHANGED <<meBase, meHead, meReady, meLanded>>
MEPushBase ==
  /\ MEChange /\ \/ meBase' = "X"
                 \/ meBase \in {"R", "RX"} /\ meBase' = "RX"
  /\ UNCHANGED <<meHead, meGood, meReady, meLanded>>
MEPushHead == MEChange /\ meHead' = "X" /\ UNCHANGED <<meBase, meGood, meReady, meLanded>>
METransition == MEChange /\ meReady /\ meReady' = FALSE /\ UNCHANGED <<meBase, meHead, meGood, meLanded>>

MENext ==
  \/ \E s \in MEStages, k \in MEKinds : MERead(s, k) \/ MEBadRead(s, k)
  \/ MEProveReady \/ MEAdmit \/ MESeal \/ MESubmit \/ MESend \/ MENotSent \/ MEArrives \/ MESucceeds \/ MERejected \/ MELost
  \/ MEReconcile \/ MEVerify \/ MECancel \/ MEPushBase \/ MEPushHead \/ METransition
  \/ \E k \in MEKinds : MEFlip(k)
MESpec == MEInit /\ [][MENext]_meVars

-----------------------------------------------------------------------------
METypeOK ==
  /\ meBase \in {"B", "R", "RX", "X"} /\ meHead \in {"H", "X"} /\ meGood \in [MEKinds -> BOOLEAN] /\ meReady \in BOOLEAN
  /\ meStage \in {"admission", "final", "sealed", "submitted", "asked", "lost", "over"}
  /\ meRequest \in {"none", "flying", "landed", "rejected"} /\ meTime \in 0..MEMaxCalls /\ meProof \in 0..MEMaxCalls

\* What lands was READY, and its pull request, check runs and statuses were good,
\* at moments after the whole admission (NewFinalRevalidationV1).  A merge that is
\* said to be applied landed, however its response was lost; one that is said not
\* to be applied, by a proof or by the boundary of its cancellation, did not land
\* and never will (NotAppliedProofV1, CancellationAuthorityV1, CanRetry).
MESound ==
  /\ METypeOK
  /\ meLanded => meFresh = MEKinds \cup {"ready"}
  /\ meClaim \in {"applied", "verified"} => meLanded
  /\ meClaim = "not_applied" \/ meCancel \in {"pre_admission", "pre_submission", "not_applied"} =>
       ~meLanded /\ meRequest # "flying" /\ meStale = 0
=============================================================================
