----------------------------- MODULE MergeRecords -----------------------------
(***************************************************************************)
(* internal/githublifecycle: the records a merge is made of, when records  *)
(* of other attempts lie beside them.  Every constructor, and every Parse  *)
(* and Validate, which rebuild the record and compare its bytes, takes     *)
(* records by value; here whoever calls it may hand it the record of       *)
(* another write of the same authority, or of another authority.           *)
(*                                                                         *)
(* A record is the READY authority and the write it names, and what went   *)
(* into it.  A write of 0 is a record that names none.                     *)
(***************************************************************************)
EXTENDS Naturals, FiniteSets

CONSTANTS MXWrites,      \* the writes
          MXReadyOf(_)   \* the READY authority each is a write of

ASSUME MXAssumption == MXWrites \subseteq Nat \ {0}

MXReadies == {MXReadyOf(w) : w \in MXWrites}
MXNone == [ready |-> "", write |-> 0, made |-> {}]

\* A record made of others: it names what its first part names, with its write.
MXMade(w, parts) ==
  LET first == CHOOSE r \in {MXNone} \cup {parts[i] : i \in DOMAIN parts} : r = parts[1]
  IN [ready |-> first.ready, write |-> w, made |-> {<<first.ready, w>>} \cup UNION {parts[i].made : i \in DOMAIN parts}]
MXPure(ready, w) == [ready |-> ready, write |-> w, made |-> {<<ready, w>>}]
\* Records and observations of every authority and of every write lie about.
MXOfAuthority == {MXPure(a, 0) : a \in MXReadies}
MXOfWrite == {MXPure(MXReadyOf(w), w) : w \in MXWrites}

VARIABLES mxStep,  \* the last constructor that accepted
          mxHeld   \* the records the controller goes on with

mxVars == <<mxStep, mxHeld>>
MXKinds == {"authority", "recipe", "input", "final", "seal", "commitment", "sealed", "submission", "envelope", "outcome", "post", "stop", "durable"}
MXInit == mxStep = "none" /\ mxHeld = [k \in MXKinds |-> MXNone]

\* The controller of a write goes on with what names that write.
MXMine(r) == mxHeld["recipe"] = MXNone \/ r.write \in {0, mxHeld["recipe"].write}
MXHold(step, k, r) == MXMine(r) /\ mxStep' = step /\ mxHeld' = [mxHeld EXCEPT ![k] = r]
\* What a caller may hand over for a record of kind k.
MXAny(k) == {mxHeld[k]} \cup MXOfWrite

-----------------------------------------------------------------------------
(* What each constructor compares. *)

\* NewRepositoryBindingV1, NewPolicyAuthorityBindingV1: what a policy is a policy for.
MXPolicyFor(policy, ready) == policy.ready = ready.ready
\* DeriveExpectedMergeContent, verifyReadyDecision: the tree, from the accepted
\* head and the baseline of the READY decision.
MXContentOf(content, ready) == content.ready = ready.ready
\* NewReadyAuthorityBindingV1: the repository of the run's own authority.
MXRepositoryFits(repository, ready) == repository.ready = ready.ready
\* NewAuthority: READY, repository, policy, actor, head, base and content agree.
MXAuthorityAgrees(ready, policy, content) == MXPolicyFor(policy, ready) /\ MXContentOf(content, ready)

\* NewMergeInput: the recipe is the one this write derives from the authority.
MXRecipeFits(recipe, authority, w) == recipe.ready = authority.ready /\ recipe.write = w
\* ValidatePullRequest, ValidateCI, EvaluateMergePolicyV1: observations of the
\* authority's pull request and head.
MXObserved(pr, authority) == pr.ready = authority.ready

\* NewProviderCapabilityV1 in NewMergeInput: what the provider can do in this repository.
MXCapabilityFits(capability, authority) == capability.ready = authority.ready
MXSame(r, s) == r.ready = s.ready /\ r.write = s.write

\* NewCurrentReadyProofV1 in NewFinalRevalidationV1: of the authority's READY binding.
MXProofFits(proof, input) == proof.ready = input.ready

\* Mutant of MXSealFits: a revalidation of the same authority will do.
MXSealFitsReady(input, final) == final.ready = input.ready

\* NewAuthorizationSealV1: the revalidation of this input.
MXSealFits(input, final) == MXSame(final, input)
\* NewTargetRefCommitmentV1: the seal of this input.
MXCommitmentFits(input, seal) == MXSame(seal, input)
\* NewSealedMergeAuthorizationV1.
MXSealedFits(input, seal, commitment) == MXSame(seal, input) /\ MXSame(commitment, seal)
\* ValidateTargetSubmissionV1: rebuilt from the authorization, byte for byte.
MXSubmissionFits(sealed, submission) == MXSame(submission, sealed)
\* ValidateTargetResponseEnvelopeV1: the envelope of this invocation.
MXEnvelopeFits(submission, envelope) == MXSame(envelope, submission)

\* validateTargetSuccessResponse: the mutation it answers is the one submitted.
MXEchoes(response, submission) == response.write = submission.write
\* ValidateMergeResult: the attempt, the authorization, the recipe and the content.
MXResultFits(sealed, result) == MXSame(result, sealed)

\* verifyStrategy: the result's parents are the base and the head of the authority.
MXStrategyFits(sealed, result) == result.ready = sealed.ready

\* Mutant of MXNotAppliedFits: the rejection of any submission.
MXNotAppliedFitsAny(sealed, submission, envelope) == MXSubmissionFits(sealed, submission)

\* NewNotAppliedProofV1, ValidateNotAppliedProofV1: no byte was sent, or the
\* envelope of this submission holds the rejection.
MXNotAppliedFits(sealed, submission, envelope) ==
  MXSubmissionFits(sealed, submission) /\ (envelope = MXNone \/ MXEnvelopeFits(submission, envelope))

\* ValidateResultCommitObservationV1, ValidateTargetContainmentProofV1: the
\* commit of the recipe, and the target's branch.
MXObjectFits(sealed, object) == MXSame(object, sealed)
MXContainmentFits(sealed, containment) == MXSame(containment, sealed)

\* NewCancellationSubmissionProofV1: by kind, how far the attempt came.
MXSubmissionProofFits(attempt, seal, submission, outcome) ==
  /\ submission # MXNone => seal # MXNone /\ MXSame(submission, seal) /\ submission.write = attempt.write
  /\ outcome # MXNone => submission # MXNone /\ MXSame(outcome, submission)

\* Mutant of MXBoundaryFits: the attempt is not compared.
MXBoundaryFitsAny(proof, attempt, seal) == TRUE

\* validateCancellationBoundary: the attempt is one of the bound READY admission.
MXBoundaryFits(proof, attempt, seal) ==
  /\ attempt # MXNone => attempt.ready = proof.ready
  /\ seal # MXNone => attempt # MXNone /\ seal.write = attempt.write

\* validateCancellationReplayIdentityV1: the replay index entry of this authority.
MXReplayFits(authority, replay) == MXSame(replay, authority)
\* ValidateCancellationAuthorityV1, validateCancellationSubmissionExpectationV1: of
\* the READY binding and of the sealed authorization that are expected.
MXExpected(authority, ready, sealed) == authority.ready = ready.ready /\ (sealed # MXNone => MXSame(sealed, authority))

-----------------------------------------------------------------------------
(* The constructors. *)

\* NewReadyAuthorityBindingV1, NewMergePolicyV1, NewAuthority.
MXAuthority ==
  /\ mxStep = "none"
  /\ \E ready, repository, policy, content \in MXOfAuthority :
       /\ MXRepositoryFits(repository, ready) /\ MXAuthorityAgrees(ready, policy, content)
       /\ MXHold("authority", "authority", MXMade(0, <<ready, repository, policy, content>>))
\* NewMergeCommitRecipeV1.
MXRecipe ==
  /\ mxStep = "authority"
  /\ \E w \in {v \in MXWrites : MXReadyOf(v) = mxHeld["authority"].ready} : MXHold("recipe", "recipe", MXMade(w, <<mxHeld["authority"]>>))
\* NewMergeInput.
MXInput ==
  /\ mxStep = "recipe"
  /\ \E recipe \in MXAny("recipe"), pr, capability \in MXOfAuthority, authority \in {mxHeld["authority"]} \cup MXOfAuthority, w \in MXWrites :
       /\ MXRecipeFits(recipe, authority, w) /\ MXObserved(pr, authority) /\ MXCapabilityFits(capability, authority)
       /\ MXHold("input", "input", MXMade(w, <<authority, recipe, pr, capability>>))
\* NewFinalRevalidationV1, ParseCanonicalFinalRevalidationV1.
MXFinal ==
  /\ mxStep = "input"
  /\ \E input \in MXAny("input"), proof, pr \in MXOfAuthority :
       MXProofFits(proof, input) /\ MXObserved(pr, input) /\ MXHold("final", "final", MXMade(input.write, <<input, proof, pr>>))
\* NewAuthorizationSealV1, ParseCanonicalAuthorizationSealV1.
MXSeal ==
  /\ mxStep = "final"
  /\ \E input \in MXAny("input"), final \in MXAny("final") :
       MXSealFits(input, final) /\ MXHold("seal", "seal", MXMade(input.write, <<input, final>>))
\* NewTargetRefCommitmentV1, ParseCanonicalTargetRefCommitmentV1.
MXCommitment ==
  /\ mxStep = "seal"
  /\ \E input \in MXAny("input"), seal \in MXAny("seal") :
       MXCommitmentFits(input, seal) /\ MXHold("commitment", "commitment", MXMade(input.write, <<input, seal>>))
\* NewSealedMergeAuthorizationV1, ParseCanonicalSealedMergeAuthorizationV1: it
\* carries the records it is made of.
MXRetained(input, seal, commitment) == <<input, seal, commitment>>
MXSealed ==
  /\ mxStep = "commitment"
  /\ \E input \in MXAny("input"), seal \in MXAny("seal"), commitment \in MXAny("commitment") :
       MXSealedFits(input, seal, commitment) /\ MXHold("sealed", "sealed", MXMade(input.write, MXRetained(input, seal, commitment)))
\* NewTargetSubmissionV1.
MXSubmission ==
  /\ mxStep = "sealed" /\ \E sealed \in MXAny("sealed") : MXHold("submission", "submission", MXMade(sealed.write, <<sealed>>))
\* NewTargetResponseEnvelopeV1: what came back for this invocation.
MXEnvelope ==
  /\ mxStep = "submission"
  /\ \E submission \in MXAny("submission") : MXHold("envelope", "envelope", MXMade(submission.write, <<submission>>))

\* NewMergeExecutionInputV1, NewMergeExecutionResultV1, NewMergeReconciliationResult.
MXApplied ==
  /\ mxStep = "envelope"
  /\ \E sealed \in MXAny("sealed"), submission \in MXAny("submission"), envelope \in MXAny("envelope"), result, response \in MXOfWrite :
       /\ MXSubmissionFits(sealed, submission) /\ MXEnvelopeFits(submission, envelope)
       /\ MXEchoes(response, submission) /\ MXResultFits(sealed, result) /\ MXStrategyFits(sealed, result)
       /\ MXHold("applied", "outcome", MXMade(sealed.write, <<sealed, submission, envelope, result, response>>))
\* NewNotAppliedProofV1, NewMergeReconciliationResult.
MXNotApplied ==
  /\ mxStep \in {"submission", "envelope"}
  /\ \E sealed \in MXAny("sealed"), submission \in MXAny("submission"), envelope \in MXAny("envelope") :
       /\ MXNotAppliedFits(sealed, submission, envelope)
       /\ MXHold("not_applied", "outcome", MXMade(sealed.write, <<sealed, submission, envelope>>))
\* VerifyPostMerge.
MXPost ==
  /\ mxStep = "applied"
  /\ \E sealed \in MXAny("sealed"), result \in MXAny("outcome"), object, containment \in MXOfWrite :
       /\ MXResultFits(sealed, result) /\ MXObjectFits(sealed, object) /\ MXContainmentFits(sealed, containment)
       /\ MXHold("post", "post", MXMade(sealed.write, <<sealed, result, object, containment>>))
\* NewCancellationAuthorityV1.
MXStop ==
  /\ mxStep \in {"authority", "input", "submission", "envelope", "not_applied"}
  /\ \E proof \in MXOfAuthority, attempt \in MXAny("input"), seal \in MXAny("seal"), submission \in MXAny("submission"), outcome \in MXAny("outcome") :
       /\ MXSubmissionProofFits(attempt, seal, submission, outcome) /\ MXBoundaryFits(proof, attempt, seal)
       /\ MXHold("stop", "stop", MXMade(attempt.write, <<proof, attempt, seal, submission, outcome>>))
\* NewCancellationReplayIdentityV1, NewDurableCancellationAuthorityV1.
MXDurable ==
  /\ mxStep = "stop"
  /\ \E authority, replay \in MXAny("stop") :
       MXReplayFits(authority, replay) /\ MXHold("durable", "durable", MXMade(authority.write, <<authority, replay>>))
\* AuthorizeCancelledV1: what lets the run go to CANCELLED.
MXAuthorizeCancelled ==
  /\ mxStep = "durable"
  /\ \E durable \in MXAny("durable"), ready \in MXOfAuthority, sealed \in MXAny("sealed") :
       MXExpected(durable, ready, sealed) /\ MXHold("cancelled", "outcome", MXMade(durable.write, <<durable, ready, sealed>>))

MXNext ==
  \/ MXAuthority \/ MXRecipe \/ MXInput \/ MXFinal \/ MXSeal \/ MXCommitment \/ MXSealed \/ MXSubmission
  \/ MXEnvelope \/ MXApplied \/ MXNotApplied \/ MXPost \/ MXStop \/ MXDurable \/ MXAuthorizeCancelled
MXSpec == MXInit /\ [][MXNext]_mxVars

-----------------------------------------------------------------------------
MXTypeOK == \A k \in MXKinds : mxHeld[k].ready \in MXReadies \cup {""} /\ mxHeld[k].write \in MXWrites \cup {0}

\* Whatever records it is handed, no constructor accepts a record that mixes two
\* READY authorities, or two writes of one: an authorization, a submission, the
\* answer to it and a cancellation are all about one write of one run.
MXUnmixed ==
  \A k \in MXKinds : \A x, y \in mxHeld[k].made :
    x[1] = y[1] /\ (x[2] = y[2] \/ 0 \in {x[2], y[2]})

\* Every record is of one READY and of one write.
MXSound == MXTypeOK /\ MXUnmixed
=============================================================================
