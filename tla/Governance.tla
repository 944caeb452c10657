------------------------------- MODULE Governance -------------------------------
(***************************************************************************)
(* internal/governance: the controller of the A/B/C workflow (design,      *)
(* implementation, acceptance and merge) of one repository, and            *)
(* internal/workflowauthoritypg, the row its state is kept in.  Every      *)
(* operation loads the row, evaluates its checks (against git too) and     *)
(* writes the next state with a compare-and-swap on the revision.  A write *)
(* that loses the race has no effect and its operation is evaluated again, *)
(* so it is enough to keep the one evaluated write that may win: gvWrite.  *)
(* What git says may change between the evaluation and the swap; for an    *)
(* operation that does not ask git the two are one step.  An operation     *)
(* that is refused changes nothing, so the wall clock of B, whose end only *)
(* refuses operations, is left out.                                        *)
(*                                                                         *)
(* A digest stands for its record, so records are compared whole: a        *)
(* capsule is its stage, base, scope and the floor of the grant it was     *)
(* derived under; commits are numbered along one branch, and gvLog has the *)
(* path each one changed.                                                  *)
(***************************************************************************)
EXTENDS Naturals, Sequences, FiniteSets

CONSTANTS GVControllers, GVRules, GVFloors, GVFindings, GVPaths, GVPathsFor(_),
          GVMaxCommits, GVMaxReports, GVMaxLeases, GVMaxFix, GVMaxInvocations, GVMaxFaults

ASSUME GVAssumption == "none" \notin GVControllers /\ GVFloors \subseteq (SUBSET GVRules) \ {{}} /\ {GVMaxCommits, GVMaxReports, GVMaxLeases, GVMaxFix, GVMaxInvocations, GVMaxFaults} \subseteq Nat

VARIABLES gv,       \* the durable controller state
          gvWrite,  \* the evaluated write that waits for its swap
          gvRun,    \* by controller: the invocation its process runs
          gvLog,    \* the repository: the paths of its commits
          gvFixes,  \* ghost: how often each lease (its report's number) was handed to a fix batch
          gvChain,  \* ghost: the checkpoints, in the order they were accepted
          gvFaults

gvVars == <<gv, gvWrite, gvRun, gvLog, gvFixes, gvChain, gvFaults>>

GVNone == [stage |-> "none"]
GVNoLease == [report |-> 0, pre |-> 0, paths |-> {}, status |-> "none"]
GVNoCheckpoint == [kind |-> 0, cand |-> 0, cap |-> GVNone]
GVNoWrite == [by |-> "none"]
\* initialRecord: revision 1 of the row.
GVFresh == [tip |-> GVNoCheckpoint, grant |-> GVNone, bcap |-> GVNone,
            inv |-> 0, rep |-> 0, leases |-> 0, fix |-> 0, active |-> "none", review |-> GVNone, evid |-> {}, lease |-> GVNoLease, batch |-> FALSE]
GVInit ==
  /\ gv = GVFresh /\ gvWrite = GVNoWrite /\ gvRun = [c \in GVControllers |-> "idle"] /\ gvLog = <<>>
  /\ gvFixes = [r \in 1..GVMaxReports |-> 0] /\ gvChain = <<>> /\ gvFaults = 0

\* The checkpoints, in the order of ValidateCheckpointTransitionV1: 1 DESIGN_ACCEPTED,
\* 2 IMPLEMENTATION_CONVERGED, 3 ACCEPTANCE_PASSED, 4 FINAL_REVIEW_CLEAN,
\* 5 PR_PUBLISHED, 6 MERGE_AUTHORIZED, 7 POST_MERGE_ACCEPTED.
GVKinds == 1..7
GVHead == Len(gvLog)
GVChanged(from, to) == {gvLog[i] : i \in (from + 1)..to}

-----------------------------------------------------------------------------
(* The checks.                                                             *)

\* ValidateDerivationV3, through bindCapsuleRepository: the capsule is a child
\* of the last stage boundary, its scope keeps the grant's floor, and the grant
\* keeps the floor of the grant above it.
GVDerived(s, cap) ==
  /\ s.grant.stage = cap.stage /\ cap.base = s.grant.base /\ cap.floor = s.grant.floor
  /\ s.grant.floor \subseteq cap.scope /\ s.grant.up \subseteq s.grant.floor
\* bindBWorkflowState: one B capsule.
GVBindB(s, cap) == s.bcap \in {GVNone, cap}
\* ValidateCandidateV1: a commit at or after the capsule's base; C wants the
\* exact base, checked out.
GVCandidate(cap, n) ==
  /\ n \in cap.base..GVHead
  /\ cap.stage = "C" => n = cap.base /\ GVHead = n
\* validateCapsuleUsageV3: what B's operations may declare.
GVUsage(cap, operation, mutation) ==
  /\ cap.stage = "B" /\ operation \in {"implementation", "implementation_review"}
  /\ operation = "implementation" => mutation
\* validateGrantPayload: a floor is not empty.
GVGrant(stage, base, floor, up) == [stage |-> stage, base |-> base, floor |-> floor, up |-> up]
\* validateFindingEvidenceV1 and resolveFindingEvidenceV1: every blocker has
\* its evidence, for that commit and that rule, inside the capsule's scope.
GVEvidenced(s, cap, head, active) ==
  \A a \in active : a.rule \in cap.scope /\ [finding |-> a.finding, rule |-> a.rule, head |-> head] \in s.evid
\* validateReviewPayload, for B: the next report of the chain, with blockers that
\* were in the report before it under the same rule.
GVNextReport(s, cap, head, active, wants) ==
  /\ \A a, b \in active : a.finding = b.finding => a = b
  /\ GVEvidenced(s, cap, head, active)
  /\ s.review.stage = "B" => active \subseteq s.review.active
  /\ wants \subseteq active
\* Mutant of GVCleanReview: an open blocker with no fix asked for is passed.
GVCleanReviewUnasked(s, cap, cand) == s.review.stage = cap.stage /\ s.review.cap = cap /\ s.review.head = cand /\ s.review.wants = {}
\* validateCleanReviewBinding: the durable tip is of this capsule and this
\* commit, and has no blocker.
GVCleanReview(s, cap, cand) == s.review.stage = cap.stage /\ s.review.cap = cap /\ s.review.head = cand /\ s.review.active = {} /\ s.review.wants = {}

\* validateDeterministicAcceptancePayloadV1: a clean checkout of the candidate
\* passed every check.
GVAcceptance(cap) == GVHead = cap.base
\* issueMutationLease: the correction paths of the rules whose fixes are asked for.
GVLeasePaths(wants) == UNION {GVPathsFor(a.rule) : a \in wants}
\* validateReceiptPayload: something changed since the report, all of it inside the lease.
GVReceipt(l) == GVHead > l.pre /\ GVChanged(l.pre, GVHead) \subseteq l.paths
\* ValidateExecutionStateV1: another invocation fits B's bounds.
GVWithinBounds(s) == s.inv < GVMaxInvocations /\ s.rep <= GVMaxReports /\ s.leases <= GVMaxLeases /\ s.fix <= GVMaxFix

\* withState, up to the swap.
GVPropose(s) == gvWrite' = [by |-> "git", state |-> s] /\ UNCHANGED <<gv, gvRun, gvLog, gvFixes, gvChain, gvFaults>>
\* withState of an operation that asks nothing of git: evaluated and written.
GVWritten(s) == gv' = s /\ UNCHANGED <<gvWrite, gvLog, gvChain>>
\* CompareAndSwapWorkflowStateV1's answer.  An ambiguous one is settled by
\* reading the row back; when that fails too, the caller is told that nothing
\* happened, whatever did.
GVAnswer(answered) == IF answered THEN UNCHANGED gvFaults ELSE gvFaults < GVMaxFaults /\ gvFaults' = gvFaults + 1
GVMay == gvWrite = GVNoWrite

-----------------------------------------------------------------------------
(* Checkpoints.                                                            *)

GVTip(s, kind, cand, cap) == [s EXCEPT !.tip = [kind |-> kind, cand |-> cand, cap |-> cap]]
\* AdvanceCheckpointV1 of DESIGN_ACCEPTED, with the B grant.
GVDesign(floor) ==
  LET cap == [stage |-> "A", base |-> 0, floor |-> {}, scope |-> GVRules] IN
  /\ GVMay /\ gv.tip.kind = 0 /\ \E cand \in 0..GVHead : GVCandidate(cap, cand)
  /\ GVPropose([GVTip(gv, 1, GVHead, cap) EXCEPT !.grant = GVGrant("B", GVHead, floor, {})])
\* Mutant of GVConverge: a lease that was not completed does not matter.
GVConvergeUnfinished(cap, cand, floor) ==
  /\ GVMay /\ gv.tip.kind = 1 /\ GVDerived(gv, cap) /\ cap.stage = "B" /\ GVBindB(gv, cap) /\ GVCandidate(cap, cand)
  /\ GVCleanReview(gv, cap, cand) /\ gv.grant.floor \subseteq floor
  /\ GVPropose([GVTip(gv, 2, cand, cap) EXCEPT !.grant = GVGrant("C", cand, floor, gv.grant.floor)])
\* IMPLEMENTATION_CONVERGED: over the durable review, with no lease unfinished,
\* and the C grant, which keeps B's floor.
GVConverge(cap, cand, floor) ==
  /\ GVMay /\ gv.tip.kind = 1 /\ GVDerived(gv, cap) /\ cap.stage = "B" /\ GVBindB(gv, cap) /\ GVCandidate(cap, cand)
  /\ gv.lease.status \in {"none", "CONSUMED"}
  /\ GVCleanReview(gv, cap, cand) /\ gv.grant.floor \subseteq floor /\ floor \subseteq cap.scope
  /\ GVPropose([GVTip(gv, 2, cand, cap) EXCEPT !.grant = GVGrant("C", cand, floor, gv.grant.floor)])
\* ACCEPTANCE_PASSED: the result is of the commit that is checked out, under
\* the durable C grant.
GVAccept(cap) ==
  /\ GVMay /\ gv.tip.kind = 2 /\ cap.stage = "C" /\ GVDerived(gv, cap) /\ GVCandidate(cap, cap.base) /\ cap.base = gv.tip.cand /\ GVAcceptance(cap)
  /\ GVPropose(GVTip(gv, 3, cap.base, cap))
\* FINAL_REVIEW_CLEAN: over C's own durable review.
GVFinal ==
  LET cap == gv.tip.cap IN
  /\ GVMay /\ gv.tip.kind = 3 /\ GVDerived(gv, cap) /\ GVCandidate(cap, gv.tip.cand)
  /\ GVCleanReview(gv, cap, gv.tip.cand) /\ gv.grant.floor \subseteq gv.review.cap.scope
  /\ GVPropose(GVTip(gv, 4, gv.tip.cand, cap))
\* PR_PUBLISHED, MERGE_AUTHORIZED and POST_MERGE_ACCEPTED, in turn, with the
\* pull request's identity (validateLifecycle).
GVPublish ==
  /\ GVMay /\ gv.tip.kind \in 4..6 /\ GVDerived(gv, gv.tip.cap) /\ GVCandidate(gv.tip.cap, gv.tip.cand)
  /\ GVPropose(GVTip(gv, gv.tip.kind + 1, gv.tip.cand, gv.tip.cap))

-----------------------------------------------------------------------------
(* Reviews, leases and receipts.                                           *)

\* RecordFindingEvidenceV1: of the commit that is checked out.  No later report
\* is of an earlier commit, so the records of those are left out.
GVRecordEvidence(cap, finding, rule) ==
  LET e == [finding |-> finding, rule |-> rule, head |-> GVHead] IN
  /\ GVMay /\ cap.stage = "B" /\ GVDerived(gv, cap) /\ GVCandidate(cap, GVHead) /\ rule \in cap.scope /\ e \notin gv.evid
  /\ GVPropose([gv EXCEPT !.evid = {x \in @ : x.head = GVHead} \cup {e}])
GVReport(s, cap, active, wants) == [s EXCEPT !.review = [stage |-> cap.stage, cap |-> cap, head |-> GVHead, active |-> active, wants |-> wants]]
\* AdvanceReviewTipV1, for B.
GVReview(cap, active, wants) ==
  /\ GVMay /\ cap.stage = "B" /\ GVDerived(gv, cap) /\ GVBindB(gv, cap) /\ GVCandidate(cap, GVHead)
  /\ GVNextReport(gv, cap, GVHead, active, wants) /\ gv.rep < GVMaxReports
  /\ GVPropose([GVReport(gv, cap, active, wants) EXCEPT !.rep = @ + 1, !.bcap = cap])
\* AdvanceReviewTipV1, for C: one clean report, after the acceptance.
GVReviewC ==
  LET cap == gv.tip.cap IN
  /\ GVMay /\ gv.tip.kind = 3 /\ GVDerived(gv, cap) /\ GVCandidate(cap, GVHead) /\ gv.review.stage # "C"
  /\ GVPropose(GVReport(gv, cap, {}, {}))
\* ControllerV1.IssueMutationLeaseV1: one per report, over the paths of the
\* rules whose fixes the report asks for.
GVIssue ==
  LET r == gv.review
      paths == GVLeasePaths(r.wants)
  IN  /\ GVMay /\ r.stage = "B" /\ GVDerived(gv, r.cap) /\ GVBindB(gv, r.cap) /\ r.wants # {} /\ paths # {}
      /\ gv.lease.status \in {"none", "CONSUMED"} /\ gv.lease.report # gv.rep /\ gv.leases < GVMaxLeases
      /\ GVWritten([gv EXCEPT !.lease = [report |-> gv.rep, pre |-> r.head, paths |-> paths, status |-> "ISSUED"], !.leases = @ + 1])
      /\ UNCHANGED <<gvRun, gvFixes, gvFaults>>
\* BeginMutationLeaseV1.
GVBegin ==
  /\ GVMay /\ gv.lease.status = "ISSUED"
  /\ GVWritten([gv EXCEPT !.lease.status = "CONSUMING"]) /\ UNCHANGED <<gvRun, gvFixes, gvFaults>>
\* Mutant of GVMayFix: a lease serves every batch until its receipt.
GVMayFixAgain == gv.lease.status = "CONSUMING" /\ gv.fix < GVMaxFix
\* ReserveRalphexInvocationV1: a fix batch needs the lease, once.
GVMayFix == gv.lease.status = "CONSUMING" /\ gv.fix < GVMaxFix /\ ~gv.batch
\* Mutant of GVNoneInFlight: an invocation of another process is not looked at.
GVNoneInFlightHere(c) == gv.active # c
GVNoneInFlight(c) == gv.active = "none"
\* ReserveRalphexInvocationV1: the caller runs its builder when it has its token.
GVReserve(c, cap, operation, mutation, answered) ==
  LET fix == operation = "implementation_review" /\ mutation IN
  /\ GVMay /\ gvRun[c] = "idle" /\ GVUsage(cap, operation, mutation) /\ GVDerived(gv, cap) /\ GVBindB(gv, cap)
  /\ operation = "implementation" => gv.review = GVNone /\ gv.lease = GVNoLease
  /\ GVNoneInFlight(c) /\ GVWithinBounds(gv) /\ (fix => GVMayFix)
  /\ GVWritten([gv EXCEPT !.active = c, !.inv = @ + 1, !.bcap = cap, !.fix = IF fix THEN @ + 1 ELSE @, !.batch = @ \/ fix])
  /\ GVAnswer(answered)
  /\ gvFixes' = IF fix THEN [gvFixes EXCEPT ![gv.lease.report] = @ + 1] ELSE gvFixes
  /\ gvRun' = IF answered THEN [gvRun EXCEPT ![c] = IF fix THEN "fix" ELSE IF mutation THEN "build" ELSE "read"] ELSE gvRun
\* FinishRalphexInvocationV1, with the token that the caller holds; its builder
\* has ended.
GVFinish(c) ==
  /\ GVMay /\ gvRun[c] # "idle" /\ gv.active = c
  /\ GVWritten([gv EXCEPT !.active = "none"]) /\ gvRun' = [gvRun EXCEPT ![c] = "idle"] /\ UNCHANGED <<gvFixes, gvFaults>>
\* CompleteMutationReceiptV1, with ValidateMutationCandidateV1: what changed
\* since the report is inside the lease.
GVComplete ==
  LET l == gv.lease IN
  /\ GVMay /\ l.status = "CONSUMING" /\ gv.batch /\ gv.review.stage = "B" /\ GVDerived(gv, gv.review.cap)
  /\ GVReceipt(l)
  /\ GVPropose([gv EXCEPT !.lease.status = "CONSUMED", !.batch = FALSE])

-----------------------------------------------------------------------------
(* The swap, the processes and the builder.                                *)

\* CompareAndSwapWorkflowStateV1: the row is as it was read.
GVSwap ==
  LET s == gvWrite.state IN
  /\ gvWrite # GVNoWrite /\ gv' = s /\ gvWrite' = GVNoWrite
  /\ gvChain' = IF s.tip = gv.tip THEN gvChain ELSE Append(gvChain, [cp |-> s.tip, grant |-> s.grant, review |-> gv.review, lease |-> gv.lease.status])
  /\ UNCHANGED <<gvRun, gvLog, gvFixes, gvFaults>>
\* Another operation won the swap, or the row could not be reached.
GVLose == gvWrite # GVNoWrite /\ gvWrite' = GVNoWrite /\ UNCHANGED <<gv, gvRun, gvLog, gvFixes, gvChain, gvFaults>>
\* A process dies: its invocation stays in flight in the row.
GVDie(c) ==
  /\ gvRun[c] # "idle" /\ gvFaults < GVMaxFaults /\ gvFaults' = gvFaults + 1
  /\ gvRun' = [gvRun EXCEPT ![c] = "idle"] /\ UNCHANGED <<gv, gvWrite, gvLog, gvFixes, gvChain>>
\* The builder of an invocation that may mutate makes a commit.
GVBuild(c, path) ==
  /\ gvRun[c] \in {"build", "fix"} /\ Len(gvLog) < GVMaxCommits
  /\ gvLog' = Append(gvLog, path) /\ UNCHANGED <<gv, gvWrite, gvRun, gvFixes, gvChain, gvFaults>>
\* ValidatePhaseAuthorityV3: the capsules there can be of a stage, under the grant.
GVCaps(stage) == {[stage |-> stage, base |-> gv.grant.base, floor |-> gv.grant.floor, scope |-> x] : x \in IF gv.grant = GVNone THEN {} ELSE SUBSET GVRules}
GVBlockers == [finding : GVFindings, rule : GVRules]
GVNext ==
  \/ \E floor \in GVFloors : GVDesign(floor)
  \/ \E cap \in GVCaps("B"), cand \in 0..GVHead, floor \in GVFloors : GVConverge(cap, cand, floor)
  \/ \E cap \in GVCaps("C") : GVAccept(cap)
  \/ GVFinal \/ GVPublish
  \/ \E cap \in GVCaps("B"), f \in GVFindings, r \in GVRules : GVRecordEvidence(cap, f, r)
  \/ \E cap \in GVCaps("B"), active \in SUBSET GVBlockers, wants \in SUBSET GVBlockers : GVReview(cap, active, wants)
  \/ GVReviewC \/ GVIssue \/ GVBegin \/ GVComplete
  \/ \E c \in GVControllers :
       \/ \E cap \in GVCaps("B"), op \in {"implementation", "implementation_review"}, m, answered \in BOOLEAN : GVReserve(c, cap, op, m, answered)
       \/ \E p \in GVPaths : GVBuild(c, p)
       \/ GVFinish(c) \/ GVDie(c)
  \/ GVSwap \/ GVLose

GVSpec == GVInit /\ [][GVNext]_gvVars

-----------------------------------------------------------------------------
GVTypeOK ==
  /\ gv.tip.kind \in 0..7 /\ gv.tip.cand \in 0..GVMaxCommits /\ gv.active \in GVControllers \cup {"none"}
  /\ gv.inv <= GVMaxInvocations /\ gv.rep <= GVMaxReports /\ gv.leases <= GVMaxLeases /\ gv.fix <= GVMaxFix
  /\ gvWrite.by \in {"none", "git"} /\ gvRun \in [GVControllers -> {"idle", "read", "build", "fix"}] /\ gvFaults \in 0..GVMaxFaults

\* At most one process runs an invocation, and it is the one the row names.
GVOneInvocation == \A c \in GVControllers : gvRun[c] # "idle" => gv.active = c
\* A lease is handed to one fix batch, however often its process dies or an
\* answer is lost.
GVLeaseOnce == \A r \in 1..GVMaxReports : gvFixes[r] <= 1
\* The checkpoint of number n in the chain: what was converged is what a clean
\* B review saw, with every lease completed; all that follows is of the same
\* commit; and the final review looked at every rule that the design demanded.
GVChainIsProven ==
  \A n \in 2..Len(gvChain) :
    LET e == gvChain[n] IN
    /\ e.cp.kind = n /\ e.cp.cand = gvChain[2].cp.cand
    /\ n = 2 => e.review.active = {} /\ e.review.head = e.cp.cand /\ e.lease \in {"none", "CONSUMED"}
    /\ n = 4 => e.review.head = e.cp.cand /\ gvChain[1].grant.floor \subseteq e.review.cap.scope
\* The governance ledger: one invocation, one fix per lease, a chain that is proven.
GVSound == GVTypeOK /\ GVOneInvocation /\ GVLeaseOnce /\ GVChainIsProven
=============================================================================
