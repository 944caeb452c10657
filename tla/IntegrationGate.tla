-------------------------- MODULE IntegrationGate --------------------------
(***************************************************************************)
(* The branch integration gate (internal/integrationgate) with what it     *)
(* calls: the risk report of the scheduler, the disposable integration     *)
(* workspace, the combined acceptance and the acceptance executor.         *)
(*                                                                         *)
(* The gate takes accepted candidates of one baseline to READY_FOR_MERGE,  *)
(* a conflict, or a failure.  Meanwhile the builders may move the source   *)
(* branches, a command under test may edit the integrated checkout, a Git  *)
(* call may fail, a file of evidence may be damaged or not be written.     *)
(*                                                                         *)
(* A commit is the sequence of candidates merged on the baseline: the      *)
(* merge commits have fixed dates and parents, so equal sequences are      *)
(* equal commits.                                                          *)
(***************************************************************************)
EXTENDS Naturals, Sequences, FiniteSets, SequencesExt

CONSTANTS IGOrder,      \* the candidates in their governed order
          IGPaths,      \* paths of the repository
          IGProtected,  \* contract-sensitive and shared-authority paths
          IGCommands,   \* the acceptance commands: class and whether required
          IGSemantic,   \* command classes whose failure is a semantic conflict
          IGFailClosed, \* command classes whose failure only closes the gate
          IGCleanupOnFailure, \* the workspace is removed even when its evidence is not kept
          IGMaxFaults   \* failed calls, damaged or unwritten evidence

\* The queue and the commands of a policy are lists.
ASSUME IGAssumption ==
    IGOrder \in Seq(ToSet(IGOrder)) /\ IGCommands \in Seq(ToSet(IGCommands)) /\ IGMaxFaults \in Nat

VARIABLES igWorld,   \* the paths each candidate changes, the textual clashes, the moved branches
          igRequest, igReport, igState, igAt,
          igMerged,  \* the queued candidates; then those merged in the current workspace
          igTextual, \* the textual result: status and commit
          igTarget,  \* the materialized checkout: commit and whether it was edited
          igRan,     \* the outcomes of the acceptance commands, in order
          igClass,   \* the classification of the combined acceptance
          igSpaces,  \* the workspaces on disk
          igRefs, igBad, \* the evidence cited so far; of it, what no longer verifies
          igFaults

igVars == <<igWorld, igRequest, igReport, igState, igAt, igMerged, igTextual, igTarget, igRan, igClass,
            igSpaces, igRefs, igBad, igFaults>>

IGCandidates == ToSet(IGOrder)

IGPairs == {p \in SUBSET IGCandidates : Cardinality(p) = 2}

IGReviews == [component : {"security", "style"}, sha : {"required", "other"}, verdict : {"clean", "major"}]

IGBlockers == [id : {"x"}, resolved : BOOLEAN]

IGExact == [order |-> IGOrder, baseline |-> "start", policy |-> "bound", blockers |-> {},
            reviews |-> {[component |-> "security", sha |-> "required", verdict |-> "clean"]}]

\* What a field of a request may be: the exact value, and others.
IGValues == [order |-> {IGOrder, Reverse(IGOrder), Tail(IGOrder)}, baseline |-> {"start", "other"},
             policy |-> {"bound", "other"}, blockers |-> {b \in SUBSET IGBlockers : Cardinality(b) <= 1},
             reviews |-> {r \in SUBSET IGReviews : Cardinality(r) <= 2}]

\* The requests: the exact one, or one with one field of its own.
IGRequests == UNION {{[IGExact EXCEPT ![f] = v] : v \in IGValues[f]} : f \in DOMAIN IGExact}

IGNoTextual == [status |-> "none", commit |-> <<>>]

IGNoTarget == [commit |-> <<>>, edited |-> FALSE]

---------------------------------------------------------------------------
(* The risk report: which candidates change the same paths. *)

\* The paths two committed final diffs share.
IGOverlap(p) == {x \in IGPaths : \A c \in p : x \in igWorld.paths[c]}

IGRiskRank == [disjoint |-> 1, overlapping |-> 2, protected |-> 3]

IGClassifyPair(p) ==
    IF IGOverlap(p) \cap IGProtected # {} THEN "protected"
    ELSE IF IGOverlap(p) = {} THEN "disjoint" ELSE "overlapping"

\* mutant: the class of the last pair stands for the report.
IGLowest(classes) == CHOOSE r \in classes : \A q \in classes : IGRiskRank[q] >= IGRiskRank[r]

\* The class of a report is the highest of its pairs.
IGHighest(classes) == CHOOSE r \in classes : \A q \in classes : IGRiskRank[q] <= IGRiskRank[r]

\* A candidate is queued once: its identity, its head and its evidence are new to the queue.
IGEnqueue(c) ==
    /\ igAt = "queueing"
    /\ c \notin ToSet(igMerged)
    /\ igMerged' = Append(igMerged, c)
    /\ UNCHANGED <<igWorld, igRequest, igReport, igState, igAt, igTextual, igTarget, igRan, igClass, igSpaces,
                   igRefs, igBad, igFaults>>

\* The queue in its total order, whatever order the candidates arrived in.
IGSnapshot == SelectSeq(IGOrder, LAMBDA c : c \in ToSet(igMerged))

\* Analyze orders the candidates and classifies every pair of committed diffs.
IGAnalyze ==
    /\ igAt = "queueing"
    /\ igMerged # <<>>
    /\ igReport' = [order |-> IGSnapshot,
                    class |-> IGHighest({"disjoint"} \cup
                                        {IGClassifyPair(p) : p \in IGPairs \cap SUBSET ToSet(IGSnapshot)})]
    /\ igMerged' = <<>>
    /\ igAt' = "idle"
    /\ UNCHANGED <<igWorld, igRequest, igState, igTextual, igTarget, igRan, igClass, igSpaces, igRefs, igBad, igFaults>>

---------------------------------------------------------------------------
(* The request. *)

IGBlockersResolved(q) == \A b \in q.blockers : b.resolved

\* mutant: a required review of any commit is enough.
IGReviewedAnyCommit(q) ==
    /\ \A r \in q.reviews : r.verdict = "clean"
    /\ \E r \in q.reviews : r.component = "security"

\* Every attestation is clean and of one component each, the required
\* component is attested at its exact commit, and nothing else is.
IGReviewed(q) ==
    /\ \A r \in q.reviews : r.verdict = "clean"
    /\ \A r, s \in q.reviews : r.component = s.component => r = s
    /\ \E r \in q.reviews : r.component = "security" /\ r.sha = "required"
    /\ {r.component : r \in q.reviews} = {"security"}

\* The candidates are exactly those of the report, of the authority's baseline and policy.
IGFits(q) ==
    /\ q.order = igReport.order
    /\ q.baseline = "start"
    /\ q.policy = "bound"

IGValid(q) == IGFits(q) /\ IGBlockersResolved(q) /\ IGReviewed(q)

---------------------------------------------------------------------------
(* Evidence and transitions. *)

IGUsable == igFaults < IGMaxFaults

\* The outcomes of a call that may fail: TRUE always, FALSE while faults are left.
IGOutcomes == {TRUE} \cup {f \in {FALSE} : IGUsable}

IGCount(ok) == igFaults' = IF ok THEN igFaults ELSE igFaults + 1

\* Every cited artifact is read again and verified before a transition.
IGVerified == igBad = {}

IGFallbackTarget ==
    IF igState = "INTEGRATING" THEN "VALIDATION_UNAVAILABLE" ELSE "FAILED"

\* The gate ends in a state.
IGEnd(state) == igState' = state /\ igAt' = "ended"

\* One decision is published without the evidence that does not verify and
\* one transition made; when that fails too the gate ends where it is.
IGFallback ==
    \/ IGEnd(IGFallbackTarget) /\ igRefs' = (igRefs \ igBad) \cup {"fallback"} /\ igBad' = {}
    \/ IGUsable /\ IGEnd(igState) /\ UNCHANGED <<igRefs, igBad>>

\* A decision is published and the transition made, or the fallback taken.
IGFinish(state, next, ok) ==
    IF IGVerified /\ ok
    THEN igState' = state /\ igAt' = next /\ igRefs' = igRefs \cup {state} /\ UNCHANGED igBad
    ELSE IGFallback

---------------------------------------------------------------------------
(* The gate. *)

\* The request is validated and its canonical form published.
IGRun(q, ok) ==
    /\ igAt = "idle"
    /\ igRequest' = IF IGValid(q) THEN q ELSE igRequest
    /\ IGCount(ok)
    /\ IF ~IGValid(q) THEN igAt' = "ended" /\ UNCHANGED <<igState, igRefs, igBad>>
       ELSE IF ok THEN igAt' = "heads" /\ igRefs' = {"input"} /\ UNCHANGED <<igState, igBad>>
       ELSE IGFallback
    /\ UNCHANGED <<igWorld, igReport, igMerged, igTextual, igTarget, igRan, igClass, igSpaces>>

\* No replacement refs, and every source branch still at its accepted head.
IGHeadsHold == igWorld.moved = {}

\* The initial check of the source heads, then the two transitions into integration.
IGInitialHeads(ok) ==
    /\ igAt = "heads"
    /\ IGCount(ok)
    /\ IF ~ok THEN IGFallback
       ELSE IF ~IGHeadsHold THEN IGFinish("FAILED", "ended", TRUE)
       ELSE IF ~IGVerified THEN IGFallback
       ELSE /\ igState' = "INTEGRATING"
            /\ igAt' = "integrate"
            /\ igRefs' = igRefs \cup {"heads-initial"}
            /\ UNCHANGED igBad
    /\ UNCHANGED <<igWorld, igRequest, igReport, igMerged, igTextual, igTarget, igRan, igClass, igSpaces>>

\* A clone in a disposable workspace, detached and clean at the exact baseline.
IGOpenWorkspace(next, ok) ==
    /\ igAt' = next
    /\ igSpaces' = igSpaces + 1
    /\ igMerged' = <<>>
    /\ IGCount(ok)

\* Without a workspace there is nothing to capture: the result is unavailable.
IGUnavailable ==
    /\ igTextual' = [status |-> "unavailable", commit |-> <<>>]
    /\ IGFinish("VALIDATION_UNAVAILABLE", "ended", TRUE)

\* Integrate verifies the objects and the candidates' ancestry and creates the workspace.
IGIntegrate(ok) ==
    /\ igAt = "integrate"
    /\ IF ok
       THEN IGOpenWorkspace("merge", TRUE) /\ UNCHANGED <<igState, igTextual, igRefs, igBad>>
       ELSE IGUnavailable /\ IGCount(FALSE) /\ UNCHANGED <<igMerged, igSpaces>>
    /\ UNCHANGED <<igWorld, igRequest, igReport, igTarget, igRan, igClass>>

\* The candidates merged so far include this one's commit already.
IGContained(c) == \E d \in ToSet(igMerged) : <<c, d>> \in igWorld.contained

\* Git leaves a merge state with unmerged paths, in the index and in the diff alike.
IGConflicts(c) == \E d \in ToSet(igMerged) : {c, d} \in igWorld.clashes

IGAllMerged == Len(igMerged) = Len(igReport.order)

\* The next candidate of the governed order.
IGNextCandidate == igReport.order[Len(igMerged) + 1]

IGFailedAt == [merge |-> "merge-failed", remerge |-> "remerge-failed"]
IGConflictAt == [merge |-> "merge-conflict", remerge |-> "remerge-conflict"]

\* One merge in order: merged with exactly two parents, already contained, in
\* conflict, or failed.
IGMerge(at, ok) ==
    /\ igAt = at
    /\ ~IGAllMerged
    /\ IGCount(ok)
    /\ LET c == IGNextCandidate
       IN IF ~ok THEN igAt' = IGFailedAt[at] /\ UNCHANGED igMerged
          ELSE IF ~IGContained(c) /\ IGConflicts(c) THEN igAt' = IGConflictAt[at] /\ UNCHANGED igMerged
          ELSE igMerged' = Append(igMerged, c) /\ UNCHANGED igAt
    /\ UNCHANGED <<igWorld, igRequest, igReport, igState, igTextual, igTarget, igRan, igClass, igSpaces, igRefs, igBad>>

\* What the merges came to: clean, a conflict or unavailable.
IGTextualStatus ==
    CASE igAt = "merge" /\ IGAllMerged -> "clean"
      [] igAt = "merge-conflict" -> "conflict"
      [] igAt = "merge-failed" -> "unavailable"
      [] OTHER -> "merging"

\* The capture is published and verified before the workspace is removed, the
\* removal is published after; the transition follows a result that is not clean.
IGCapture(kept, ok) ==
    /\ IGTextualStatus # "merging"
    /\ igFaults' = igFaults + (IF kept THEN 0 ELSE 1) + (IF ok THEN 0 ELSE 1)
    /\ igFaults' <= IGMaxFaults
    /\ igTextual' = [status |-> IF kept THEN IGTextualStatus ELSE "unavailable", commit |-> igMerged]
    /\ igSpaces' = IF kept \/ IGCleanupOnFailure THEN igSpaces - 1 ELSE igSpaces
    /\ IF kept /\ IGTextualStatus = "clean"
       THEN igAt' = "materialize" /\ igRefs' = igRefs \cup {"capture", "cleanup"} /\ UNCHANGED <<igState, igBad>>
       ELSE IGFinish(IF kept /\ IGTextualStatus = "conflict" THEN "INTEGRATION_CONFLICT"
                     ELSE "VALIDATION_UNAVAILABLE", "ended", ok)
    /\ UNCHANGED <<igWorld, igRequest, igReport, igMerged, igTarget, igRan, igClass>>

---------------------------------------------------------------------------
(* The combined acceptance of the integrated commit. *)

\* The capture and the cleanup are read back and bound to the request, and
\* the merges are made again in a second workspace.
IGMaterialize ==
    /\ igAt = "materialize"
    /\ IF igBad \cap {"capture", "cleanup"} # {}
       THEN igAt' = "unmaterialized" /\ UNCHANGED <<igSpaces, igMerged, igFaults>>
       ELSE IGOpenWorkspace("remerge", TRUE)
    /\ UNCHANGED <<igWorld, igRequest, igReport, igState, igTextual, igTarget, igRan, igClass, igRefs, igBad>>

\* The second merge must repeat the first, step by step and to the same
\* commit; the integration branch is put on it and the target observed.
IGTargetReady(ok) ==
    /\ igAt = "remerge" /\ IGAllMerged
    /\ IGCount(ok)
    /\ IF ok /\ igMerged = igTextual.commit
       THEN /\ igTarget' = [commit |-> igMerged, edited |-> FALSE]
            /\ igAt' = "accept"
            /\ igRefs' = igRefs \cup {"materialization"}
       ELSE igAt' = "unmaterialized" /\ UNCHANGED <<igTarget, igRefs>>
    /\ UNCHANGED <<igWorld, igRequest, igReport, igState, igMerged, igTextual, igRan, igClass, igSpaces, igBad>>

\* Every required class has one disposition in the policy, and only one.
IGPolicyFits ==
    /\ IGSemantic \cap IGFailClosed = {}
    /\ \A k \in DOMAIN IGCommands : IGCommands[k].required => IGCommands[k].class \in IGSemantic \cup IGFailClosed

\* The target is a clean textual integration with its evidence.
IGTargetFits == igTextual.status = "clean" /\ igBad \cap {"capture", "cleanup", "materialization"} = {}

\* The target's provenance is the request's: its candidates in order, those of the report.
IGInputsFit == IGPolicyFits /\ IGTargetFits /\ igTarget.commit = igRequest.order /\ igRequest.order = igReport.order

IGFailed(k) == IGCommands[k].required /\ igRan[k] # "succeeded"

\* The executor stops at the first required command that does not succeed.
IGStopped == \E k \in DOMAIN igRan : IGFailed(k)

\* One acceptance command runs in the checkout, and may edit it.
IGAccept(outcome, edits) ==
    /\ igAt = "accept"
    /\ Len(igRan) < Len(IGCommands) /\ ~IGStopped
    /\ IGInputsFit
    /\ igRan' = Append(igRan, outcome)
    /\ igTarget' = [igTarget EXCEPT !.edited = @ \/ edits]
    /\ igRefs' = igRefs \cup {"acceptance"}
    /\ UNCHANGED <<igWorld, igRequest, igReport, igState, igAt, igMerged, igTextual, igClass, igSpaces, igBad, igFaults>>

\* mutant: the checkout is not looked at after the commands.
IGUneditedUnseen == TRUE

\* The final Git evidence: HEAD and branch at the target's commit, nothing dirty.
IGUnedited == ~igTarget.edited

\* The target is still the commit it was materialized at, branch and HEAD, with nothing edited.
IGTargetHolds(observed) == observed /\ IGUnedited

\* The output of the commands is read back whole before anything is concluded from it.
IGOutputKept == "acceptance" \notin igBad

\* A pass needs a required command, and its evidence.
IGPassed == ~IGStopped /\ \E k \in DOMAIN IGCommands : IGCommands[k].required

\* What the acceptance shows of the integrated commit: a required check that
\* exited with an error is a semantic conflict when the policy says so.
IGClassify(observed) ==
    IF ~observed THEN "unavailable"
    ELSE IF ~IGTargetHolds(observed) THEN "fail-closed"
    ELSE IF ~IGOutputKept THEN "unavailable"
    ELSE IF ~IGStopped THEN (IF IGPassed THEN "clean" ELSE "unavailable")
    ELSE LET k == Len(igRan)
         IN IF igRan[k] # "exited" THEN "unavailable"
            ELSE IF IGCommands[k].class \in IGSemantic THEN "semantic-conflict" ELSE "fail-closed"

\* The commands are over; the target is observed again and classified.
IGEvaluate(observed) ==
    /\ igAt = "accept"
    /\ Len(igRan) = Len(IGCommands) \/ IGStopped \/ ~IGInputsFit
    /\ igClass' = IF IGInputsFit THEN IGClassify(observed) ELSE "refused"
    /\ IGCount(observed)
    /\ igAt' = "accepted"
    /\ igRefs' = igRefs \cup {"combined"}
    /\ UNCHANGED <<igWorld, igRequest, igReport, igState, igMerged, igTextual, igTarget, igRan, igSpaces, igBad>>

\* The heads are verified again and the workspace removed, whatever happened in it.
IGLeave(ok) ==
    /\ igAt \in {"accepted", "unmaterialized", "remerge-failed", "remerge-conflict"}
    /\ igSpaces' = 0
    /\ IGCount(ok)
    /\ LET good == ok /\ igAt = "accepted" /\ IGHeadsHold
           state == CASE good /\ igClass = "clean" -> "INTEGRATION_ACCEPTED"
                      [] good /\ igClass = "semantic-conflict" -> "SEMANTIC_CONFLICT"
                      [] OTHER -> "VALIDATION_UNAVAILABLE"
       IN IGFinish(state, IF state = "INTEGRATION_ACCEPTED" THEN "ready" ELSE "ended", TRUE)
    /\ UNCHANGED <<igWorld, igRequest, igReport, igMerged, igTextual, igTarget, igRan, igClass>>

\* The last check of the heads, and the transition that offers the merge.
IGReady(ok) ==
    /\ igAt = "ready"
    /\ IGCount(ok)
    /\ IF ~ok \/ ~IGVerified THEN IGFallback
       ELSE IF ~IGHeadsHold THEN IGFinish("FAILED", "ended", TRUE)
       ELSE IGFinish("READY_FOR_MERGE", "ended", TRUE)
    /\ UNCHANGED <<igWorld, igRequest, igReport, igMerged, igTextual, igTarget, igRan, igClass, igSpaces>>

---------------------------------------------------------------------------
\* A builder pushes to a source branch, or a replacement ref appears.
IGPush(c) ==
    /\ igAt # "ended" /\ c \notin igWorld.moved
    /\ igWorld' = [igWorld EXCEPT !.moved = @ \cup {c}]
    /\ UNCHANGED <<igRequest, igReport, igState, igAt, igMerged, igTextual, igTarget, igRan, igClass, igSpaces, igRefs, igBad, igFaults>>

\* An artifact on disk is damaged.
IGDamage(ref) ==
    /\ IGUsable /\ igAt # "ended"
    /\ ref \in igRefs \ igBad
    /\ igBad' = igBad \cup {ref}
    /\ igFaults' = igFaults + 1
    /\ UNCHANGED <<igWorld, igRequest, igReport, igState, igAt, igMerged, igTextual, igTarget, igRan, igClass, igSpaces, igRefs>>

\* Textual clashes are on paths both change; a contained candidate clashes with nothing.
IGInit ==
    /\ igWorld \in {w \in [paths : [IGCandidates -> (SUBSET IGPaths) \ {{}}], clashes : SUBSET IGPairs,
                           contained : {{}, {<<IGOrder[2], IGOrder[1]>>}}, moved : {{}}] :
                      /\ Cardinality(w.clashes) <= 1
                      /\ \A p \in w.clashes : \E x \in IGPaths : \A c \in p : x \in w.paths[c]}
    /\ igReport = [order |-> <<>>, class |-> "disjoint"]
    /\ igRequest = IGExact
    /\ igState = "BRANCH_ACCEPTED" /\ igAt = "queueing"
    /\ igMerged = <<>> /\ igTextual = IGNoTextual /\ igTarget = IGNoTarget
    /\ igRan = <<>> /\ igClass = "none" /\ igSpaces = 0
    /\ igRefs = {} /\ igBad = {} /\ igFaults = 0

IGNext ==
    \/ \E c \in IGCandidates : IGEnqueue(c)
    \/ IGAnalyze
    \/ \E q \in IGRequests, ok \in IGOutcomes : IGRun(q, ok)
    \/ \E ok \in IGOutcomes : IGInitialHeads(ok)
    \/ \E ok \in IGOutcomes : IGIntegrate(ok)
    \/ \E at \in {"merge", "remerge"}, ok \in IGOutcomes : IGMerge(at, ok)
    \/ \E kept, ok \in BOOLEAN : IGCapture(kept, ok)
    \/ IGMaterialize
    \/ \E ok \in IGOutcomes : IGTargetReady(ok)
    \/ \E outcome \in {"succeeded", "exited", "timed_out"}, edits \in BOOLEAN : IGAccept(outcome, edits)
    \/ \E observed \in IGOutcomes : IGEvaluate(observed)
    \/ \E ok \in IGOutcomes : IGLeave(ok)
    \/ \E ok \in IGOutcomes : IGReady(ok)
    \/ \E c \in IGCandidates : IGPush(c)
    \/ \E ref \in igRefs : IGDamage(ref)

IGSpec == IGInit /\ [][IGNext]_igVars

---------------------------------------------------------------------------
\* Each variable has its type.
IGTypeOK ==
    /\ igState \in {"BRANCH_ACCEPTED", "INTEGRATING", "INTEGRATION_CONFLICT", "VALIDATION_UNAVAILABLE",
                    "INTEGRATION_ACCEPTED", "SEMANTIC_CONFLICT", "READY_FOR_MERGE", "FAILED"}
    /\ igSpaces \in 0..2
    /\ Len(igMerged) <= Len(IGOrder)
    /\ Len(igRan) <= Len(IGCommands)
    /\ igBad \subseteq igRefs
    /\ igFaults \in 0..IGMaxFaults

\* What is offered for merge is the commit of every accepted candidate in
\* order, tested as it is: every required command succeeded on it and none
\* edited it, its required review is clean at the exact commit and no other
\* review is not, no blocker is open, and the evidence of the integration and
\* of the tests is cited.
IGReadyIsProved ==
    igState \in {"INTEGRATION_ACCEPTED", "READY_FOR_MERGE"} =>
        /\ igTarget = [commit |-> igReport.order, edited |-> FALSE]
        /\ igReport.order = igRequest.order
        /\ \A k \in DOMAIN IGCommands : IGCommands[k].required => igRan[k] = "succeeded"
        /\ [component |-> "security", sha |-> "required", verdict |-> "clean"] \in igRequest.reviews
        /\ \A r \in igRequest.reviews : r.verdict = "clean"
        /\ \A b \in igRequest.blockers : b.resolved
        /\ {"input", "heads-initial", "capture", "cleanup", "materialization", "acceptance", "combined"} \subseteq igRefs

\* A conflict is the candidates' own: a textual one lies on paths the risk
\* report did not call disjoint, a semantic one is a check that ended with an
\* error, never one that timed out, on the unedited integrated commit.
IGConflictIsReal ==
    /\ igState = "INTEGRATION_CONFLICT" => igReport.class # "disjoint" /\ igTextual.status = "conflict"
    /\ igState = "SEMANTIC_CONFLICT" =>
         /\ igTarget = [commit |-> igReport.order, edited |-> FALSE]
         /\ \E k \in DOMAIN igRan : IGCommands[k].class \in IGSemantic /\ igRan[k] = "exited"

\* A gate that returned leaves no workspace, except the one kept because its
\* evidence could not be.
IGNothingLeft ==
    igAt = "ended" => igSpaces = 0 \/ (igSpaces = 1 /\ ~IGCleanupOnFailure /\ igTextual.status = "unavailable")

\* The gate offers only what it proved, blames only what happened, and cleans up.
IGSound == IGTypeOK /\ IGReadyIsProved /\ IGConflictIsReal /\ IGNothingLeft
=============================================================================
