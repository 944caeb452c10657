---------------------------- MODULE GatesProofs -----------------------------
(***************************************************************************)
(* Proofs about what stands between a run's steps, each for every value of *)
(* its constants: RunHistory, Governance, Recovery and IntegrationGate.    *)
(*                                                                         *)
(* History: the table of transitions has one way into each milestone, so   *)
(* what a state implies of the states before it is inductive.              *)
(*                                                                         *)
(* Governance: a write was evaluated against the row it replaces, so what  *)
(* GVProposed says of the two when it was evaluated is still true when it  *)
(* is swapped in, whatever git and the processes did in between. The chain *)
(* is then proven link by link.                                            *)
(*                                                                         *)
(* Recovery: no lock is held. An id is used once, so nobody rewrites the   *)
(* snapshot a command published; a dead owner stays dead; and the worktree *)
(* can be removed once, so one command gets past the removal.              *)
(*                                                                         *)
(* The integration gate: the report names the order, the head and the      *)
(* evidence the workspace has, and every way out of it but the acceptance  *)
(* takes the workspace away or keeps it as a conflict's own.               *)
(***************************************************************************)
EXTENDS RunHistory, Governance, Recovery, IntegrationGate, FiniteSetTheorems, SequenceTheorems, TLAPS

-----------------------------------------------------------------------------
(* RunHistory: no run skips a gate. *)

\* The states behind each acceptance.
Unvalidated == {"", "RUN_CREATED", "FAILED", "CANCELLED"}
Merging == {"MERGED", "PRODUCTION_ACCEPTANCE_PENDING", "PRODUCTION_ACCEPTED", "COMPLETED"}
Ready == Merging \cup {"READY_FOR_MERGE"}
Integrated == Ready \cup {"INTEGRATION_ACCEPTED"}
Accepted == Integrated \cup {"BRANCH_ACCEPTED", "INTEGRATION_PENDING", "INTEGRATING",
                             "INTEGRATION_CONFLICT", "SEMANTIC_CONFLICT"}

\* The milestones m behind state s.
Behind(s, m) ==
  /\ s \notin Unvalidated => "AUTHORITY_VALIDATED" \in m
  /\ s \in Accepted => "BRANCH_ACCEPTED" \in m
  /\ s \in Integrated => "INTEGRATION_ACCEPTED" \in m
  /\ s \in Ready => "READY_FOR_MERGE" \in m
  /\ s \in Merging => "MERGED" \in m

\* The inductive invariant.
HistoryInv ==
  /\ TypeOK
  /\ Behind(state, milestones)
  /\ "MERGED" \in milestones =>
       {"AUTHORITY_VALIDATED", "BRANCH_ACCEPTED", "INTEGRATION_ACCEPTED", "READY_FOR_MERGE"} \subseteq milestones

\* An edge enters a group from inside it, or at the group's milestone.
EdgesKeep(from, to) ==
  /\ to \notin Unvalidated => (from \notin Unvalidated \/ to = "AUTHORITY_VALIDATED")
  /\ to \in Accepted => (from \in Accepted \/ to = "BRANCH_ACCEPTED")
  /\ to \in Integrated => (from \in Integrated \/ to = "INTEGRATION_ACCEPTED")
  /\ to \in Ready => (from \in Ready \/ to = "READY_FOR_MERGE")
  /\ to \in Merging => (from \in Merging \/ to = "MERGED")
  /\ to = "MERGED" => from = "READY_FOR_MERGE"

(* Every edge allowedTransitions lists respects the groups: for example    *)
(* READY_FOR_MERGE follows INTEGRATION_ACCEPTED only.                      *)
LEMMA TableKeepsGroups ==
  ASSUME NEW from, NEW to, ValidateTransition(from, to)
  PROVE  EdgesKeep(from, to)
<1>1. CASE from = "RUN_CREATED"
  BY <1>1 DEF ValidateTransition, Successors, Stop, EdgesKeep, Unvalidated, Merging, Ready, Integrated, Accepted
<1>2. CASE from = "AUTHORITY_VALIDATED"
  BY <1>2 DEF ValidateTransition, Successors, Stop, EdgesKeep, Unvalidated, Merging, Ready, Integrated, Accepted
<1>3. CASE from = "EXECUTION_STARTING"
  BY <1>3 DEF ValidateTransition, Successors, Stop, EdgesKeep, Unvalidated, Merging, Ready, Integrated, Accepted
<1>4. CASE from = "IMPLEMENTING"
  BY <1>4 DEF ValidateTransition, Successors, Stop, EdgesKeep, Unvalidated, Merging, Ready, Integrated, Accepted
<1>5. CASE from = "IMPLEMENTATION_COMPLETED"
  BY <1>5 DEF ValidateTransition, Successors, Stop, EdgesKeep, Unvalidated, Merging, Ready, Integrated, Accepted
<1>6. CASE from = "BRANCH_ACCEPTANCE_PENDING"
  BY <1>6 DEF ValidateTransition, Successors, Stop, EdgesKeep, Unvalidated, Merging, Ready, Integrated, Accepted
<1>7. CASE from = "BRANCH_ACCEPTED"
  BY <1>7 DEF ValidateTransition, Successors, Stop, EdgesKeep, Unvalidated, Merging, Ready, Integrated, Accepted
<1>8. CASE from = "INTEGRATION_PENDING"
  BY <1>8 DEF ValidateTransition, Successors, Stop, EdgesKeep, Unvalidated, Merging, Ready, Integrated, Accepted
<1>9. CASE from = "INTEGRATING"
  BY <1>9 DEF ValidateTransition, Successors, Stop, EdgesKeep, Unvalidated, Merging, Ready, Integrated, Accepted
<1>10. CASE from = "INTEGRATION_CONFLICT"
  BY <1>10 DEF ValidateTransition, Successors, Stop, EdgesKeep, Unvalidated, Merging, Ready, Integrated, Accepted
<1>11. CASE from = "SEMANTIC_CONFLICT"
  BY <1>11 DEF ValidateTransition, Successors, Stop, EdgesKeep, Unvalidated, Merging, Ready, Integrated, Accepted
<1>12. CASE from = "INTEGRATION_ACCEPTED"
  BY <1>12 DEF ValidateTransition, Successors, Stop, EdgesKeep, Unvalidated, Merging, Ready, Integrated, Accepted
<1>13. CASE from = "READY_FOR_MERGE"
  BY <1>13 DEF ValidateTransition, Successors, Stop, EdgesKeep, Unvalidated, Merging, Ready, Integrated, Accepted
<1>14. CASE from = "MERGED"
  BY <1>14 DEF ValidateTransition, Successors, Stop, EdgesKeep, Unvalidated, Merging, Ready, Integrated, Accepted
<1>15. CASE from = "PRODUCTION_ACCEPTANCE_PENDING"
  BY <1>15 DEF ValidateTransition, Successors, Stop, EdgesKeep, Unvalidated, Merging, Ready, Integrated, Accepted
<1>16. CASE from = "PRODUCTION_ACCEPTED"
  BY <1>16 DEF ValidateTransition, Successors, Stop, EdgesKeep, Unvalidated, Merging, Ready, Integrated, Accepted
<1>17. CASE from = "RETRYING"
  BY <1>17 DEF ValidateTransition, Successors, Stop, EdgesKeep, Unvalidated, Merging, Ready, Integrated, Accepted
<1>18. CASE from = "CAPACITY_WAIT"
  BY <1>18 DEF ValidateTransition, Successors, Stop, EdgesKeep, Unvalidated, Merging, Ready, Integrated, Accepted
<1>19. CASE from = "RECOVERY_REQUIRED"
  BY <1>19 DEF ValidateTransition, Successors, Stop, EdgesKeep, Unvalidated, Merging, Ready, Integrated, Accepted
<1>20. CASE from = "HUMAN_DECISION_REQUIRED"
  BY <1>20 DEF ValidateTransition, Successors, Stop, EdgesKeep, Unvalidated, Merging, Ready, Integrated, Accepted
<1>21. CASE from = "SECRET_REQUIRED"
  BY <1>21 DEF ValidateTransition, Successors, Stop, EdgesKeep, Unvalidated, Merging, Ready, Integrated, Accepted
<1>22. CASE from = "EXTERNAL_DEPENDENCY"
  BY <1>22 DEF ValidateTransition, Successors, Stop, EdgesKeep, Unvalidated, Merging, Ready, Integrated, Accepted
<1>23. CASE from = "VALIDATION_UNAVAILABLE"
  BY <1>23 DEF ValidateTransition, Successors, Stop, EdgesKeep, Unvalidated, Merging, Ready, Integrated, Accepted
<1>24. CASE from = "POLICY_BLOCKED"
  BY <1>24 DEF ValidateTransition, Successors, Stop, EdgesKeep, Unvalidated, Merging, Ready, Integrated, Accepted
<1>25. CASE from \in Terminal
  BY <1>25 DEF ValidateTransition, Successors, Terminal
<1> QED
  BY <1>1, <1>2, <1>3, <1>4, <1>5, <1>6, <1>7, <1>8, <1>9, <1>10, <1>11, <1>12, <1>13, <1>14, <1>15,
     <1>16, <1>17, <1>18, <1>19, <1>20, <1>21, <1>22, <1>23, <1>24, <1>25 DEF ValidateTransition,
     State, Terminal

(* COMPLETED, FAILED and CANCELLED have no row in allowedTransitions.      *)
LEMMA NothingLeavesTerminal ==
  ASSUME NEW from \in Terminal, NEW to
  PROVE  ~ValidateTransition(from, to)
BY DEF Terminal, ValidateTransition, Successors

(* A run that does not exist yet satisfies the inductive invariant.        *)
LEMMA HistoryInit == Init => HistoryInv
BY DEF Init, HistoryInv, TypeOK, Behind, Unvalidated, Accepted, Integrated, Ready, Merging

(* One appended transition keeps it: each group of states is entered only  *)
(* through the milestone it stands behind.                                 *)
LEMMA HistoryStep == HistoryInv /\ [Next]_hvars => HistoryInv'
<1> SUFFICES ASSUME HistoryInv, [Next]_hvars PROVE HistoryInv'
  OBVIOUS
<1>1. CASE Create
  <2>1. TypeOK'
    BY <1>1 DEF HistoryInv, TypeOK, Create, State
  <2>2. Behind(state, milestones)'
    BY <1>1 DEF Create, Behind, Unvalidated, Accepted, Integrated, Ready, Merging
  <2> QED
    BY <1>1, <2>1, <2>2 DEF HistoryInv, Create
<1>2. ASSUME NEW to \in State, Advance(to) PROVE HistoryInv'
  <2>1. EdgesKeep(state, to) /\ state' = to /\ milestones' = milestones \cup ({to} \cap Milestone)
    BY <1>2, TableKeepsGroups DEF Advance
  <2>2. TypeOK'
    BY <2>1 DEF HistoryInv, TypeOK
  <2>3. Behind(to, milestones')
    BY <2>1 DEF HistoryInv, Behind, EdgesKeep, Milestone
  <2>4. ASSUME "MERGED" \in milestones'
        PROVE  {"AUTHORITY_VALIDATED", "BRANCH_ACCEPTED", "INTEGRATION_ACCEPTED", "READY_FOR_MERGE"} \subseteq milestones'
    <3>1. CASE "MERGED" \in milestones
      BY <3>1, <2>1 DEF HistoryInv
    <3>2. CASE to = "MERGED"
      <4>1. state = "READY_FOR_MERGE"
        BY <3>2, <2>1 DEF EdgesKeep
      <4> QED
        BY <4>1, <2>1 DEF HistoryInv, Behind, Unvalidated, Accepted, Integrated, Ready, Merging
    <3> QED
      BY <3>1, <3>2, <2>1, <2>4
  <2> QED
    BY <2>1, <2>2, <2>3, <2>4 DEF HistoryInv
<1>3. CASE UNCHANGED hvars
  BY <1>3 DEF HistoryInv, TypeOK, Behind, hvars
<1> QED
  BY <1>1, <1>2, <1>3 DEF Next

(* HistoryInv holds along every path of allowedTransitions.                *)
THEOREM HistoryInvariant == Spec => []HistoryInv
<1> QED
  BY HistoryInit, HistoryStep, PTL DEF Spec

(* The projection's state is always a state of the table, and milestones   *)
(* are milestones.                                                         *)
THEOREM HistoryTypeCorrect == Spec => []TypeOK
<1>1. HistoryInv => TypeOK
  BY DEF HistoryInv
<1> QED
  BY <1>1, HistoryInvariant, PTL

(* A run is ready for merge, or was merged, only with its authority        *)
(* validated, its branch accepted and its combination accepted.            *)
THEOREM MergeIsEarned == Spec => []MergeNeedsEveryAcceptance
<1>1. HistoryInv => MergeNeedsEveryAcceptance
  BY DEF HistoryInv, MergeNeedsEveryAcceptance, Behind, Unvalidated, Accepted, Integrated, Ready, Merging
<1> QED
  BY <1>1, HistoryInvariant, PTL

(* COMPLETED is reached only through a merge.                              *)
THEOREM CompletionIsEarned == Spec => []CompletionNeedsMerge
<1>1. HistoryInv => CompletionNeedsMerge
  BY DEF HistoryInv, CompletionNeedsMerge, Behind, Merging
<1> QED
  BY <1>1, HistoryInvariant, PTL

(* No transition leaves COMPLETED, FAILED or CANCELLED.                    *)
THEOREM TerminalStays == Spec => TerminalIsFinal
<1>1. [Next]_hvars => [(state \in Terminal) => (state' = state)]_hvars
  <2> SUFFICES ASSUME Next, state \in Terminal PROVE state' = state
    BY DEF hvars
  <2>1. ~Create
    BY DEF Create, Terminal
  <2>2. \A to \in State : ~Advance(to)
    BY NothingLeavesTerminal DEF Advance
  <2> QED
    BY <2>1, <2>2 DEF Next
<1> QED
  BY <1>1, PTL DEF Spec, TerminalIsFinal

-----------------------------------------------------------------------------
(* Governance: one invocation, one fix batch per lease, an earned chain. *)

\* The row has its fields, and t has those of s but for the ones in F.
GVFields == {"tip", "grant", "bcap", "inv", "rep", "leases", "fix", "active", "review", "evid", "lease", "batch"}
GVRecord(s) == s = [f \in GVFields |-> s[f]]
GVSame(s, t, F) == \A f \in GVFields \ F : t[f] = s[f]
GVLeaseRecord(l) == l = [f \in {"report", "pre", "paths", "status"} |-> l[f]]

\* What is true of the row by itself: it fits its bounds, and a batch is under way
\* only on a lease that is being consumed.
GVRowSound(s) ==
  /\ GVRecord(s) /\ s.tip.kind \in 0..7 /\ s.tip.cand \in 0..GVMaxCommits /\ s.active \in GVControllers \cup {"none"}
  /\ s.inv \in 0..GVMaxInvocations /\ s.rep \in 0..GVMaxReports /\ s.leases \in 0..GVMaxLeases /\ s.fix \in 0..GVMaxFix
  /\ GVLeaseRecord(s.lease) /\ s.lease.report \in 0..s.rep /\ s.batch \in BOOLEAN /\ (s.batch => s.lease.status = "CONSUMING")

\* The next checkpoint t of row s is earned: of the candidate and over the review
\* that its kind demands, under a grant that drops no rule.
GVEarned(s, t) ==
  /\ t.tip.kind = s.tip.kind + 1
  /\ s.tip.kind >= 2 => t.tip.cand = s.tip.cand
  /\ s.tip.kind >= 1 => s.grant.floor \subseteq t.grant.floor
  /\ s.tip.kind = 1 => s.review.active = {} /\ s.review.head = t.tip.cand /\ s.lease.status \in {"none", "CONSUMED"}
  /\ s.tip.kind = 3 => s.review.head = t.tip.cand /\ s.grant.floor \subseteq s.review.cap.scope

\* What an evaluated write t may change of the row s it was evaluated against.
GVProposed(s, t) ==
  /\ GVRowSound(t) /\ t.active = s.active /\ t.rep >= s.rep
  /\ \/ t.lease = s.lease /\ t.batch = s.batch
     \/ s.lease.status = "CONSUMING" /\ s.batch /\ t.lease.report = s.lease.report /\ t.lease.status = "CONSUMED" /\ ~t.batch
  /\ \/ t.tip = s.tip /\ t.grant = s.grant
     \/ GVEarned(s, t)

\* The write that waits is of the row as it is.
GVWriteFits == gvWrite = GVNoWrite \/ (gvWrite.by = "git" /\ GVProposed(gv, gvWrite.state))

\* A lease that no batch was handed to has none on its count, and no later report has.
GVFixesCounted ==
  /\ gvFixes \in [1..GVMaxReports -> Nat]
  /\ \A r \in 1..GVMaxReports :
       /\ gvFixes[r] <= 1
       /\ gvFixes[r] > 0 => r <= gv.lease.report /\ (r = gv.lease.report => gv.batch \/ gv.lease.status = "CONSUMED")

\* A chain is a sequence of its entries.
GVIsChain(s) == s \in Seq({s[n] : n \in DOMAIN s})

\* The row is at the end of the chain, and keeps the rules its first grant had.
GVRowEndsChain ==
  /\ GVIsChain(gvChain) /\ Len(gvChain) = gv.tip.kind
  /\ \A n \in DOMAIN gvChain : gvChain[n].cp.kind = n
  /\ gv.tip.kind >= 1 => gvChain[1].grant.floor \subseteq gv.grant.floor
  /\ gv.tip.kind >= 2 => gvChain[2].cp.cand = gv.tip.cand

GVWorldTyped ==
  /\ gvRun \in [GVControllers -> {"idle", "read", "build", "fix"}] /\ gvFaults \in 0..GVMaxFaults
  /\ gvLog \in Seq(GVPaths) /\ Len(gvLog) <= GVMaxCommits

\* The inductive invariant.
GVInv == GVRowSound(gv) /\ GVWriteFits /\ GVWorldTyped /\ GVOneInvocation /\ GVFixesCounted /\ GVRowEndsChain /\ GVChainIsProven

-----------------------------------------------------------------------------
(* Facts about rows and chains. *)

\* The bounds are numbers.
LEMMA GVBounds ==
  /\ GVMaxCommits \in Nat /\ GVMaxReports \in Nat /\ GVMaxLeases \in Nat /\ GVMaxFix \in Nat
  /\ GVMaxInvocations \in Nat /\ GVMaxFaults \in Nat
BY GVAssumption

\* A sequence is a chain.
LEMMA GVSeqIsChain ==
  ASSUME NEW T, NEW a \in Seq(T)
  PROVE  GVIsChain(a)
<1>1. DOMAIN a = 1..Len(a) /\ Len(a) \in Nat /\ a = [n \in 1..Len(a) |-> a[n]]
  OBVIOUS
<1> QED BY <1>1 DEF GVIsChain

GVExtends(a, s, e) == a = Append(s, e)

\* A chain grows at its end.
LEMMA GVChainGrows ==
  ASSUME NEW s, GVIsChain(s), NEW e, NEW a, GVExtends(a, s, e)
  PROVE  /\ GVIsChain(a) /\ Len(s) \in Nat /\ Len(a) = Len(s) + 1
         /\ DOMAIN s = 1..Len(s) /\ DOMAIN a = 1..(Len(s) + 1)
         /\ \A n \in 1..Len(s) : a[n] = s[n]
         /\ a[Len(s) + 1] = e
<1> DEFINE T == {s[n] : n \in DOMAIN s} \cup {e}
<1>1. Len(s) \in Nat /\ DOMAIN s = 1..Len(s) /\ s \in Seq({s[n] : n \in DOMAIN s})
  BY DEF GVIsChain
<1>2. \A n \in 1..Len(s) : s[n] \in T
  BY <1>1
<1>3. s \in Seq(T) /\ e \in T
  BY <1>1, <1>2
<1> HIDE DEF T
<1>4. /\ a \in Seq(T) /\ Len(a) = Len(s) + 1 /\ a[Len(s) + 1] = e
      /\ \A n \in 1..Len(s) : a[n] = s[n]
  BY <1>1, <1>3 DEF GVExtends
<1>5. DOMAIN a = 1..(Len(s) + 1)
  BY <1>4
<1>6. GVIsChain(a)
  BY <1>4, GVSeqIsChain
<1> QED BY <1>1, <1>4, <1>5, <1>6

-----------------------------------------------------------------------------
(* A write is evaluated. *)

\* A write that fits the row it was evaluated against keeps the invariant.
LEMMA GVProposeKeeps ==
  ASSUME GVInv, NEW t, GVPropose(t), GVProposed(gv, t)
  PROVE  GVInv'
<1>1. UNCHANGED <<gv, gvRun, gvLog, gvFixes, gvChain, gvFaults>> /\ gvWrite' = [by |-> "git", state |-> t]
  BY DEF GVPropose
<1>2. gvWrite'.by = "git" /\ gvWrite'.state = t
  BY <1>1
<1>3. GVProposed(gv, gvWrite.state)'
  BY <1>1, <1>2 DEF GVProposed, GVRowSound, GVRecord, GVLeaseRecord, GVEarned
<1>4. GVWriteFits'
  BY <1>2, <1>3 DEF GVWriteFits
<1>5. GVRowSound(gv)'
  BY <1>1 DEF GVInv, GVRowSound, GVRecord, GVLeaseRecord
<1>6. GVWorldTyped' /\ GVOneInvocation'
  BY <1>1 DEF GVInv, GVWorldTyped, GVOneInvocation
<1>7. GVFixesCounted'
  BY <1>1 DEF GVInv, GVFixesCounted
<1>8. GVRowEndsChain'
  BY <1>1 DEF GVInv, GVRowEndsChain
<1>9. GVChainIsProven'
  BY <1>1 DEF GVInv, GVChainIsProven
<1> QED BY <1>4, <1>5, <1>6, <1>7, <1>8, <1>9 DEF GVInv

\* A write that moves the tip, and perhaps the grant, of a sound row.
LEMMA GVTipProposed ==
  ASSUME GVInv, NEW t, GVRecord(t), GVSame(gv, t, {"tip", "grant"}), t.tip.kind \in 0..7, t.tip.cand \in 0..GVMaxCommits,
         GVEarned(gv, t), GVPropose(t)
  PROVE  GVInv'
<1>1. /\ t.inv = gv.inv /\ t.rep = gv.rep /\ t.leases = gv.leases
      /\ t.fix = gv.fix /\ t.active = gv.active /\ t.lease = gv.lease /\ t.batch = gv.batch
  BY DEF GVSame, GVFields
<1>2. GVRowSound(t)
  BY <1>1 DEF GVInv, GVRowSound
<1>3. GVProposed(gv, t)
  BY <1>1, <1>2 DEF GVProposed, GVInv, GVRowSound
<1> QED BY <1>3, GVProposeKeeps

\* The same of a write that changes no checkpoint, lease or batch.
LEMMA GVRestProposed ==
  ASSUME GVInv, NEW t, GVRecord(t), GVSame(gv, t, {"rep", "bcap", "review", "evid"}), t.rep \in gv.rep..GVMaxReports, GVPropose(t)
  PROVE  GVInv'
<1>1. /\ t.tip = gv.tip /\ t.grant = gv.grant /\ t.inv = gv.inv /\ t.leases = gv.leases
      /\ t.fix = gv.fix /\ t.active = gv.active /\ t.lease = gv.lease /\ t.batch = gv.batch
  BY DEF GVSame, GVFields
<1>2. t.rep \in 0..GVMaxReports /\ t.lease.report \in 0..t.rep /\ t.rep >= gv.rep
  BY <1>1, GVBounds DEF GVInv, GVRowSound
<1>3. GVRowSound(t)
  BY <1>1, <1>2 DEF GVInv, GVRowSound
<1>4. GVProposed(gv, t)
  BY <1>1, <1>2, <1>3 DEF GVProposed
<1> QED BY <1>4, GVProposeKeeps

\* The row of a checkpoint.
LEMMA GVTipOf ==
  ASSUME NEW s, GVRecord(s), NEW kind, NEW cand, NEW cap, NEW u, u = GVTip(s, kind, cand, cap)
  PROVE  GVRecord(u) /\ GVSame(s, u, {"tip", "grant"}) /\ u.tip.kind = kind /\ u.tip.cand = cand /\ u.grant = s.grant
<1>1. GVRecord(u) /\ GVSame(s, u, {"tip"}) /\ u.tip = [kind |-> kind, cand |-> cand, cap |-> cap]
  BY DEF GVRecord, GVSame, GVFields, GVTip
<1>2. u.tip.kind = kind /\ u.tip.cand = cand /\ u.grant = s.grant
  BY <1>1 DEF GVSame, GVFields
<1>3. GVSame(s, u, {"tip", "grant"})
  BY <1>1 DEF GVSame
<1> QED BY <1>1, <1>2, <1>3

GVGranted(u, grant) == [u EXCEPT !.grant = grant]

\* The same of a checkpoint that comes with the next stage's grant.
LEMMA GVTipAndGrantOf ==
  ASSUME NEW s, GVRecord(s), NEW kind, NEW cand, NEW cap, NEW grant, NEW t, t = GVGranted(GVTip(s, kind, cand, cap), grant)
  PROVE  GVRecord(t) /\ GVSame(s, t, {"tip", "grant"}) /\ t.tip.kind = kind /\ t.tip.cand = cand /\ t.grant = grant
<1> DEFINE u == GVTip(s, kind, cand, cap)
<1>1. GVRecord(u) /\ GVSame(s, u, {"tip", "grant"}) /\ u.tip.kind = kind /\ u.tip.cand = cand
  BY GVTipOf
<1> HIDE DEF u
<1>2. t = [u EXCEPT !.grant = grant]
  BY DEF u, GVGranted
<1>3. GVRecord(t) /\ GVSame(u, t, {"grant"}) /\ t.grant = grant
  BY <1>1, <1>2 DEF GVRecord, GVSame, GVFields
<1>4. t.tip = u.tip
  BY <1>3 DEF GVSame, GVFields
<1>5. GVSame(s, t, {"tip", "grant"})
  BY <1>1, <1>3 DEF GVSame
<1> QED BY <1>1, <1>3, <1>4, <1>5

\* The design, the convergence, the acceptance and what follows keep the invariant.
LEMMA GVCheckpointKeeps ==
  ASSUME GVInv,
         \/ \E floor \in GVFloors : GVDesign(floor)
         \/ \E cap \in GVCaps("B"), cand \in 0..GVHead, floor \in GVFloors : GVConverge(cap, cand, floor)
         \/ \E cap \in GVCaps("C") : GVAccept(cap)
         \/ GVFinal \/ GVPublish
  PROVE  GVInv'
<1>1. GVRecord(gv) /\ GVHead \in 0..GVMaxCommits /\ gv.tip.kind \in 0..7 /\ gv.tip.cand \in 0..GVMaxCommits
  BY GVBounds DEF GVInv, GVRowSound, GVWorldTyped, GVHead
<1>2. ASSUME NEW floor \in GVFloors, GVDesign(floor)  PROVE GVInv'
  <2> DEFINE cap == [stage |-> "A", base |-> 0, floor |-> {}, scope |-> GVRules]
             grant == GVGrant("B", GVHead, floor, {})
             t == [GVTip(gv, 1, GVHead, cap) EXCEPT !.grant = grant]
  <2>1. gv.tip.kind = 0 /\ GVPropose(t)
    BY <1>2, Zenon DEF GVDesign
  <2>a. t = GVGranted(GVTip(gv, 1, GVHead, cap), grant)
    BY Zenon DEF GVGranted
  <2> HIDE DEF cap, grant, t
  <2>2. GVRecord(t) /\ GVSame(gv, t, {"tip", "grant"}) /\ t.tip.kind = 1 /\ t.tip.cand = GVHead
    BY <1>1, <2>a, GVTipAndGrantOf
  <2>3. GVEarned(gv, t)
    BY <2>1, <2>2 DEF GVEarned
  <2> QED BY <1>1, <2>1, <2>2, <2>3, GVTipProposed
<1>3. ASSUME NEW cap \in GVCaps("B"), NEW cand \in 0..GVHead, NEW floor \in GVFloors, GVConverge(cap, cand, floor)  PROVE GVInv'
  <2> DEFINE grant == GVGrant("C", cand, floor, gv.grant.floor)
             t == [GVTip(gv, 2, cand, cap) EXCEPT !.grant = grant]
  <2>1. gv.tip.kind = 1 /\ GVPropose(t)
    BY <1>3, Zenon DEF GVConverge
  <2>2. gv.review.active = {} /\ gv.review.head = cand /\ gv.lease.status \in {"none", "CONSUMED"} /\ gv.grant.floor \subseteq floor
    BY <1>3 DEF GVConverge, GVCleanReview
  <2>3. grant.floor = floor
    BY DEF GVGrant
  <2>a. t = GVGranted(GVTip(gv, 2, cand, cap), grant)
    BY Zenon DEF GVGranted
  <2> HIDE DEF grant, t
  <2>4. GVRecord(t) /\ GVSame(gv, t, {"tip", "grant"}) /\ t.tip.kind = 2 /\ t.tip.cand = cand /\ t.grant = grant
    BY <1>1, <2>a, GVTipAndGrantOf
  <2>5. GVEarned(gv, t)
    BY <2>1, <2>2, <2>3, <2>4 DEF GVEarned
  <2>6. cand \in 0..GVMaxCommits
    BY <1>1, GVBounds
  <2> QED BY <2>1, <2>4, <2>5, <2>6, GVTipProposed
<1>4. ASSUME NEW cap \in GVCaps("C"), GVAccept(cap)  PROVE GVInv'
  <2> DEFINE t == GVTip(gv, 3, cap.base, cap)
  <2>1. gv.tip.kind = 2 /\ GVPropose(t) /\ cap.base = gv.tip.cand
    BY <1>4, Zenon DEF GVAccept
  <2>a. t = GVTip(gv, 3, cap.base, cap)
    OBVIOUS
  <2> HIDE DEF t
  <2>2. GVRecord(t) /\ GVSame(gv, t, {"tip", "grant"}) /\ t.tip.kind = 3 /\ t.tip.cand = gv.tip.cand /\ t.grant = gv.grant
    BY <1>1, <2>1, <2>a, GVTipOf
  <2>3. GVEarned(gv, t)
    BY <2>1, <2>2 DEF GVEarned
  <2> QED BY <1>1, <2>1, <2>2, <2>3, GVTipProposed
<1>5. CASE GVFinal
  <2> DEFINE t == GVTip(gv, 4, gv.tip.cand, gv.tip.cap)
  <2>1. gv.tip.kind = 3 /\ GVPropose(t)
    BY <1>5, Zenon DEF GVFinal
  <2>2. gv.review.head = gv.tip.cand /\ gv.grant.floor \subseteq gv.review.cap.scope
    BY <1>5 DEF GVFinal, GVCleanReview
  <2>a. t = GVTip(gv, 4, gv.tip.cand, gv.tip.cap)
    OBVIOUS
  <2> HIDE DEF t
  <2>3. GVRecord(t) /\ GVSame(gv, t, {"tip", "grant"}) /\ t.tip.kind = 4 /\ t.tip.cand = gv.tip.cand /\ t.grant = gv.grant
    BY <1>1, <2>a, GVTipOf
  <2>4. GVEarned(gv, t)
    BY <2>1, <2>2, <2>3 DEF GVEarned
  <2> QED BY <1>1, <2>1, <2>3, <2>4, GVTipProposed
<1>6. CASE GVPublish
  <2> DEFINE t == GVTip(gv, gv.tip.kind + 1, gv.tip.cand, gv.tip.cap)
  <2>1. gv.tip.kind \in 4..6 /\ GVPropose(t)
    BY <1>6, Zenon DEF GVPublish
  <2>a. t = GVTip(gv, gv.tip.kind + 1, gv.tip.cand, gv.tip.cap)
    OBVIOUS
  <2> HIDE DEF t
  <2>2. GVRecord(t) /\ GVSame(gv, t, {"tip", "grant"}) /\ t.tip.kind = gv.tip.kind + 1 /\ t.tip.cand = gv.tip.cand /\ t.grant = gv.grant
    BY <1>1, <2>a, GVTipOf
  <2>3. GVEarned(gv, t) /\ t.tip.kind \in 0..7
    BY <2>1, <2>2 DEF GVEarned
  <2> QED BY <1>1, <2>1, <2>2, <2>3, GVTipProposed
<1> QED BY <1>2, <1>3, <1>4, <1>5, <1>6

\* Evidence, reviews and the receipt keep the invariant.
LEMMA GVReviewKeeps ==
  ASSUME GVInv,
         \/ \E cap \in GVCaps("B"), f \in GVFindings, r \in GVRules : GVRecordEvidence(cap, f, r)
         \/ \E cap \in GVCaps("B"), active \in SUBSET GVBlockers, wants \in SUBSET GVBlockers : GVReview(cap, active, wants)
         \/ GVReviewC \/ GVComplete
  PROVE  GVInv'
<1>1. GVRecord(gv) /\ gv.rep \in 0..GVMaxReports /\ gv.rep \in gv.rep..GVMaxReports
  BY GVBounds DEF GVInv, GVRowSound
<1>2. ASSUME NEW cap, NEW f, NEW r, GVRecordEvidence(cap, f, r)  PROVE GVInv'
  <2> DEFINE evid == {x \in gv.evid : x.head = GVHead} \cup {[finding |-> f, rule |-> r, head |-> GVHead]}
             t == [gv EXCEPT !.evid = evid]
  <2>1. GVPropose(t)
    BY <1>2, Zenon DEF GVRecordEvidence
  <2> HIDE DEF evid
  <2>2. GVRecord(t) /\ GVSame(gv, t, {"evid"}) /\ t.rep = gv.rep
    BY <1>1 DEF GVRecord, GVSame, GVFields
  <2>3. GVSame(gv, t, {"rep", "bcap", "review", "evid"})
    BY <2>2 DEF GVSame
  <2> HIDE DEF t
  <2> QED BY <1>1, <2>1, <2>2, <2>3, GVRestProposed
<1>3. ASSUME NEW cap, NEW active, NEW wants, GVReview(cap, active, wants)  PROVE GVInv'
  <2> DEFINE u == GVReport(gv, cap, active, wants)
             t == [u EXCEPT !.rep = @ + 1, !.bcap = cap]
  <2>1. GVPropose(t) /\ gv.rep < GVMaxReports
    BY <1>3, Zenon DEF GVReview
  <2>2. GVRecord(u) /\ GVSame(gv, u, {"review"}) /\ u.rep = gv.rep
    BY <1>1 DEF GVRecord, GVSame, GVFields, GVReport
  <2> HIDE DEF u
  <2>3. GVRecord(t) /\ GVSame(u, t, {"rep", "bcap"}) /\ t.rep = u.rep + 1
    BY <2>2 DEF GVRecord, GVSame, GVFields
  <2> HIDE DEF t
  <2>4. GVSame(gv, t, {"rep", "bcap", "review", "evid"})
    BY <2>2, <2>3 DEF GVSame
  <2>5. t.rep \in gv.rep..GVMaxReports
    BY <1>1, <2>1, <2>2, <2>3, GVBounds
  <2> QED BY <2>1, <2>3, <2>4, <2>5, GVRestProposed
<1>4. CASE GVReviewC
  <2> DEFINE t == GVReport(gv, gv.tip.cap, {}, {})
  <2>1. GVPropose(t)
    BY <1>4, Zenon DEF GVReviewC
  <2>2. GVRecord(t) /\ GVSame(gv, t, {"review"}) /\ t.rep = gv.rep
    BY <1>1 DEF GVRecord, GVSame, GVFields, GVReport
  <2> HIDE DEF t
  <2>3. GVSame(gv, t, {"rep", "bcap", "review", "evid"})
    BY <2>2 DEF GVSame
  <2> QED BY <1>1, <2>1, <2>2, <2>3, GVRestProposed
<1>5. CASE GVComplete
  <2> DEFINE t == [gv EXCEPT !.lease.status = "CONSUMED", !.batch = FALSE]
  <2>1. gv.lease.status = "CONSUMING" /\ gv.batch /\ GVPropose(t)
    BY <1>5, Zenon DEF GVComplete
  <2>2. GVRowSound(gv) /\ GVLeaseRecord(gv.lease)
    BY DEF GVInv, GVRowSound
  <2>3. GVRecord(t) /\ GVSame(gv, t, {"lease", "batch"}) /\ t.lease = [gv.lease EXCEPT !.status = "CONSUMED"] /\ t.batch = FALSE
    BY <1>1 DEF GVRecord, GVSame, GVFields
  <2> HIDE DEF t
  <2>4. GVLeaseRecord(t.lease) /\ t.lease.report = gv.lease.report /\ t.lease.status = "CONSUMED"
    BY <2>2, <2>3 DEF GVLeaseRecord
  <2>5. /\ t.tip = gv.tip /\ t.grant = gv.grant /\ t.inv = gv.inv /\ t.rep = gv.rep /\ t.leases = gv.leases
        /\ t.fix = gv.fix /\ t.active = gv.active
    BY <2>3 DEF GVSame, GVFields
  <2>6. GVRowSound(t)
    BY <2>2, <2>3, <2>4, <2>5 DEF GVRowSound
  <2>7. t.rep >= gv.rep
    BY <1>1, <2>5
  <2>8. GVProposed(gv, t)
    BY <2>1, <2>3, <2>4, <2>5, <2>6, <2>7 DEF GVProposed
  <2> QED BY <2>1, <2>8, GVProposeKeeps
<1> QED BY <1>2, <1>3, <1>4, <1>5

-----------------------------------------------------------------------------
(* A row is written at once. *)

\* A written row that has the checkpoint of the one before keeps the chain.
LEMMA GVWrittenKeeps ==
  ASSUME GVInv, GVMay, NEW t, GVWritten(t), GVRowSound(t), t.tip = gv.tip, t.grant = gv.grant,
         GVWorldTyped', GVOneInvocation', GVFixesCounted'
  PROVE  GVInv'
<1>1. gv' = t /\ gvWrite' = GVNoWrite /\ gvChain' = gvChain
  BY DEF GVWritten, GVMay
<1>2. GVRowSound(gv)'
  BY <1>1 DEF GVRowSound, GVRecord, GVLeaseRecord
<1>3. GVWriteFits'
  BY <1>1 DEF GVWriteFits
<1>4. GVRowEndsChain'
  BY <1>1 DEF GVInv, GVRowEndsChain
<1>5. GVChainIsProven'
  BY <1>1 DEF GVInv, GVChainIsProven
<1> QED BY <1>2, <1>3, <1>4, <1>5 DEF GVInv

\* A lease is issued for a report no lease was issued for.
LEMMA GVIssueKeeps ==
  ASSUME GVInv, GVIssue
  PROVE  GVInv'
<1> DEFINE l == [report |-> gv.rep, pre |-> gv.review.head, paths |-> GVLeasePaths(gv.review.wants), status |-> "ISSUED"]
           t == [gv EXCEPT !.lease = l, !.leases = @ + 1]
<1>1. /\ GVMay /\ GVWritten(t) /\ gv.lease.status \in {"none", "CONSUMED"} /\ gv.lease.report # gv.rep /\ gv.leases < GVMaxLeases
      /\ UNCHANGED <<gvRun, gvFixes, gvFaults>>
  BY Zenon DEF GVIssue
<1>2. GVLeaseRecord(l) /\ l.report = gv.rep /\ l.status = "ISSUED"
  BY DEF GVLeaseRecord
<1> HIDE DEF l
<1>3. GVRowSound(gv)
  BY DEF GVInv
<1>4. GVRecord(t) /\ GVSame(gv, t, {"lease", "leases"}) /\ t.lease = l /\ t.leases = gv.leases + 1
  BY <1>3 DEF GVRowSound, GVRecord, GVSame, GVFields
<1> HIDE DEF t
<1>5. /\ t.tip = gv.tip /\ t.grant = gv.grant /\ t.inv = gv.inv /\ t.rep = gv.rep
      /\ t.fix = gv.fix /\ t.active = gv.active /\ t.batch = gv.batch
  BY <1>4 DEF GVSame, GVFields
<1>6. ~gv.batch
  BY <1>1, <1>3 DEF GVRowSound
<1>7. t.leases \in 0..GVMaxLeases /\ gv.rep \in 0..gv.rep
  BY <1>1, <1>3, <1>4, GVBounds DEF GVRowSound
<1>8. GVRowSound(t)
  BY <1>2, <1>3, <1>4, <1>5, <1>6, <1>7 DEF GVRowSound
<1>9. gv' = t /\ gvLog' = gvLog
  BY <1>1 DEF GVWritten
<1>10. GVWorldTyped' /\ GVOneInvocation'
  BY <1>1, <1>5, <1>9 DEF GVInv, GVWorldTyped, GVOneInvocation
<1>11. GVFixesCounted'
  <2>1. gv.lease.report \in 0..gv.rep /\ gv.rep \in Nat
    BY <1>3, GVBounds DEF GVRowSound
  <2>2. \A r \in 1..GVMaxReports : gvFixes[r] > 0 => r <= gv.rep /\ r # gv.rep
    BY <1>1, <2>1 DEF GVInv, GVFixesCounted
  <2> QED BY <1>1, <1>2, <1>4, <1>9, <2>2 DEF GVInv, GVFixesCounted
<1> QED BY <1>1, <1>5, <1>8, <1>10, <1>11, GVWrittenKeeps

\* A lease that is begun has had no batch.
LEMMA GVBeginKeeps ==
  ASSUME GVInv, GVBegin
  PROVE  GVInv'
<1> DEFINE t == [gv EXCEPT !.lease.status = "CONSUMING"]
<1>1. GVMay /\ GVWritten(t) /\ gv.lease.status = "ISSUED" /\ UNCHANGED <<gvRun, gvFixes, gvFaults>>
  BY Zenon DEF GVBegin
<1>2. GVRowSound(gv) /\ GVLeaseRecord(gv.lease)
  BY DEF GVInv, GVRowSound
<1>3. GVRecord(t) /\ GVSame(gv, t, {"lease"}) /\ t.lease = [gv.lease EXCEPT !.status = "CONSUMING"]
  BY <1>2 DEF GVRowSound, GVRecord, GVSame, GVFields
<1> HIDE DEF t
<1>4. GVLeaseRecord(t.lease) /\ t.lease.report = gv.lease.report /\ t.lease.status = "CONSUMING"
  BY <1>2, <1>3 DEF GVLeaseRecord
<1>5. /\ t.tip = gv.tip /\ t.grant = gv.grant /\ t.inv = gv.inv /\ t.rep = gv.rep /\ t.leases = gv.leases
      /\ t.fix = gv.fix /\ t.active = gv.active /\ t.batch = gv.batch
  BY <1>3 DEF GVSame, GVFields
<1>6. GVRowSound(t)
  BY <1>2, <1>3, <1>4, <1>5 DEF GVRowSound
<1>7. gv' = t /\ gvLog' = gvLog
  BY <1>1 DEF GVWritten
<1>8. GVWorldTyped' /\ GVOneInvocation'
  BY <1>1, <1>5, <1>7 DEF GVInv, GVWorldTyped, GVOneInvocation
<1>9. ~gv.batch
  BY <1>1, <1>2 DEF GVRowSound
<1>10. GVFixesCounted'
  BY <1>1, <1>4, <1>7, <1>9 DEF GVInv, GVFixesCounted
<1> QED BY <1>1, <1>5, <1>6, <1>8, <1>10, GVWrittenKeeps

\* A batch is reserved once on a lease, and an invocation once at a time.
LEMMA GVReserveKeeps ==
  ASSUME GVInv, NEW c \in GVControllers, NEW cap, NEW op, NEW m \in BOOLEAN, NEW answered \in BOOLEAN, GVReserve(c, cap, op, m, answered)
  PROVE  GVInv'
<1> DEFINE fix == op = "implementation_review" /\ m
           t == [gv EXCEPT !.active = c, !.inv = @ + 1, !.bcap = cap, !.fix = IF fix THEN @ + 1 ELSE @, !.batch = @ \/ fix]
<1>1. /\ GVMay /\ gv.active = "none" /\ GVWithinBounds(gv) /\ (fix => GVMayFix) /\ GVWritten(t) /\ GVAnswer(answered)
      /\ gvFixes' = IF fix THEN [gvFixes EXCEPT ![gv.lease.report] = @ + 1] ELSE gvFixes
      /\ gvRun' = IF answered THEN [gvRun EXCEPT ![c] = IF fix THEN "fix" ELSE IF m THEN "build" ELSE "read"] ELSE gvRun
  BY Zenon DEF GVReserve, GVNoneInFlight
<1>2. fix \in BOOLEAN
  OBVIOUS
<1> HIDE DEF fix
<1>3. GVRowSound(gv)
  BY DEF GVInv
<1>4. /\ GVRecord(t) /\ GVSame(gv, t, {"active", "inv", "bcap", "fix", "batch"})
      /\ t.active = c /\ t.inv = gv.inv + 1 /\ t.fix = (IF fix THEN gv.fix + 1 ELSE gv.fix) /\ t.batch = (gv.batch \/ fix)
  BY <1>3 DEF GVRowSound, GVRecord, GVSame, GVFields
<1> HIDE DEF t
<1>5. t.tip = gv.tip /\ t.grant = gv.grant /\ t.rep = gv.rep /\ t.leases = gv.leases /\ t.lease = gv.lease
  BY <1>4 DEF GVSame, GVFields
<1>6. fix => gv.lease.status = "CONSUMING" /\ gv.fix < GVMaxFix /\ ~gv.batch
  BY <1>1 DEF GVMayFix
<1>7. t.inv \in 0..GVMaxInvocations /\ t.fix \in 0..GVMaxFix
  BY <1>1, <1>3, <1>4, <1>6, GVBounds DEF GVRowSound, GVWithinBounds
<1>8. t.batch \in BOOLEAN /\ (t.batch => t.lease.status = "CONSUMING")
  BY <1>2, <1>3, <1>4, <1>5, <1>6 DEF GVRowSound
<1>9. GVRowSound(t)
  BY <1>3, <1>4, <1>5, <1>7, <1>8 DEF GVRowSound
<1>10. gv' = t /\ gvLog' = gvLog
  BY <1>1 DEF GVWritten
<1>11. gvFaults' \in 0..GVMaxFaults
  BY <1>1, GVBounds DEF GVInv, GVWorldTyped, GVAnswer
<1>12. \A d \in GVControllers : gvRun[d] = "idle"
  BY <1>1, GVAssumption DEF GVInv, GVOneInvocation
<1>13. gvRun' \in [GVControllers -> {"idle", "read", "build", "fix"}] /\ \A d \in GVControllers : d # c => gvRun'[d] = "idle"
  BY <1>1, <1>12 DEF GVInv, GVWorldTyped
<1>14. GVWorldTyped' /\ GVOneInvocation'
  BY <1>4, <1>10, <1>11, <1>13 DEF GVInv, GVWorldTyped, GVOneInvocation
<1>15. GVFixesCounted'
  <2>1. CASE ~fix
    <3>1. gvFixes' = gvFixes /\ gv'.lease = gv.lease /\ gv'.batch = (gv.batch \/ fix)
      BY <1>1, <1>4, <1>5, <1>10, <2>1
    <3>2. gv.batch => gv'.batch
      BY <3>1
    <3> QED BY <3>1, <3>2 DEF GVInv, GVFixesCounted
  <2>2. CASE fix
    <3>1. gv'.lease = gv.lease /\ gv'.batch /\ ~gv.batch /\ gv.lease.status = "CONSUMING"
      BY <1>4, <1>5, <1>6, <1>10, <2>2
    <3>2. gvFixes \in [1..GVMaxReports -> Nat] /\ gvFixes' = [gvFixes EXCEPT ![gv.lease.report] = @ + 1]
      BY <1>1, <2>2 DEF GVInv, GVFixesCounted
    <3>3. \A r \in 1..GVMaxReports : gvFixes[r] <= 1 /\ (gvFixes[r] > 0 => r <= gv.lease.report /\ r # gv.lease.report)
      BY <3>1 DEF GVInv, GVFixesCounted
    <3>4. gvFixes' \in [1..GVMaxReports -> Nat]
      <4>1. gvFixes' = [r \in 1..GVMaxReports |-> IF r = gv.lease.report THEN gvFixes[r] + 1 ELSE gvFixes[r]]
        BY <3>2
      <4>2. \A r \in 1..GVMaxReports : gvFixes[r] \in Nat /\ gvFixes[r] + 1 \in Nat
        BY <3>2
      <4> QED BY <4>1, <4>2
    <3>5. \A r \in 1..GVMaxReports : gvFixes'[r] = IF r = gv.lease.report THEN gvFixes[r] + 1 ELSE gvFixes[r]
      BY <3>2
    <3>6. gv.lease.report \in Nat
      BY <1>3, GVBounds DEF GVRowSound
    <3>7. \A r \in 1..GVMaxReports : gvFixes'[r] <= 1 /\ (gvFixes'[r] > 0 => r <= gv.lease.report)
      BY <3>2, <3>3, <3>5, <3>6
    <3> QED BY <3>1, <3>4, <3>7 DEF GVFixesCounted
  <2> QED BY <1>2, <2>1, <2>2
<1> QED BY <1>1, <1>5, <1>9, <1>14, <1>15, GVWrittenKeeps

\* An invocation ends.
LEMMA GVFinishKeeps ==
  ASSUME GVInv, NEW c \in GVControllers, GVFinish(c)
  PROVE  GVInv'
<1> DEFINE t == [gv EXCEPT !.active = "none"]
<1>1. GVMay /\ GVWritten(t) /\ gv.active = c /\ gvRun' = [gvRun EXCEPT ![c] = "idle"] /\ UNCHANGED <<gvFixes, gvFaults>>
  BY Zenon DEF GVFinish
<1>2. GVRowSound(gv)
  BY DEF GVInv
<1>3. GVRecord(t) /\ GVSame(gv, t, {"active"}) /\ t.active = "none"
  BY <1>2 DEF GVRowSound, GVRecord, GVSame, GVFields
<1> HIDE DEF t
<1>4. /\ t.tip = gv.tip /\ t.grant = gv.grant /\ t.inv = gv.inv /\ t.rep = gv.rep /\ t.leases = gv.leases
      /\ t.fix = gv.fix /\ t.lease = gv.lease /\ t.batch = gv.batch
  BY <1>3 DEF GVSame, GVFields
<1>5. GVRowSound(t)
  BY <1>2, <1>3, <1>4 DEF GVRowSound
<1>6. gv' = t /\ gvLog' = gvLog
  BY <1>1 DEF GVWritten
<1>7. GVWorldTyped'
  BY <1>1, <1>6 DEF GVInv, GVWorldTyped
<1>8. GVOneInvocation'
  BY <1>1 DEF GVInv, GVWorldTyped, GVOneInvocation
<1>9. GVFixesCounted'
  BY <1>1, <1>4, <1>6 DEF GVInv, GVFixesCounted
<1> QED BY <1>1, <1>4, <1>5, <1>7, <1>8, <1>9, GVWrittenKeeps

-----------------------------------------------------------------------------
(* The swap, the processes and the builder. *)

\* A write that is swapped in was evaluated against the row it replaces.
LEMMA GVSwapKeeps ==
  ASSUME GVInv, GVSwap
  PROVE  GVInv'
<1> DEFINE s == gvWrite.state
           e == [cp |-> s.tip, grant |-> s.grant, review |-> gv.review, lease |-> gv.lease.status]
<1>1. /\ gv' = s /\ gvWrite' = GVNoWrite /\ gvChain' = (IF s.tip = gv.tip THEN gvChain ELSE Append(gvChain, e))
      /\ UNCHANGED <<gvRun, gvLog, gvFixes, gvFaults>>
  BY Zenon DEF GVSwap
<1>2. GVProposed(gv, s) /\ GVRowSound(gv)
  BY DEF GVSwap, GVInv, GVWriteFits
<1>3. e.cp = s.tip /\ e.grant = s.grant /\ e.review = gv.review /\ e.lease = gv.lease.status
  OBVIOUS
<1> HIDE DEF s, e
<1>4. GVRowSound(s)
  BY <1>2 DEF GVProposed
<1>5. GVRowSound(gv)' /\ GVWriteFits'
  BY <1>1, <1>4 DEF GVRowSound, GVRecord, GVLeaseRecord, GVWriteFits
<1>6. GVWorldTyped' /\ GVOneInvocation'
  BY <1>1, <1>2 DEF GVInv, GVWorldTyped, GVOneInvocation, GVProposed
<1>7. GVFixesCounted'
  <2>1. CASE s.lease = gv.lease /\ s.batch = gv.batch
    BY <1>1, <2>1 DEF GVInv, GVFixesCounted
  <2>2. CASE s.lease.report = gv.lease.report /\ s.lease.status = "CONSUMED"
    BY <1>1, <2>2 DEF GVInv, GVFixesCounted
  <2> QED BY <1>2, <2>1, <2>2 DEF GVProposed
<1>8. GVRowEndsChain' /\ GVChainIsProven'
  <2>1. CASE s.tip = gv.tip /\ s.grant = gv.grant
    BY <1>1, <2>1 DEF GVInv, GVRowEndsChain, GVChainIsProven
  <2>2. CASE GVEarned(gv, s)
    <3> DEFINE n == gv.tip.kind
               g == gvChain
               h == gvChain'
    <3>1. n \in 0..7 /\ s.tip.kind = n + 1 /\ s.tip.kind \in 0..7
      BY <1>2, <1>4, <2>2 DEF GVRowSound, GVEarned
    <3>2. h = Append(g, e)
      BY <1>1, <3>1
    <3>3. /\ GVIsChain(g) /\ Len(g) = n
          /\ \A i \in DOMAIN g : g[i].cp.kind = i
          /\ n >= 1 => g[1].grant.floor \subseteq gv.grant.floor
          /\ n >= 2 => g[2].cp.cand = gv.tip.cand
      BY DEF GVInv, GVRowEndsChain
    <3>4. /\ GVIsChain(h) /\ Len(h) = n + 1 /\ DOMAIN g = 1..n /\ DOMAIN h = 1..(n + 1)
          /\ \A i \in 1..n : h[i] = g[i]
          /\ h[n + 1] = e
      <4>a. GVExtends(h, g, e)
        BY <3>2 DEF GVExtends
      <4> HIDE DEF g, h, n
      <4>1. /\ GVIsChain(h) /\ Len(h) = Len(g) + 1 /\ DOMAIN g = 1..Len(g) /\ DOMAIN h = 1..(Len(g) + 1)
            /\ \A i \in 1..Len(g) : h[i] = g[i]
            /\ h[Len(g) + 1] = e
        BY <3>3, <4>a, GVChainGrows
      <4> QED BY <3>3, <4>1
    <3>5. GVEarned(gv, s) /\ GVChainIsProven
      BY <2>2 DEF GVInv
    <3>6. /\ e.cp.kind = n + 1 /\ (n >= 2 => e.cp.cand = gv.tip.cand)
          /\ (n >= 1 => gv.grant.floor \subseteq e.grant.floor)
          /\ (n = 1 => e.review.active = {} /\ e.review.head = e.cp.cand /\ e.lease \in {"none", "CONSUMED"})
          /\ (n = 3 => e.review.head = e.cp.cand /\ gv.grant.floor \subseteq e.review.cap.scope)
      BY <1>3, <3>5 DEF GVEarned
    <3>7. gv'.tip = e.cp /\ gv'.grant = e.grant
      BY <1>1, <1>3
    <3>8. \A i \in 2..n : /\ g[i].cp.kind = i /\ g[i].cp.cand = g[2].cp.cand
                          /\ (i = 2 => g[i].review.active = {} /\ g[i].review.head = g[i].cp.cand /\ g[i].lease \in {"none", "CONSUMED"})
                          /\ (i = 4 => g[i].review.head = g[i].cp.cand /\ g[1].grant.floor \subseteq g[i].review.cap.scope)
      BY <3>3, <3>5 DEF GVChainIsProven
    <3> HIDE DEF n, g
    <3>9. GVRowEndsChain'
      <4>1. \A i \in 1..(n + 1) : h[i].cp.kind = i
        <5>1. \A i \in 1..n : h[i].cp.kind = i
          BY <3>3, <3>4
        <5>2. h[n + 1].cp.kind = n + 1
          BY <3>4, <3>6
        <5> QED BY <3>1, <5>1, <5>2
      <4>2. h[1].grant.floor \subseteq e.grant.floor
        BY <3>1, <3>3, <3>4, <3>6
      <4>3. n + 1 >= 2 => h[2].cp.cand = e.cp.cand
        BY <3>1, <3>3, <3>4, <3>6
      <4> QED BY <3>4, <3>6, <3>7, <4>1, <4>2, <4>3 DEF GVRowEndsChain
    <3>10. \A i \in 2..(n + 1) : h[i].cp.kind = i /\ h[i].cp.cand = h[2].cp.cand
      BY <3>1, <3>3, <3>4, <3>6, <3>8
    <3>11. n + 1 >= 2 => h[2].review.active = {} /\ h[2].review.head = h[2].cp.cand /\ h[2].lease \in {"none", "CONSUMED"}
      BY <3>1, <3>4, <3>6, <3>8
    <3>12. n + 1 >= 4 => h[4].review.head = h[4].cp.cand /\ h[1].grant.floor \subseteq h[4].review.cap.scope
      BY <3>1, <3>3, <3>4, <3>6, <3>8
    <3>13. GVChainIsProven'
      BY <3>1, <3>4, <3>10, <3>11, <3>12 DEF GVChainIsProven
    <3> QED BY <3>9, <3>13
  <2> QED BY <1>2, <2>1, <2>2 DEF GVProposed
<1> QED BY <1>5, <1>6, <1>7, <1>8 DEF GVInv

\* A lost write, a death and a commit change neither the row nor the chain.
LEMMA GVWorldKeeps ==
  ASSUME GVInv,
         \/ GVLose
         \/ \E c \in GVControllers : GVDie(c) \/ \E p \in GVPaths : GVBuild(c, p)
  PROVE  GVInv'
<1>1. UNCHANGED <<gv, gvFixes, gvChain>> /\ (gvWrite' = gvWrite \/ gvWrite' = GVNoWrite)
  BY DEF GVLose, GVDie, GVBuild
<1>2. GVRowSound(gv)'
  BY <1>1 DEF GVInv, GVRowSound, GVRecord, GVLeaseRecord
<1>3. GVWriteFits'
  <2>1. CASE gvWrite' = GVNoWrite
    BY <2>1 DEF GVWriteFits
  <2>2. CASE gvWrite' = gvWrite
    BY <1>1, <2>2 DEF GVInv, GVWriteFits, GVProposed, GVRowSound, GVRecord, GVLeaseRecord, GVEarned
  <2> QED BY <1>1, <2>1, <2>2
<1>4. GVFixesCounted' /\ GVRowEndsChain' /\ GVChainIsProven'
  BY <1>1 DEF GVInv, GVFixesCounted, GVRowEndsChain, GVChainIsProven
<1>5. GVWorldTyped' /\ GVOneInvocation'
  <2>1. CASE GVLose
    BY <2>1 DEF GVLose, GVInv, GVWorldTyped, GVOneInvocation
  <2>2. ASSUME NEW c \in GVControllers, GVDie(c)  PROVE GVWorldTyped' /\ GVOneInvocation'
    BY <2>2, GVBounds DEF GVDie, GVInv, GVWorldTyped, GVOneInvocation
  <2>3. ASSUME NEW c \in GVControllers, NEW p \in GVPaths, GVBuild(c, p)  PROVE GVWorldTyped' /\ GVOneInvocation'
    BY <2>3, GVBounds DEF GVBuild, GVInv, GVWorldTyped, GVOneInvocation
  <2> QED BY <2>1, <2>2, <2>3
<1> QED BY <1>2, <1>3, <1>4, <1>5 DEF GVInv

-----------------------------------------------------------------------------
(* The theorems. *)

\* The first row, of initialRecord, is sound.
LEMMA GVInitHolds == GVInit => GVInv
<1> SUFFICES ASSUME GVInit PROVE GVInv
  OBVIOUS
<1>1. gv = GVFresh /\ gvWrite = GVNoWrite
  BY DEF GVInit
<1>2. /\ gv.tip.kind = 0 /\ gv.tip.cand = 0 /\ gv.active = "none" /\ gv.inv = 0 /\ gv.rep = 0 /\ gv.leases = 0 /\ gv.fix = 0
      /\ gv.lease = GVNoLease /\ gv.batch = FALSE
  BY <1>1 DEF GVFresh, GVNoCheckpoint
<1>3. GVRecord(gv)
  BY <1>1 DEF GVRecord, GVFields, GVFresh
<1>4. GVLeaseRecord(GVNoLease) /\ GVNoLease.report = 0
  BY DEF GVLeaseRecord, GVNoLease
<1>a. gv.batch \in BOOLEAN /\ ~gv.batch
  BY <1>2
<1>b. gv.lease.report \in 0..gv.rep /\ GVLeaseRecord(gv.lease)
  BY <1>2, <1>4
<1>c. /\ gv.tip.kind \in 0..7 /\ gv.tip.cand \in 0..GVMaxCommits /\ gv.inv \in 0..GVMaxInvocations
      /\ gv.rep \in 0..GVMaxReports /\ gv.leases \in 0..GVMaxLeases /\ gv.fix \in 0..GVMaxFix
  BY <1>2, GVBounds
<1>5. GVRowSound(gv)
  BY <1>2, <1>3, <1>a, <1>b, <1>c DEF GVRowSound
<1>6. GVWriteFits
  BY <1>1 DEF GVWriteFits
<1>7. GVWorldTyped /\ GVOneInvocation
  BY GVBounds DEF GVInit, GVWorldTyped, GVOneInvocation
<1>8. GVFixesCounted
  BY DEF GVInit, GVFixesCounted
<1>9. gvChain = <<>>
  BY DEF GVInit
<1>10. GVRowEndsChain /\ GVChainIsProven
  BY <1>2, <1>9 DEF GVRowEndsChain, GVIsChain, GVChainIsProven
<1> QED BY <1>5, <1>6, <1>7, <1>8, <1>10 DEF GVInv

\* Every operation of the controllers, and every step of git and of the processes, keeps the invariant.
LEMMA GVNextKeeps == GVInv /\ [GVNext]_gvVars => GVInv'
<1> SUFFICES ASSUME GVInv, [GVNext]_gvVars PROVE GVInv'
  OBVIOUS
<1>1. CASE \/ \E floor \in GVFloors : GVDesign(floor)
           \/ \E cap \in GVCaps("B"), cand \in 0..GVHead, floor \in GVFloors : GVConverge(cap, cand, floor)
           \/ \E cap \in GVCaps("C") : GVAccept(cap)
           \/ GVFinal \/ GVPublish
  BY <1>1, GVCheckpointKeeps
<1>2. CASE \/ \E cap \in GVCaps("B"), f \in GVFindings, r \in GVRules : GVRecordEvidence(cap, f, r)
           \/ \E cap \in GVCaps("B"), active \in SUBSET GVBlockers, wants \in SUBSET GVBlockers : GVReview(cap, active, wants)
           \/ GVReviewC \/ GVComplete
  BY <1>2, GVReviewKeeps
<1>3. CASE GVIssue
  BY <1>3, GVIssueKeeps
<1>4. CASE GVBegin
  BY <1>4, GVBeginKeeps
<1>5. ASSUME NEW c \in GVControllers, NEW cap \in GVCaps("B"), NEW op \in {"implementation", "implementation_review"},
             NEW m \in BOOLEAN, NEW answered \in BOOLEAN, GVReserve(c, cap, op, m, answered)
      PROVE  GVInv'
  BY <1>5, GVReserveKeeps
<1>6. ASSUME NEW c \in GVControllers, GVFinish(c)  PROVE GVInv'
  BY <1>6, GVFinishKeeps
<1>7. CASE GVLose \/ \E c \in GVControllers : GVDie(c) \/ \E p \in GVPaths : GVBuild(c, p)
  BY <1>7, GVWorldKeeps
<1>8. CASE GVSwap
  BY <1>8, GVSwapKeeps
<1>9. CASE UNCHANGED gvVars
  <2>1. UNCHANGED <<gv, gvWrite, gvRun, gvLog, gvFixes, gvChain, gvFaults>>
    BY <1>9 DEF gvVars
  <2>2. GVRowSound(gv)' /\ GVWriteFits'
    BY <2>1 DEF GVInv, GVWriteFits, GVProposed, GVRowSound, GVRecord, GVLeaseRecord, GVEarned
  <2>3. GVWorldTyped' /\ GVOneInvocation' /\ GVFixesCounted' /\ GVRowEndsChain' /\ GVChainIsProven'
    BY <2>1 DEF GVInv, GVWorldTyped, GVOneInvocation, GVFixesCounted, GVRowEndsChain, GVChainIsProven
  <2> QED BY <2>2, <2>3 DEF GVInv
<1> QED BY <1>1, <1>2, <1>3, <1>4, <1>5, <1>6, <1>7, <1>8, <1>9, Zenon DEF GVNext

\* The controllers keep the inductive invariant, whatever races, dies or loses its answer.
THEOREM GovernanceInvariant == GVSpec => []GVInv
<1>1. GVInit => GVInv
  BY GVInitHolds
<1>2. GVInv /\ [GVNext]_gvVars => GVInv'
  BY GVNextKeeps
<1> QED BY <1>1, <1>2, PTL DEF GVSpec

\* One invocation at a time, one fix batch per lease, and a chain of checkpoints
\* each of which was earned: controllerV1's promise over compare-and-swapped rows.
THEOREM GovernanceIsSound == GVSpec => []GVSound
<1>1. GVInv => GVSound
  <2> SUFFICES ASSUME GVInv PROVE GVSound
    OBVIOUS
  <2>1. gvWrite.by \in {"none", "git"}
    BY DEF GVInv, GVWriteFits, GVNoWrite
  <2>2. GVTypeOK
    BY <2>1, GVBounds DEF GVInv, GVRowSound, GVWorldTyped, GVTypeOK
  <2>3. GVLeaseOnce
    BY DEF GVInv, GVFixesCounted, GVLeaseOnce
  <2> QED BY <2>2, <2>3 DEF GVInv, GVSound
<1> QED BY <1>1, GovernanceInvariant, PTL

-----------------------------------------------------------------------------
(* Recovery: a command acts for a dead owner and destroys nothing unsaved. *)

RCCapturing == {"capture", "archive", "publish"}
RCComparing == {"head", "diff", "untracked", "progress"}
RCAts == RCCapturing \cup RCComparing \cup {"idle", "decide", "clean", "remove", "finish", "restart"}
RCSnapshots == [RCParts -> 0..RCMaxEdits]
RCCalls == [at : RCAts, request : RCRequests, snapshot : RCSnapshots, late : SUBSET RCParts]
RCEvents == {"INSPECTED", "SNAPSHOT_PUBLISHED", "DECIDED", "CLEANUP_AUTHORIZED", "CLEANUP_FAILED", "CLEANUP_COMPLETED",
             "AUTHORIZED", "RESTART_PREPARED"}

RCCallsTyped == rcCall \in [RCIds -> RCCalls] /\ rcLog \in [RCIds -> SUBSET RCEvents]

\* A command at work has seen its owner dead, and the dead stay dead.
RCOwnerIsDead(i) == rcCall[i].at # "idle" => rcOwner # "running"

\* An id is taken for good, and its snapshot is published once.
RCIdIsOnce(i) ==
  /\ rcCall[i].at # "idle" \/ rcFiles[i].published => rcFiles[i].taken
  /\ rcCall[i].at \in RCCapturing => ~rcFiles[i].published

\* From the publication on the command's snapshot is the published one; from the
\* authorization on it is whole and the cleanup is on record.
RCAuthorizedSnapshot(i) ==
  /\ rcCall[i].at \notin RCCapturing \cup {"idle"} => rcFiles[i].published /\ rcFiles[i].snapshot = rcCall[i].snapshot
  /\ rcCall[i].at \notin RCCapturing \cup {"idle", "decide"} => RCWhole(rcCall[i].snapshot) /\ "CLEANUP_AUTHORIZED" \in rcLog[i]

\* The parts compared before a command stands at at.
RCPassed(at) ==
  CASE at = "diff" -> {"head"}
    [] at = "untracked" -> {"head", "diff"}
    [] at = "progress" -> {"head", "diff", "untracked"}
    [] at = "remove" -> RCParts
    [] OTHER -> {}

\* A part that was compared is still as it was, or it was edited since.
RCComparedIsKept(i) == \A p \in RCPassed(rcCall[i].at) : rcWork[p] = rcCall[i].snapshot[p] \/ p \in rcCall[i].late

\* A restart follows a completed, authorized cleanup.
RCRestartIsEarned(i) ==
  rcCall[i].at = "restart" \/ "RESTART_PREPARED" \in rcLog[i] => {"CLEANUP_COMPLETED", "CLEANUP_AUTHORIZED"} \subseteq rcLog[i]

\* The command that removed the worktree.
RCRemover(i) == rcCall[i].at \in {"finish", "restart"} \/ {"CLEANUP_COMPLETED", "RESTART_PREPARED"} \cap rcLog[i] # {}

RCOneRemover ==
  /\ \A i \in RCIds : RCRemover(i) => ~rcTree
  /\ \A i, j \in RCIds : RCRemover(i) /\ RCRemover(j) => i = j

\* What is true of each command by itself.
RCCommandSound(i) == RCOwnerIsDead(i) /\ RCIdIsOnce(i) /\ RCAuthorizedSnapshot(i) /\ RCComparedIsKept(i) /\ RCRestartIsEarned(i)

\* The inductive invariant.
RCInv ==
  /\ RCTypeOK /\ RCCallsTyped /\ (\A i \in RCIds : RCCommandSound(i))
  /\ RCRemovedWasDead /\ RCRemovedIsKept /\ RCOneRemover

-----------------------------------------------------------------------------
(* Facts about the operators. *)

\* The comparisons come in the cleaner's order: HEAD, the diff, the untracked
\* files, the progress, then the removal.
LEMMA RCAfterIsNext ==
  /\ RCAfter("head") = "diff" /\ RCAfter("diff") = "untracked"
  /\ RCAfter("untracked") = "progress" /\ RCAfter("progress") = "remove"
<1>1. DOMAIN RCCompared = 1..4
  BY DEF RCCompared
<1>2. Cardinality(1..4) = 4
  <2>1. Cardinality(1..4) = IF 1 > 4 THEN 0 ELSE 4 - 1 + 1
    BY FS_Interval, 1 \in Int, 4 \in Int
  <2> QED BY <2>1
<1>3. RCCompared[1] = "head" /\ RCCompared[2] = "diff" /\ RCCompared[3] = "untracked" /\ RCCompared[4] = "progress"
  BY DEF RCCompared
<1>4. \A k \in 1..4 : k = 1 \/ k = 2 \/ k = 3 \/ k = 4
  OBVIOUS
<1>5. (CHOOSE k \in 1..4 : RCCompared[k] = "head") = 1
  BY <1>3, <1>4
<1>6. (CHOOSE k \in 1..4 : RCCompared[k] = "diff") = 2
  BY <1>3, <1>4
<1>7. (CHOOSE k \in 1..4 : RCCompared[k] = "untracked") = 3
  BY <1>3, <1>4
<1>8. (CHOOSE k \in 1..4 : RCCompared[k] = "progress") = 4
  BY <1>3, <1>4
<1> QED BY <1>1, <1>2, <1>3, <1>5, <1>6, <1>7, <1>8 DEF RCAfter

\* The operator asks for the exact request, or for one with one field changed.
LEMMA RCIdleTyped == RCExact \in RCRequests /\ RCIdle \in RCCalls /\ RCIdle.at = "idle"
<1>1. RCExact \in RCRequests
  BY DEF RCRequests
<1>2. [p \in RCParts |-> 0] \in RCSnapshots
  BY RCAssumption DEF RCSnapshots
<1> QED BY <1>1, <1>2 DEF RCIdle, RCCalls, RCAts

\* A positive proof of death is a dead owner and a worktree that is there.
LEMMA RCProofOfDeath ==
  ASSUME NEW q, NEW readable, RCPositiveOwnerDead(q, readable)
  PROVE  rcOwner # "running" /\ rcTree
BY DEF RCPositiveOwnerDead, RCClassification, RCProof, RCDeadProofs

-----------------------------------------------------------------------------
(* A step of one command. *)

RCPublishedFiles == [taken : BOOLEAN, published : BOOLEAN, snapshot : RCSnapshots]

\* Command i goes to state c and adds events; the worktree stays, and a published
\* snapshot too.
RCOneCommand(i, c, add) ==
  /\ c \in RCCalls /\ rcCall' = [rcCall EXCEPT ![i] = c]
  /\ add \in SUBSET RCEvents /\ rcLog' = [rcLog EXCEPT ![i] = @ \cup add]
  /\ UNCHANGED <<rcOwner, rcTree, rcWork, rcLost, rcEdits>> /\ rcFaults' \in 0..RCMaxFaults
  /\ \E f \in RCPublishedFiles :
       /\ rcFiles' = [rcFiles EXCEPT ![i] = f]
       /\ rcFiles[i].published => f.published /\ f.snapshot = rcFiles[i].snapshot

\* What such a step leaves alone.
LEMMA RCOneCommandFrame ==
  ASSUME RCInv, NEW i \in RCIds, NEW c, NEW add, RCOneCommand(i, c, add)
  PROVE  /\ RCTypeOK' /\ RCCallsTyped'
         /\ rcCall'[i] = c /\ rcLog'[i] = rcLog[i] \cup add
         /\ \A k \in RCIds : /\ rcLog[k] \subseteq rcLog'[k]
                             /\ rcFiles[k].published => rcFiles'[k].published /\ rcFiles'[k].snapshot = rcFiles[k].snapshot
         /\ \A k \in RCIds \ {i} : rcCall'[k] = rcCall[k] /\ rcLog'[k] = rcLog[k] /\ rcFiles'[k] = rcFiles[k]
<1>1. rcCall \in [RCIds -> RCCalls] /\ rcLog \in [RCIds -> SUBSET RCEvents] /\ rcFiles \in [RCIds -> RCPublishedFiles]
  BY DEF RCInv, RCCallsTyped, RCTypeOK, RCPublishedFiles, RCSnapshots
<1>2. PICK f \in RCPublishedFiles :
        /\ rcFiles' = [rcFiles EXCEPT ![i] = f]
        /\ rcFiles[i].published => f.published /\ f.snapshot = rcFiles[i].snapshot
  BY DEF RCOneCommand
<1>3. c \in RCCalls /\ add \in SUBSET RCEvents /\ rcCall' = [rcCall EXCEPT ![i] = c] /\ rcLog' = [rcLog EXCEPT ![i] = @ \cup add]
  BY DEF RCOneCommand
<1>4. rcCall' \in [RCIds -> RCCalls] /\ rcCall'[i] = c /\ \A k \in RCIds \ {i} : rcCall'[k] = rcCall[k]
  BY <1>1, <1>3
<1>5. rcLog' \in [RCIds -> SUBSET RCEvents] /\ rcLog'[i] = rcLog[i] \cup add /\ \A k \in RCIds \ {i} : rcLog'[k] = rcLog[k]
  BY <1>1, <1>3
<1>6. rcFiles' \in [RCIds -> RCPublishedFiles] /\ rcFiles'[i] = f /\ \A k \in RCIds \ {i} : rcFiles'[k] = rcFiles[k]
  BY <1>1, <1>2
<1>7. \A k \in RCIds : rcCall'[k].request \in RCRequests /\ rcCall'[k].late \subseteq RCParts
  BY <1>4 DEF RCCalls
<1>8. RCTypeOK'
  BY <1>6, <1>7 DEF RCOneCommand, RCInv, RCTypeOK, RCPublishedFiles, RCSnapshots
<1>9. \A k \in RCIds : rcFiles[k].published => rcFiles'[k].published /\ rcFiles'[k].snapshot = rcFiles[k].snapshot
  BY <1>2, <1>6
<1>10. \A k \in RCIds : rcLog[k] \subseteq rcLog'[k]
  BY <1>5
<1> QED BY <1>4, <1>5, <1>6, <1>8, <1>9, <1>10 DEF RCCallsTyped

\* Such a step keeps the invariant when the command that took it is sound after
\* it and is no remover that it was not.
LEMMA RCOneCommandKeeps ==
  ASSUME RCInv, NEW i \in RCIds, NEW c, NEW add, RCOneCommand(i, c, add),
         RCCommandSound(i)', RCRemover(i)' => RCRemover(i)
  PROVE  RCInv'
<1>1. /\ RCTypeOK' /\ RCCallsTyped'
      /\ \A k \in RCIds : /\ rcLog[k] \subseteq rcLog'[k]
                          /\ rcFiles[k].published => rcFiles'[k].published /\ rcFiles'[k].snapshot = rcFiles[k].snapshot
      /\ \A k \in RCIds \ {i} : rcCall'[k] = rcCall[k] /\ rcLog'[k] = rcLog[k] /\ rcFiles'[k] = rcFiles[k]
  BY RCOneCommandFrame
<1>2. UNCHANGED <<rcOwner, rcTree, rcWork, rcLost, rcEdits>>
  BY DEF RCOneCommand
<1>3. ASSUME NEW k \in RCIds \ {i}  PROVE RCCommandSound(k)'
  <2>1. RCCommandSound(k) /\ UNCHANGED <<rcCall[k], rcLog[k], rcFiles[k], rcOwner, rcWork>>
    BY <1>1, <1>2, <1>3 DEF RCInv
  <2> QED BY <2>1 DEF RCCommandSound, RCOwnerIsDead, RCIdIsOnce, RCAuthorizedSnapshot, RCComparedIsKept, RCRestartIsEarned, RCWhole
<1>4. \A k \in RCIds : RCRemover(k)' => RCRemover(k)
  BY <1>1 DEF RCRemover
<1>5. RCOneRemover'
  BY <1>2, <1>4 DEF RCInv, RCOneRemover
<1>6. RCRemovedWasDead'
  BY <1>2 DEF RCInv, RCRemovedWasDead
<1>7. RCRemovedIsKept'
  BY <1>1, <1>2 DEF RCInv, RCRemovedIsKept
<1> QED BY <1>1, <1>3, <1>5, <1>6, <1>7 DEF RCInv

\* A command that refuses, fails its cleanup or dies keeps the invariant: it
\* forgets its call and adds no event of a removal.
LEMMA RCRefuseKeeps ==
  ASSUME RCInv, NEW i \in RCIds, NEW add, RCOneCommand(i, RCIdle, add),
         {"CLEANUP_COMPLETED", "RESTART_PREPARED"} \cap add = {}, rcFiles' = rcFiles
  PROVE  RCInv'
<1>1. rcCall'[i] = RCIdle /\ rcLog'[i] = rcLog[i] \cup add
  BY RCOneCommandFrame
<1>2. rcCall'[i].at = "idle"
  BY <1>1, RCIdleTyped
<1>3. RCRemover(i)' => RCRemover(i)
  BY <1>1, <1>2 DEF RCRemover
<1>4. RCCommandSound(i) /\ UNCHANGED rcFiles
  BY DEF RCInv
<1>5. RCRestartIsEarned(i)'
  BY <1>1, <1>2, <1>4 DEF RCCommandSound, RCRestartIsEarned
<1>6. RCComparedIsKept(i)'
  BY <1>2 DEF RCComparedIsKept, RCPassed
<1>7. RCOwnerIsDead(i)' /\ RCIdIsOnce(i)' /\ RCAuthorizedSnapshot(i)'
  BY <1>2, <1>4 DEF RCCommandSound, RCOwnerIsDead, RCIdIsOnce, RCAuthorizedSnapshot, RCCapturing
<1> QED BY <1>3, <1>5, <1>6, <1>7, RCOneCommandKeeps DEF RCCommandSound

\* A step that refuses, with the ledger left alone or one event added.
LEMMA RCRefused ==
  ASSUME RCInv, NEW i \in RCIds, NEW add \in SUBSET RCEvents, RCRefuse(i), rcLog' = [rcLog EXCEPT ![i] = @ \cup add],
         UNCHANGED <<rcOwner, rcTree, rcWork, rcFiles, rcLost, rcEdits>>, rcFaults' \in 0..RCMaxFaults,
         {"CLEANUP_COMPLETED", "RESTART_PREPARED"} \cap add = {}
  PROVE  RCInv'
<1>1. rcFiles \in [RCIds -> RCPublishedFiles]
  BY DEF RCInv, RCTypeOK, RCPublishedFiles, RCSnapshots
<1>2. rcFiles[i] \in RCPublishedFiles /\ rcFiles' = [rcFiles EXCEPT ![i] = rcFiles[i]]
  BY <1>1
<1>3. RCOneCommand(i, RCIdle, add)
  BY <1>2, RCIdleTyped DEF RCOneCommand, RCRefuse
<1> QED BY <1>3, RCRefuseKeeps

\* A step that leaves the ledger alone is one that adds nothing to it.
LEMMA RCNothingAdded ==
  ASSUME RCInv, NEW i \in RCIds, rcLog' = rcLog
  PROVE  rcLog' = [rcLog EXCEPT ![i] = @ \cup {}]
<1>1. rcLog \in [RCIds -> SUBSET RCEvents] /\ rcLog[i] \cup {} = rcLog[i]
  BY DEF RCInv, RCCallsTyped
<1> QED BY <1>1

\* The same of the published artifacts.
LEMMA RCNothingPublished ==
  ASSUME RCInv, NEW i \in RCIds, rcFiles' = rcFiles
  PROVE  \E f \in RCPublishedFiles :
           /\ rcFiles' = [rcFiles EXCEPT ![i] = f]
           /\ rcFiles[i].published => f.published /\ f.snapshot = rcFiles[i].snapshot
<1>1. rcFiles \in [RCIds -> RCPublishedFiles]
  BY DEF RCInv, RCTypeOK, RCPublishedFiles, RCSnapshots
<1>2. rcFiles[i] \in RCPublishedFiles /\ rcFiles' = [rcFiles EXCEPT ![i] = rcFiles[i]]
  BY <1>1
<1> QED BY <1>2

\* A process table that could not be read is a fault, and the faults are counted.
LEMMA RCFaultsCounted ==
  ASSUME RCInv, NEW readable \in RCReadable, RCFaultOf(readable)
  PROVE  rcFaults' \in 0..RCMaxFaults
<1>1. rcFaults \in 0..RCMaxFaults /\ RCMaxFaults \in Nat
  BY RCAssumption DEF RCInv, RCTypeOK
<1>2. readable = TRUE \/ rcFaults < RCMaxFaults
  BY DEF RCReadable
<1> QED BY <1>1, <1>2 DEF RCFaultOf

\* A refusal that adds no event.
LEMMA RCRefusedQuietly ==
  ASSUME RCInv, NEW i \in RCIds, RCRefuse(i), UNCHANGED <<rcOwner, rcTree, rcWork, rcFiles, rcLog, rcLost, rcEdits>>,
         rcFaults' \in 0..RCMaxFaults
  PROVE  RCInv'
<1>1. rcLog' = [rcLog EXCEPT ![i] = @ \cup {}]
  BY RCNothingAdded
<1>2. {} \in SUBSET RCEvents /\ {"CLEANUP_COMPLETED", "RESTART_PREPARED"} \cap {} = {}
  OBVIOUS
<1> QED BY <1>1, <1>2, RCRefused

-----------------------------------------------------------------------------
(* The steps of a command, one by one. *)

\* abcp recovery-resume begins.
LEMMA RCCommandKeeps ==
  ASSUME RCInv, NEW i \in RCIds, NEW q \in RCRequests, NEW readable \in RCReadable, RCCommand(i, q, readable)
  PROVE  RCInv'
<1>1. /\ rcCall[i].at = "idle" /\ ~rcFiles[i].taken /\ rcFiles' = [rcFiles EXCEPT ![i].taken = TRUE]
      /\ rcLog' = [rcLog EXCEPT ![i] = @ \cup {"INSPECTED"}]
      /\ UNCHANGED <<rcOwner, rcTree, rcWork, rcLost, rcEdits>> /\ rcFaults' \in 0..RCMaxFaults
  BY RCFaultsCounted DEF RCCommand, RCFree, RCAppend
<1>2. rcFiles \in [RCIds -> RCPublishedFiles] /\ RCCommandSound(i)
  BY DEF RCInv, RCTypeOK, RCPublishedFiles, RCSnapshots
<1> DEFINE f == [rcFiles[i] EXCEPT !.taken = TRUE]
<1>3. f \in RCPublishedFiles /\ f.published = rcFiles[i].published /\ f.snapshot = rcFiles[i].snapshot /\ f.taken
  BY <1>2 DEF RCPublishedFiles
<1>4. rcFiles' = [rcFiles EXCEPT ![i] = f]
  BY <1>1, <1>2
<1>5. ~rcFiles[i].published
  BY <1>1, <1>2 DEF RCCommandSound, RCIdIsOnce
<1> DEFINE c == IF RCPositiveOwnerDead(q, readable) THEN [RCIdle EXCEPT !.at = "capture", !.request = q] ELSE RCIdle
<1>6. c \in RCCalls /\ (c.at = "idle" \/ (c.at = "capture" /\ RCPositiveOwnerDead(q, readable)))
  BY RCIdleTyped DEF RCCalls, RCAts, RCCapturing
<1>7. rcCall' = [rcCall EXCEPT ![i] = c]
  BY DEF RCCommand, RCRefuse
<1> HIDE DEF f, c
<1>8. RCOneCommand(i, c, {"INSPECTED"})
  BY <1>1, <1>3, <1>4, <1>6, <1>7 DEF RCOneCommand, RCEvents
<1>9. rcCall'[i] = c /\ rcLog'[i] = rcLog[i] \cup {"INSPECTED"} /\ rcFiles'[i] = f
  BY <1>2, <1>4, <1>8, RCOneCommandFrame
<1>10. rcCall'[i].at \in {"idle", "capture"}
  BY <1>6, <1>9
<1>11. RCRemover(i)' => RCRemover(i)
  BY <1>9, <1>10 DEF RCRemover
<1>12. RCOwnerIsDead(i)'
  BY <1>1, <1>6, <1>9, RCProofOfDeath DEF RCOwnerIsDead
<1>13. RCIdIsOnce(i)' /\ RCAuthorizedSnapshot(i)'
  BY <1>3, <1>5, <1>9, <1>10 DEF RCIdIsOnce, RCAuthorizedSnapshot, RCCapturing
<1>14. RCComparedIsKept(i)'
  BY <1>10 DEF RCComparedIsKept, RCPassed
<1>15. RCRestartIsEarned(i)'
  BY <1>1, <1>2, <1>9, <1>10 DEF RCCommandSound, RCRestartIsEarned
<1> QED BY <1>8, <1>11, <1>12, <1>13, <1>14, <1>15, RCOneCommandKeeps DEF RCCommandSound

\* A command that goes on in its call, writes nothing and leaves the worktree
\* alone: what its new state has to satisfy.
LEMMA RCGoesOn ==
  ASSUME RCInv, NEW i \in RCIds, NEW c \in RCCalls, rcCall' = [rcCall EXCEPT ![i] = c], rcCall[i].at # "idle",
         UNCHANGED <<rcOwner, rcTree, rcWork, rcFiles, rcLog, rcLost, rcEdits>>, rcFaults' \in 0..RCMaxFaults,
         \/ rcCall[i].at \in RCCapturing /\ c.at \in RCCapturing
         \/ /\ rcCall[i].at \in {"clean"} \cup RCComparing /\ c.at \in RCComparing \cup {"remove"} /\ c.snapshot = rcCall[i].snapshot
            /\ \A p \in RCPassed(c.at) : rcWork[p] = c.snapshot[p] \/ p \in c.late
  PROVE  RCInv'
<1>1. RCOneCommand(i, c, {})
  BY RCNothingAdded, RCNothingPublished DEF RCOneCommand
<1>2. rcCall'[i] = c /\ rcLog'[i] = rcLog[i] /\ rcFiles'[i] = rcFiles[i]
  BY <1>1, RCOneCommandFrame
<1>3. RCCommandSound(i)
  BY DEF RCInv
<1>4. RCRemover(i)' => RCRemover(i)
  BY <1>2 DEF RCRemover, RCCapturing, RCComparing
<1>5. RCOwnerIsDead(i)' /\ RCIdIsOnce(i)' /\ RCRestartIsEarned(i)'
  BY <1>2, <1>3 DEF RCCommandSound, RCOwnerIsDead, RCIdIsOnce, RCRestartIsEarned, RCCapturing, RCComparing
<1>6. RCComparedIsKept(i)'
  BY <1>2 DEF RCComparedIsKept, RCPassed, RCCapturing, RCComparing
<1>7. RCAuthorizedSnapshot(i)'
  BY <1>2, <1>3 DEF RCCommandSound, RCAuthorizedSnapshot, RCCapturing, RCComparing
<1> QED BY <1>1, <1>4, <1>5, <1>6, <1>7, RCOneCommandKeeps DEF RCCommandSound

\* The snapshot inspects and reads HEAD and the diff.
LEMMA RCCaptureDiffKeeps ==
  ASSUME RCInv, NEW i \in RCIds, NEW readable \in RCReadable, RCCaptureDiff(i, readable)
  PROVE  RCInv'
<1>1. /\ rcCall[i].at = "capture" /\ UNCHANGED <<rcOwner, rcTree, rcWork, rcFiles, rcLog, rcLost, rcEdits>>
      /\ rcFaults' \in 0..RCMaxFaults
  BY RCFaultsCounted DEF RCCaptureDiff
<1>2. CASE RCRefuse(i)
  BY <1>1, <1>2, RCRefusedQuietly
<1>3. CASE ~RCRefuse(i)
  <2> DEFINE c == [rcCall[i] EXCEPT !.at = "archive", !.snapshot.head = rcWork.head, !.snapshot.diff = rcWork.diff]
  <2>1. rcCall \in [RCIds -> RCCalls] /\ rcWork \in RCSnapshots
    BY DEF RCInv, RCCallsTyped, RCTypeOK, RCSnapshots
  <2>2. rcCall' = [rcCall EXCEPT ![i] = c]
    BY <1>3, <2>1 DEF RCCaptureDiff
  <2>3. rcWork.head \in 0..RCMaxEdits /\ rcWork.diff \in 0..RCMaxEdits /\ rcCall[i].snapshot \in RCSnapshots
    BY <2>1 DEF RCSnapshots, RCParts, RCCalls
  <2>4. [[rcCall[i].snapshot EXCEPT !.head = rcWork.head] EXCEPT !.diff = rcWork.diff] \in RCSnapshots
    BY <2>3 DEF RCSnapshots
  <2>5. c \in RCCalls /\ c.at = "archive"
    BY <2>1, <2>4 DEF RCCalls, RCAts, RCCapturing
  <2> HIDE DEF c
  <2> QED BY <1>1, <2>2, <2>5, RCGoesOn DEF RCCapturing
<1> QED BY <1>2, <1>3

\* The untracked files are archived.
LEMMA RCCaptureUntrackedKeeps ==
  ASSUME RCInv, NEW i \in RCIds, RCCaptureUntracked(i)
  PROVE  RCInv'
<1>1. /\ rcCall[i].at = "archive" /\ UNCHANGED <<rcOwner, rcTree, rcWork, rcFiles, rcLog, rcLost, rcEdits>>
      /\ rcFaults' \in 0..RCMaxFaults
  BY DEF RCCaptureUntracked, RCInv, RCTypeOK
<1>2. CASE RCRefuse(i)
  BY <1>1, <1>2, RCRefusedQuietly
<1>3. CASE ~RCRefuse(i)
  <2> DEFINE c == [rcCall[i] EXCEPT !.at = "publish", !.snapshot.untracked = rcWork.untracked]
  <2>1. rcCall \in [RCIds -> RCCalls] /\ rcWork \in RCSnapshots
    BY DEF RCInv, RCCallsTyped, RCTypeOK, RCSnapshots
  <2>2. rcCall' = [rcCall EXCEPT ![i] = c]
    BY <1>3, <2>1 DEF RCCaptureUntracked
  <2>3. rcWork.untracked \in 0..RCMaxEdits /\ rcCall[i].snapshot \in RCSnapshots
    BY <2>1 DEF RCSnapshots, RCParts, RCCalls
  <2>4. [rcCall[i].snapshot EXCEPT !.untracked = rcWork.untracked] \in RCSnapshots
    BY <2>3 DEF RCSnapshots
  <2>5. c \in RCCalls /\ c.at = "publish"
    BY <2>1, <2>4 DEF RCCalls, RCAts, RCCapturing
  <2> HIDE DEF c
  <2> QED BY <1>1, <2>2, <2>5, RCGoesOn DEF RCCapturing
<1> QED BY <1>2, <1>3

\* The progress files are archived and the snapshot is published.
LEMMA RCCaptureProgressKeeps ==
  ASSUME RCInv, NEW i \in RCIds, RCCaptureProgress(i)
  PROVE  RCInv'
<1>1. /\ rcCall[i].at = "publish" /\ UNCHANGED <<rcOwner, rcTree, rcWork, rcLost, rcEdits>>
      /\ rcFaults' \in 0..RCMaxFaults
  BY DEF RCCaptureProgress, RCInv, RCTypeOK
<1>2. CASE ~(rcTree /\ rcWork.head = rcCall[i].snapshot.head)
  <2>1. RCRefuse(i) /\ UNCHANGED <<rcFiles, rcLog>>
    BY <1>2 DEF RCCaptureProgress
  <2> QED BY <1>1, <2>1, RCRefusedQuietly
<1>3. CASE rcTree /\ rcWork.head = rcCall[i].snapshot.head
  <2> DEFINE taken == [rcCall[i].snapshot EXCEPT !.progress = rcWork.progress]
             c == [rcCall[i] EXCEPT !.at = "decide", !.snapshot = taken]
             f == [rcFiles[i] EXCEPT !.published = TRUE, !.snapshot = taken]
  <2>1. rcCall \in [RCIds -> RCCalls] /\ rcWork \in RCSnapshots /\ rcFiles \in [RCIds -> RCPublishedFiles] /\ RCCommandSound(i)
    BY DEF RCInv, RCCallsTyped, RCTypeOK, RCSnapshots, RCPublishedFiles
  <2>2. /\ rcCall' = [rcCall EXCEPT ![i].at = "decide", ![i].snapshot = taken]
        /\ rcFiles' = [rcFiles EXCEPT ![i].published = TRUE, ![i].snapshot = taken]
        /\ rcLog' = [rcLog EXCEPT ![i] = @ \cup {"SNAPSHOT_PUBLISHED"}]
    BY <1>3 DEF RCCaptureProgress, RCProgress, RCAppend
  <2>3. rcWork.progress \in 0..RCMaxEdits /\ rcCall[i].snapshot \in RCSnapshots
    BY <2>1 DEF RCSnapshots, RCParts, RCCalls
  <2>4. taken \in RCSnapshots
    BY <2>3 DEF RCSnapshots
  <2> HIDE DEF taken
  <2>5. rcCall' = [rcCall EXCEPT ![i] = c] /\ rcFiles' = [rcFiles EXCEPT ![i] = f]
    BY <2>1, <2>2
  <2>6. c \in RCCalls /\ c.at = "decide" /\ c.snapshot = taken
    BY <2>1, <2>4 DEF RCCalls, RCAts
  <2>7. f \in RCPublishedFiles /\ f.published /\ f.snapshot = taken /\ f.taken = rcFiles[i].taken
    BY <2>1, <2>4 DEF RCPublishedFiles
  <2> HIDE DEF c, f
  <2>8. ~rcFiles[i].published /\ rcFiles[i].taken
    BY <1>1, <2>1 DEF RCCommandSound, RCIdIsOnce, RCCapturing
  <2>9. RCOneCommand(i, c, {"SNAPSHOT_PUBLISHED"})
    BY <1>1, <2>2, <2>5, <2>6, <2>7, <2>8 DEF RCOneCommand, RCEvents
  <2>10. rcCall'[i] = c /\ rcLog'[i] = rcLog[i] \cup {"SNAPSHOT_PUBLISHED"}
    BY <2>9, RCOneCommandFrame
  <2>11. rcFiles'[i] = f
    BY <2>1, <2>5
  <2>12. RCRemover(i)' => RCRemover(i)
    BY <2>6, <2>10 DEF RCRemover
  <2>13. RCOwnerIsDead(i)' /\ RCIdIsOnce(i)' /\ RCRestartIsEarned(i)'
    BY <1>1, <2>1, <2>6, <2>7, <2>8, <2>10, <2>11 DEF RCCommandSound, RCOwnerIsDead, RCIdIsOnce, RCRestartIsEarned, RCCapturing
  <2>14. RCComparedIsKept(i)'
    BY <2>6, <2>10 DEF RCComparedIsKept, RCPassed
  <2>15. RCAuthorizedSnapshot(i)'
    BY <2>6, <2>7, <2>10, <2>11 DEF RCAuthorizedSnapshot
  <2> QED BY <2>9, <2>12, <2>13, <2>14, <2>15, RCOneCommandKeeps DEF RCCommandSound
<1> QED BY <1>2, <1>3

\* The failure is classified and the cleanup authorized, or refused.
LEMMA RCDecideKeeps ==
  ASSUME RCInv, NEW i \in RCIds, RCDecide(i)
  PROVE  RCInv'
<1> DEFINE q == rcCall[i].request
           authorized == RCRequirementFits(q) /\ RCAuthorityFits(q) /\ RCCleanupAuthorized(q) /\ RCWhole(rcCall[i].snapshot)
           add == RCDecided(q) \cup (IF authorized THEN {"CLEANUP_AUTHORIZED"} ELSE {})
           c == [rcCall[i] EXCEPT !.at = "clean"]
<1>1. /\ rcCall[i].at = "decide" /\ UNCHANGED <<rcOwner, rcTree, rcWork, rcFiles, rcLost, rcEdits>>
      /\ rcFaults' \in 0..RCMaxFaults
  BY DEF RCDecide, RCInv, RCTypeOK
<1>2. rcCall \in [RCIds -> RCCalls] /\ rcLog \in [RCIds -> SUBSET RCEvents] /\ RCCommandSound(i)
  BY DEF RCInv, RCCallsTyped
<1>3. add \in SUBSET RCEvents /\ {"CLEANUP_COMPLETED", "RESTART_PREPARED"} \cap add = {} /\ (authorized => "CLEANUP_AUTHORIZED" \in add)
  BY DEF RCDecided, RCEvents
<1>4. rcLog' = [rcLog EXCEPT ![i] = @ \cup add]
  <2>1. rcLog' = [rcLog EXCEPT ![i] = (rcLog[i] \cup RCDecided(q)) \cup (IF authorized THEN {"CLEANUP_AUTHORIZED"} ELSE {})]
    BY <1>2 DEF RCDecide
  <2>2. (rcLog[i] \cup RCDecided(q)) \cup (IF authorized THEN {"CLEANUP_AUTHORIZED"} ELSE {}) = rcLog[i] \cup add
    OBVIOUS
  <2> QED BY <1>2, <2>1, <2>2
<1>5. CASE ~authorized
  <2>1. RCRefuse(i)
    BY <1>5 DEF RCDecide
  <2> HIDE DEF add
  <2> QED BY <1>1, <1>3, <1>4, <2>1, RCRefused
<1>6. CASE authorized
  <2>1. rcCall' = [rcCall EXCEPT ![i] = c]
    BY <1>2, <1>6 DEF RCDecide, RCMove
  <2>2. c \in RCCalls /\ c.at = "clean" /\ c.snapshot = rcCall[i].snapshot /\ RCWhole(c.snapshot)
    BY <1>2, <1>6 DEF RCCalls, RCAts
  <2> HIDE DEF c, add
  <2>3. RCOneCommand(i, c, add)
    BY <1>1, <1>3, <1>4, <2>1, <2>2, RCNothingPublished DEF RCOneCommand
  <2>4. rcCall'[i] = c /\ rcLog'[i] = rcLog[i] \cup add /\ rcFiles'[i] = rcFiles[i]
    BY <1>1, <2>3, RCOneCommandFrame
  <2>5. RCRemover(i)' => RCRemover(i)
    BY <1>3, <2>2, <2>4 DEF RCRemover
  <2>6. RCOwnerIsDead(i)' /\ RCIdIsOnce(i)'
    BY <1>1, <1>2, <2>2, <2>4 DEF RCCommandSound, RCOwnerIsDead, RCIdIsOnce, RCCapturing
  <2>7. RCRestartIsEarned(i)'
    BY <1>2, <1>3, <2>2, <2>4 DEF RCCommandSound, RCRestartIsEarned
  <2>8. RCComparedIsKept(i)'
    BY <2>2, <2>4 DEF RCComparedIsKept, RCPassed
  <2>9. RCAuthorizedSnapshot(i)'
    BY <1>1, <1>2, <1>3, <1>6, <2>2, <2>4 DEF RCCommandSound, RCAuthorizedSnapshot, RCCapturing
  <2> QED BY <2>3, <2>5, <2>6, <2>7, <2>8, <2>9, RCOneCommandKeeps DEF RCCommandSound
<1> QED BY <1>5, <1>6

\* A cleanup that fails.
LEMMA RCCleanupFailsKeeps ==
  ASSUME RCInv, NEW i \in RCIds, RCCleanupFails(i), UNCHANGED <<rcOwner, rcTree, rcWork, rcFiles, rcLost, rcEdits>>,
         rcFaults' \in 0..RCMaxFaults
  PROVE  RCInv'
<1>1. {"CLEANUP_FAILED"} \in SUBSET RCEvents /\ {"CLEANUP_COMPLETED", "RESTART_PREPARED"} \cap {"CLEANUP_FAILED"} = {}
  BY DEF RCEvents
<1>2. RCRefuse(i) /\ rcLog' = [rcLog EXCEPT ![i] = @ \cup {"CLEANUP_FAILED"}]
  BY DEF RCCleanupFails, RCAppend
<1> QED BY <1>1, <1>2, RCRefused

\* The cleaner's inspection.
LEMMA RCCleanInspectKeeps ==
  ASSUME RCInv, NEW i \in RCIds, NEW readable \in RCReadable, RCCleanInspect(i, readable)
  PROVE  RCInv'
<1>1. /\ rcCall[i].at = "clean" /\ UNCHANGED <<rcOwner, rcTree, rcWork, rcFiles, rcLost, rcEdits>>
      /\ rcFaults' \in 0..RCMaxFaults
  BY RCFaultsCounted DEF RCCleanInspect
<1>2. CASE RCCleanupFails(i)
  BY <1>1, <1>2, RCCleanupFailsKeeps
<1>3. CASE RCMove(i, "head") /\ UNCHANGED rcLog
  <2> DEFINE c == [rcCall[i] EXCEPT !.at = "head"]
  <2>1. rcCall \in [RCIds -> RCCalls]
    BY DEF RCInv, RCCallsTyped
  <2>2. rcCall' = [rcCall EXCEPT ![i] = c]
    BY <1>3, <2>1 DEF RCMove
  <2>3. c \in RCCalls /\ c.at = "head" /\ c.snapshot = rcCall[i].snapshot
    BY <2>1 DEF RCCalls, RCAts, RCComparing
  <2> HIDE DEF c
  <2>4. RCPassed(c.at) = {}
    BY <2>3 DEF RCPassed
  <2> QED BY <1>1, <1>3, <2>2, <2>3, <2>4, RCGoesOn DEF RCComparing
<1> QED BY <1>2, <1>3 DEF RCCleanInspect

\* The cleaner compares one part with the snapshot.
LEMMA RCCompareKeeps ==
  ASSUME RCInv, NEW i \in RCIds, NEW p \in RCParts, RCCompare(i, p)
  PROVE  RCInv'
<1>1. /\ rcCall[i].at = p /\ UNCHANGED <<rcOwner, rcTree, rcWork, rcFiles, rcLost, rcEdits>>
      /\ rcFaults' \in 0..RCMaxFaults
  BY DEF RCCompare, RCInv, RCTypeOK
<1>2. CASE RCCleanupFails(i)
  BY <1>1, <1>2, RCCleanupFailsKeeps
<1>3. CASE RCUnchanged(i, p) /\ RCMove(i, RCAfter(p)) /\ UNCHANGED rcLog
  <2> DEFINE c == [rcCall[i] EXCEPT !.at = RCAfter(p)]
  <2>1. rcCall \in [RCIds -> RCCalls] /\ RCComparedIsKept(i)
    BY DEF RCInv, RCCallsTyped, RCCommandSound
  <2>2. rcCall' = [rcCall EXCEPT ![i] = c]
    BY <1>3, <2>1 DEF RCMove
  <2>3. RCAfter(p) \in {"diff", "untracked", "progress", "remove"} /\ RCPassed(RCAfter(p)) = RCPassed(p) \cup {p}
    BY RCAfterIsNext DEF RCParts, RCPassed
  <2>4. c \in RCCalls /\ c.at = RCAfter(p) /\ c.snapshot = rcCall[i].snapshot /\ c.late = rcCall[i].late
    BY <2>1, <2>3 DEF RCCalls, RCAts, RCComparing
  <2> HIDE DEF c
  <2>5. \A r \in RCPassed(c.at) : rcWork[r] = c.snapshot[r] \/ r \in c.late
    BY <1>1, <1>3, <2>1, <2>3, <2>4 DEF RCComparedIsKept, RCUnchanged
  <2>6. rcCall[i].at \in RCComparing /\ c.at \in RCComparing \cup {"remove"} /\ rcCall[i].at # "idle"
    BY <1>1, <2>3, <2>4 DEF RCParts, RCComparing
  <2> QED BY <1>1, <1>3, <2>2, <2>4, <2>5, <2>6, RCGoesOn
<1> QED BY <1>2, <1>3 DEF RCCompare

\* The worktree is removed, by the first command that gets there.
LEMMA RCRemoveKeeps ==
  ASSUME RCInv, NEW i \in RCIds, RCRemove(i)
  PROVE  RCInv'
<1>1. /\ rcCall[i].at = "remove" /\ UNCHANGED <<rcOwner, rcWork, rcFiles, rcEdits, rcFaults>>
      /\ rcFaults' \in 0..RCMaxFaults
  BY DEF RCRemove, RCInv, RCTypeOK
<1>2. CASE ~rcTree
  <2>1. RCCleanupFails(i) /\ UNCHANGED <<rcTree, rcLost>>
    BY <1>2 DEF RCRemove
  <2> QED BY <1>1, <2>1, RCCleanupFailsKeeps
<1>3. CASE rcTree
  <2> DEFINE c == [rcCall[i] EXCEPT !.at = "finish"]
  <2>1. rcTree' = FALSE /\ rcLost' = rcCall[i].late /\ rcLog' = rcLog /\ RCMove(i, "finish")
    BY <1>3 DEF RCRemove
  <2>2. rcCall \in [RCIds -> RCCalls] /\ RCCommandSound(i)
    BY DEF RCInv, RCCallsTyped
  <2>3. rcCall' = [rcCall EXCEPT ![i] = c]
    BY <2>1, <2>2 DEF RCMove
  <2>4. c \in RCCalls /\ c.at = "finish" /\ c.snapshot = rcCall[i].snapshot /\ c.late = rcCall[i].late
    BY <2>2 DEF RCCalls, RCAts
  <2> HIDE DEF c
  <2>5. rcCall' \in [RCIds -> RCCalls] /\ rcCall'[i] = c /\ \A k \in RCIds \ {i} : rcCall'[k] = rcCall[k]
    BY <2>2, <2>3, <2>4
  <2>6. RCTypeOK' /\ RCCallsTyped'
    <3>1. \A k \in RCIds : rcCall'[k].request \in RCRequests /\ rcCall'[k].late \subseteq RCParts
      BY <2>5 DEF RCCalls
    <3>2. rcLost' \subseteq RCParts
      BY <2>1, <2>2 DEF RCCalls
    <3> QED BY <1>1, <2>1, <2>5, <3>1, <3>2 DEF RCInv, RCTypeOK, RCCallsTyped
  <2>7. RCRemovedWasDead'
    BY <1>1, <2>2 DEF RCCommandSound, RCOwnerIsDead, RCRemovedWasDead
  <2>8. RCRemovedIsKept'
    <3>1. rcFiles[i].published /\ rcFiles[i].snapshot = rcCall[i].snapshot /\ RCWhole(rcCall[i].snapshot) /\ "CLEANUP_AUTHORIZED" \in rcLog[i]
      BY <1>1, <2>2 DEF RCCommandSound, RCAuthorizedSnapshot, RCCapturing
    <3>2. \A p \in RCParts : rcWork[p] = rcCall[i].snapshot[p] \/ p \in rcCall[i].late
      BY <1>1, <2>2 DEF RCCommandSound, RCComparedIsKept, RCPassed
    <3> QED BY <1>1, <2>1, <3>1, <3>2 DEF RCRemovedIsKept, RCWhole, RCFits
  <2>9. RCOneRemover'
    <3>1. \A k \in RCIds : ~RCRemover(k)
      BY <1>3 DEF RCInv, RCOneRemover
    <3>2. \A k \in RCIds \ {i} : ~RCRemover(k)'
      BY <2>1, <2>5, <3>1 DEF RCRemover
    <3> QED BY <2>1, <3>2 DEF RCOneRemover
  <2>10. ASSUME NEW k \in RCIds \ {i}  PROVE RCCommandSound(k)'
    <3>1. RCCommandSound(k) /\ UNCHANGED <<rcCall[k], rcLog[k], rcFiles[k], rcOwner, rcWork>>
      BY <1>1, <2>1, <2>5, <2>10 DEF RCInv
    <3> QED BY <3>1 DEF RCCommandSound, RCOwnerIsDead, RCIdIsOnce, RCAuthorizedSnapshot, RCComparedIsKept, RCRestartIsEarned, RCWhole
  <2>11. RCCommandSound(i)'
    <3>1. RCOwnerIsDead(i)' /\ RCIdIsOnce(i)' /\ RCRestartIsEarned(i)' /\ RCAuthorizedSnapshot(i)'
      BY <1>1, <2>1, <2>2, <2>4, <2>5
         DEF RCCommandSound, RCOwnerIsDead, RCIdIsOnce, RCRestartIsEarned, RCAuthorizedSnapshot, RCCapturing, RCWhole
    <3>2. RCComparedIsKept(i)'
      BY <2>4, <2>5 DEF RCComparedIsKept, RCPassed
    <3> QED BY <3>1, <3>2 DEF RCCommandSound
  <2> QED BY <2>6, <2>7, <2>8, <2>9, <2>10, <2>11 DEF RCInv
<1> QED BY <1>2, <1>3

\* The cleanup is completed, when the branch is where the snapshot saw it.
LEMMA RCFinishKeeps ==
  ASSUME RCInv, NEW i \in RCIds, RCFinishCleanup(i)
  PROVE  RCInv'
<1>1. /\ rcCall[i].at = "finish" /\ UNCHANGED <<rcOwner, rcTree, rcWork, rcFiles, rcLost, rcEdits>>
      /\ rcFaults' \in 0..RCMaxFaults
  BY DEF RCFinishCleanup, RCInv, RCTypeOK
<1>2. CASE RCCleanupFails(i)
  BY <1>1, <1>2, RCCleanupFailsKeeps
<1>3. CASE RCMove(i, "restart") /\ RCAppend(i, "CLEANUP_COMPLETED")
  <2> DEFINE c == [rcCall[i] EXCEPT !.at = "restart"]
  <2>1. rcCall \in [RCIds -> RCCalls] /\ RCCommandSound(i)
    BY DEF RCInv, RCCallsTyped
  <2>2. rcCall' = [rcCall EXCEPT ![i] = c]
    BY <1>3, <2>1 DEF RCMove
  <2>3. c \in RCCalls /\ c.at = "restart" /\ c.snapshot = rcCall[i].snapshot
    BY <2>1 DEF RCCalls, RCAts
  <2> HIDE DEF c
  <2>4. RCOneCommand(i, c, {"CLEANUP_COMPLETED"})
    BY <1>1, <1>3, <2>2, <2>3, RCNothingPublished DEF RCOneCommand, RCAppend, RCEvents
  <2>5. rcCall'[i] = c /\ rcLog'[i] = rcLog[i] \cup {"CLEANUP_COMPLETED"} /\ rcFiles'[i] = rcFiles[i]
    BY <1>1, <2>4, RCOneCommandFrame
  <2>6. RCRemover(i)
    BY <1>1 DEF RCRemover
  <2>7. RCOwnerIsDead(i)' /\ RCIdIsOnce(i)' /\ RCAuthorizedSnapshot(i)'
    BY <1>1, <2>1, <2>3, <2>5 DEF RCCommandSound, RCOwnerIsDead, RCIdIsOnce, RCAuthorizedSnapshot, RCCapturing, RCWhole
  <2>8. RCRestartIsEarned(i)'
    BY <1>1, <2>1, <2>5 DEF RCCommandSound, RCRestartIsEarned, RCAuthorizedSnapshot, RCCapturing
  <2>9. RCComparedIsKept(i)'
    BY <2>3, <2>5 DEF RCComparedIsKept, RCPassed
  <2> QED BY <2>4, <2>6, <2>7, <2>8, <2>9, RCOneCommandKeeps DEF RCCommandSound
<1> QED BY <1>2, <1>3 DEF RCFinishCleanup

\* The next attempt is authorized and its restart prepared.
LEMMA RCRestartKeeps ==
  ASSUME RCInv, NEW i \in RCIds, RCRestart(i)
  PROVE  RCInv'
<1> DEFINE add == RCAuthority(rcCall[i].request)
<1>1. /\ rcCall[i].at = "restart" /\ UNCHANGED <<rcOwner, rcTree, rcWork, rcFiles, rcLost, rcEdits>>
      /\ rcFaults' \in 0..RCMaxFaults /\ rcCall' = [rcCall EXCEPT ![i] = RCIdle] /\ rcLog' = [rcLog EXCEPT ![i] = @ \cup add]
  BY DEF RCRestart, RCRefuse, RCInv, RCTypeOK
<1>2. add \in SUBSET RCEvents
  BY DEF RCAuthority, RCEvents
<1> HIDE DEF add
<1>3. RCOneCommand(i, RCIdle, add)
  BY <1>1, <1>2, RCIdleTyped, RCNothingPublished DEF RCOneCommand
<1>4. rcCall'[i] = RCIdle /\ rcLog'[i] = rcLog[i] \cup add /\ rcFiles'[i] = rcFiles[i] /\ rcCall'[i].at = "idle"
  BY <1>1, <1>3, RCOneCommandFrame, RCIdleTyped
<1>5. RCCommandSound(i) /\ RCRemover(i)
  BY <1>1 DEF RCInv, RCRemover
<1>6. RCOwnerIsDead(i)' /\ RCIdIsOnce(i)' /\ RCAuthorizedSnapshot(i)'
  BY <1>1, <1>4, <1>5 DEF RCCommandSound, RCOwnerIsDead, RCIdIsOnce, RCAuthorizedSnapshot, RCCapturing
<1>7. RCRestartIsEarned(i)'
  BY <1>1, <1>4, <1>5 DEF RCCommandSound, RCRestartIsEarned
<1>8. RCComparedIsKept(i)'
  BY <1>4 DEF RCComparedIsKept, RCPassed
<1> QED BY <1>3, <1>5, <1>6, <1>7, <1>8, RCOneCommandKeeps DEF RCCommandSound

\* A command dies.
LEMMA RCDiesKeeps ==
  ASSUME RCInv, NEW i \in RCIds, RCDies(i)
  PROVE  RCInv'
<1>1. rcFaults \in 0..RCMaxFaults /\ rcFaults < RCMaxFaults /\ rcFaults' = rcFaults + 1
  BY DEF RCDies, RCInv, RCTypeOK
<1>2. rcFaults' \in 0..RCMaxFaults
  BY <1>1, RCAssumption
<1>3. RCRefuse(i) /\ UNCHANGED <<rcOwner, rcTree, rcWork, rcFiles, rcLog, rcLost, rcEdits>>
  BY DEF RCDies
<1> QED BY <1>2, <1>3, RCRefusedQuietly

-----------------------------------------------------------------------------
(* The owner and the worktree. *)

\* The owner ends, and never runs again.
LEMMA RCOwnerEndsKeeps ==
  ASSUME RCInv, RCOwnerEnds
  PROVE  RCInv'
<1>1. /\ UNCHANGED <<rcTree, rcWork, rcFiles, rcLog, rcCall, rcLost, rcEdits, rcFaults>>
      /\ rcOwner' \in {"zombie", "absent", "reused"}
  BY DEF RCOwnerEnds
<1>2. RCTypeOK' /\ RCCallsTyped' /\ RCRemovedWasDead'
  BY <1>1 DEF RCInv, RCTypeOK, RCCallsTyped, RCRemovedWasDead
<1>3. RCRemovedIsKept' /\ RCOneRemover'
  BY <1>1 DEF RCInv, RCRemovedIsKept, RCOneRemover, RCRemover
<1>4. ASSUME NEW i \in RCIds  PROVE RCCommandSound(i)'
  <2>1. RCCommandSound(i)
    BY DEF RCInv
  <2> QED BY <1>1, <2>1 DEF RCCommandSound, RCOwnerIsDead, RCIdIsOnce, RCAuthorizedSnapshot, RCComparedIsKept, RCRestartIsEarned, RCWhole
<1> QED BY <1>2, <1>3, <1>4 DEF RCInv

\* A part is edited under the cleaner's nose: what was compared already is late.
LEMMA RCEditKeeps ==
  ASSUME RCInv, NEW p \in RCParts, RCEdit(p)
  PROVE  RCInv'
<1> DEFINE passed(i) == \/ rcCall[i].at \in {"remove", "finish"}
                        \/ \E m, n \in DOMAIN RCCompared : RCCompared[m] = p /\ RCCompared[n] = rcCall[i].at /\ m < n
<1>1. /\ UNCHANGED <<rcOwner, rcTree, rcFiles, rcLog, rcLost, rcFaults>> /\ rcWork' = [rcWork EXCEPT ![p] = rcEdits + 1]
      /\ rcEdits < RCMaxEdits /\ rcEdits' = rcEdits + 1 /\ (rcTree \/ p = "head")
      /\ rcCall' = [i \in RCIds |-> IF passed(i) THEN [rcCall[i] EXCEPT !.late = @ \cup {p}] ELSE rcCall[i]]
  BY DEF RCEdit
<1>2. rcCall \in [RCIds -> RCCalls] /\ rcWork \in [RCParts -> 0..RCMaxEdits] /\ rcEdits \in 0..RCMaxEdits
  BY DEF RCInv, RCCallsTyped, RCTypeOK
<1>3. rcEdits' \in 0..RCMaxEdits /\ rcWork' \in [RCParts -> 0..RCMaxEdits] /\ \A r \in RCParts \ {p} : rcWork'[r] = rcWork[r]
  BY <1>1, <1>2, RCAssumption
<1>4. \A i \in RCIds : p \in RCPassed(rcCall[i].at) => passed(i)
  <2>1. DOMAIN RCCompared = 1..4
    BY DEF RCCompared
  <2>2. RCCompared[1] = "head" /\ RCCompared[2] = "diff" /\ RCCompared[3] = "untracked" /\ RCCompared[4] = "progress"
    BY DEF RCCompared
  <2>3. ASSUME NEW i \in RCIds, p \in RCPassed(rcCall[i].at), rcCall[i].at # "remove"
        PROVE  \E m, n \in 1..4 : RCCompared[m] = p /\ RCCompared[n] = rcCall[i].at /\ m < n
    <3>1. CASE rcCall[i].at = "diff"
      BY <2>2, <2>3, <3>1, 1 < 2 DEF RCPassed
    <3>2. CASE rcCall[i].at = "untracked"
      BY <2>2, <2>3, <3>2, 1 < 3, 2 < 3 DEF RCPassed
    <3>3. CASE rcCall[i].at = "progress"
      BY <2>2, <2>3, <3>3, 1 < 4, 2 < 4, 3 < 4 DEF RCPassed
    <3> QED BY <2>3, <3>1, <3>2, <3>3 DEF RCPassed
  <2> QED BY <2>1, <2>3
<1> HIDE DEF passed
<1>5. ASSUME NEW i \in RCIds
      PROVE  /\ rcCall'[i] \in RCCalls /\ rcCall'[i].at = rcCall[i].at /\ rcCall'[i].request = rcCall[i].request
             /\ rcCall'[i].snapshot = rcCall[i].snapshot /\ rcCall[i].late \subseteq rcCall'[i].late
             /\ passed(i) => p \in rcCall'[i].late
  <2>1. rcCall[i] \in RCCalls /\ rcCall'[i] = IF passed(i) THEN [rcCall[i] EXCEPT !.late = @ \cup {p}] ELSE rcCall[i]
    BY <1>1, <1>2
  <2> QED BY <2>1 DEF RCCalls
<1>6. rcCall' \in [RCIds -> RCCalls]
  <2>1. DOMAIN rcCall' = RCIds /\ rcCall' = [i \in RCIds |-> rcCall'[i]]
    BY <1>1
  <2> QED BY <1>5, <2>1
<1>7. RCTypeOK' /\ RCCallsTyped'
  <2>1. \A i \in RCIds : rcCall'[i].request \in RCRequests /\ rcCall'[i].late \subseteq RCParts
    BY <1>6 DEF RCCalls
  <2> QED BY <1>1, <1>3, <1>6, <2>1 DEF RCInv, RCTypeOK, RCCallsTyped
<1>8. RCRemovedWasDead'
  BY <1>1 DEF RCInv, RCRemovedWasDead
<1>9. RCRemovedIsKept'
  BY <1>1, <1>3 DEF RCInv, RCRemovedIsKept
<1>10. RCOneRemover'
  BY <1>1, <1>5 DEF RCInv, RCOneRemover, RCRemover
<1>11. ASSUME NEW i \in RCIds  PROVE RCCommandSound(i)'
  <2>1. RCCommandSound(i)
    BY DEF RCInv
  <2>2. RCOwnerIsDead(i)' /\ RCIdIsOnce(i)' /\ RCAuthorizedSnapshot(i)' /\ RCRestartIsEarned(i)'
    BY <1>1, <1>5, <2>1 DEF RCCommandSound, RCOwnerIsDead, RCIdIsOnce, RCAuthorizedSnapshot, RCRestartIsEarned, RCWhole
  <2>3. RCPassed(rcCall[i].at) \subseteq RCParts
    BY DEF RCPassed, RCParts
  <2>4. RCComparedIsKept(i)'
    BY <1>3, <1>4, <1>5, <2>1, <2>3 DEF RCCommandSound, RCComparedIsKept
  <2> QED BY <2>2, <2>4 DEF RCCommandSound
<1> QED BY <1>7, <1>8, <1>9, <1>10, <1>11 DEF RCInv

-----------------------------------------------------------------------------
(* The theorem. *)

\* The inductive invariant holds of every behaviour of the recovery.
THEOREM RecoveryInvariant == RCSpec => []RCInv
<1>1. RCInit => RCInv
  <2> SUFFICES ASSUME RCInit PROVE RCInv
    OBVIOUS
  <2>1. \A i \in RCIds : rcCall[i] = RCIdle /\ rcLog[i] = {} /\ rcFiles[i] = RCNoSnapshot
    BY DEF RCInit
  <2>2. [p \in RCParts |-> 0] \in [RCParts -> 0..RCMaxEdits]
    BY RCAssumption
  <2>3. RCNoSnapshot \in [taken : BOOLEAN, published : BOOLEAN, snapshot : [RCParts -> 0..RCMaxEdits]] /\ RCNoSnapshot.published = FALSE
    BY <2>2 DEF RCNoSnapshot
  <2>4. RCIdle.request \in RCRequests /\ RCIdle.late \subseteq RCParts
    BY RCIdleTyped DEF RCCalls
  <2>5. rcEdits \in 0..RCMaxEdits /\ rcFaults \in 0..RCMaxFaults
    BY RCAssumption DEF RCInit
  <2>6. RCTypeOK
    BY <2>1, <2>2, <2>3, <2>4, <2>5 DEF RCInit, RCTypeOK
  <2>7. RCCallsTyped
    BY RCIdleTyped DEF RCInit, RCCallsTyped
  <2>8. RCRemovedWasDead /\ RCRemovedIsKept
    BY DEF RCInit, RCRemovedWasDead, RCRemovedIsKept
  <2>9. RCOneRemover
    BY <2>1, RCIdleTyped DEF RCOneRemover, RCRemover
  <2>10. ASSUME NEW i \in RCIds  PROVE RCCommandSound(i)
    <3>1. rcCall[i].at = "idle" /\ rcLog[i] = {} /\ ~rcFiles[i].published
      BY <2>1, <2>3, RCIdleTyped
    <3> QED BY <3>1 DEF RCCommandSound, RCOwnerIsDead, RCIdIsOnce, RCAuthorizedSnapshot, RCComparedIsKept, RCRestartIsEarned, RCPassed, RCCapturing
  <2> QED BY <2>6, <2>7, <2>8, <2>9, <2>10 DEF RCInv
<1>2. RCInv /\ [RCNext]_rcVars => RCInv'
  <2> SUFFICES ASSUME RCInv, [RCNext]_rcVars PROVE RCInv'
    OBVIOUS
  <2>1. CASE UNCHANGED rcVars
    BY <2>1 DEF rcVars, RCInv, RCTypeOK, RCCallsTyped, RCRemovedWasDead, RCRemovedIsKept, RCOneRemover, RCRemover,
                RCCommandSound, RCOwnerIsDead, RCIdIsOnce, RCAuthorizedSnapshot, RCComparedIsKept, RCRestartIsEarned, RCWhole
  <2>2. CASE RCNext
    BY <2>2, RCCommandKeeps, RCCaptureDiffKeeps, RCCaptureUntrackedKeeps, RCCaptureProgressKeeps, RCDecideKeeps, RCCleanInspectKeeps,
       RCCompareKeeps, RCRemoveKeeps, RCFinishKeeps, RCRestartKeeps, RCDiesKeeps, RCOwnerEndsKeeps, RCEditKeeps DEF RCNext
  <2> QED BY <2>1, <2>2
<1> QED BY <1>1, <1>2, PTL DEF RCSpec

\* A recovery acts for a dead owner, removes no work that a whole, published and
\* authorized snapshot does not hold but for an edit inside the removal's window,
\* and prepares one restart, after its cleanup completed (recovery.Resume).
THEOREM RecoveryIsSound == RCSpec => []RCSound
<1>1. ASSUME RCInv  PROVE RCSound
  <2> DEFINE S == {i \in RCIds : "RESTART_PREPARED" \in rcLog[i]}
  <2>1. \A i, j \in S : i = j
    BY <1>1 DEF RCInv, RCOneRemover, RCRemover
  <2>2. S = {} \/ \E i \in S : S = {i}
    BY <2>1
  <2>3. Cardinality(S) <= 1
    <3> HIDE DEF S
    <3>1. CASE S = {}
      BY <3>1, FS_EmptySet
    <3>2. ASSUME NEW i \in S, S = {i}  PROVE Cardinality(S) <= 1
      <4>1. Cardinality({i}) = 1
        BY FS_Singleton
      <4> QED BY <3>2, <4>1
    <3> QED BY <2>2, <3>1, <3>2
  <2>4. \A i \in RCIds : "RESTART_PREPARED" \in rcLog[i] => ~rcTree /\ {"CLEANUP_COMPLETED", "CLEANUP_AUTHORIZED"} \subseteq rcLog[i]
    BY <1>1 DEF RCInv, RCOneRemover, RCRemover, RCCommandSound, RCRestartIsEarned
  <2>5. RCOneRestart
    BY <2>3, <2>4 DEF RCOneRestart
  <2> QED BY <1>1, <2>5 DEF RCInv, RCSound
<1>2. RCInv => RCSound
  BY <1>1
<1> QED BY <1>2, RecoveryInvariant, PTL

-----------------------------------------------------------------------------
(* IntegrationGate: what is offered for merge is what was tested. *)

IGMerging == {"merge", "merge-failed", "merge-conflict"}
IGRemerging == {"remerge", "remerge-failed", "remerge-conflict", "accept", "accepted"}
IGBefore == {"queueing", "idle", "heads"}
IGDuring == {"integrate", "materialize", "unmaterialized"} \cup IGMerging \cup IGRemerging

\* What each variable is.
IGTyped ==
    /\ igWorld \in [paths : [IGCandidates -> SUBSET IGPaths], clashes : SUBSET IGPairs,
                    contained : {{}, {<<IGOrder[2], IGOrder[1]>>}}, moved : SUBSET IGCandidates]
    /\ \A p \in igWorld.clashes : IGOverlap(p) # {}
    /\ igState \in {"BRANCH_ACCEPTED", "INTEGRATING", "INTEGRATION_CONFLICT", "VALIDATION_UNAVAILABLE",
                    "INTEGRATION_ACCEPTED", "SEMANTIC_CONFLICT", "READY_FOR_MERGE", "FAILED"}
    /\ igAt \in IGBefore \cup IGDuring \cup {"ready", "ended"}
    /\ igTarget = [commit |-> igTarget.commit, edited |-> igTarget.edited] /\ igTarget.edited \in BOOLEAN
    /\ igRan \in Seq({"succeeded", "exited", "timed_out"}) /\ Len(igRan) <= Len(IGCommands)
    /\ igBad \subseteq igRefs /\ igFaults \in 0..IGMaxFaults

\* The state and the workspaces of each step of the gate.
IGPhase ==
    /\ igAt \in IGBefore => igState = "BRANCH_ACCEPTED"
    /\ igAt \in IGDuring => igState = "INTEGRATING"
    /\ igAt = "ready" => igState = "INTEGRATION_ACCEPTED"
    /\ igAt \in IGBefore \cup {"integrate", "materialize", "ready"} => igSpaces = 0
    /\ igAt \in IGMerging \cup IGRemerging => igSpaces = 1
    /\ igAt = "unmaterialized" => igSpaces \in {0, 1}
    /\ IGNothingLeft

\* The lists of candidates: the queue has each once, the request is one that fits
\* the report, and what is merged is of the report.
IGIsRequest == igRequest \in IGRequests /\ IGValid(igRequest)
IGReported == \A p \in IGPairs : p \subseteq ToSet(igReport.order) /\ IGOverlap(p) # {} => igReport.class # "disjoint"
IGQueued ==
    /\ igMerged \in Seq(IGCandidates) /\ Len(igMerged) <= Len(IGOrder)
    /\ igAt = "queueing" => \A i, j \in 1..Len(igMerged) : igMerged[i] = igMerged[j] => i = j
    /\ igAt # "queueing" => Len(IGOrder) > 0
    /\ igAt \in IGMerging \cup IGRemerging \cup {"materialize", "unmaterialized"} =>
         Len(igMerged) <= Len(igReport.order) /\ ToSet(igMerged) \subseteq ToSet(igReport.order)
IGLists ==
    /\ IGQueued
    /\ igAt \in IGDuring \cup {"heads", "ready"} => IGIsRequest
    /\ igAt # "queueing" => IGReported
    /\ igAt = "merge-conflict" => igReport.class # "disjoint"

\* The evidence that each step cites.
IGCited ==
    /\ igAt \in {"queueing", "idle"} => igRefs = {}
    /\ igAt \in IGDuring \cup {"heads"} => "input" \in igRefs
    /\ igAt \in IGDuring => "heads-initial" \in igRefs
    /\ igAt \in IGRemerging \cup {"materialize"} => {"capture", "cleanup"} \subseteq igRefs
    /\ igAt \in {"accept", "accepted"} => "materialization" \in igRefs
    /\ igAt = "accept" /\ Len(igRan) > 0 => "acceptance" \in igRefs
    /\ igAt \in IGBefore \cup (IGDuring \ {"accept", "accepted"}) => igRan = <<>>

\* What the classification of the combined acceptance says.
IGTested ==
    /\ igTarget = [commit |-> igReport.order, edited |-> FALSE]
    /\ igReport.order = igRequest.order
IGClassified ==
    igAt = "accepted" =>
        /\ igClass = "clean" => /\ IGTested /\ {"acceptance", "combined"} \subseteq igRefs
                                /\ \A k \in DOMAIN IGCommands : IGCommands[k].required => igRan[k] = "succeeded"
        /\ igClass = "semantic-conflict" =>
             IGTested /\ \E k \in DOMAIN igRan : IGCommands[k].class \in IGSemantic /\ igRan[k] = "exited"

\* The inductive invariant.
IGInv == IGTyped /\ IGPhase /\ IGLists /\ IGCited /\ IGClassified /\ IGReadyIsProved /\ IGConflictIsReal

\* What a step leaves alone stays true of it.
LEMMA IGFrames ==
  /\ UNCHANGED <<igRequest, igReport>> => IGIsRequest' = IGIsRequest
  /\ UNCHANGED igReport /\ igWorld'.paths = igWorld.paths => IGReported' = IGReported
<1>1. ASSUME UNCHANGED <<igRequest, igReport>>
      PROVE  IGIsRequest' = IGIsRequest
  BY <1>1 DEF IGIsRequest, IGValid, IGFits, IGBlockersResolved, IGReviewed
<1>2. ASSUME UNCHANGED igReport, igWorld'.paths = igWorld.paths
      PROVE  IGReported' = IGReported
  BY <1>2 DEF IGReported, IGOverlap
<1> QED BY <1>1, <1>2

\* The candidates of a request are some of the queue's, in some order.
LEMMA IGRequestsHave ==
  ASSUME NEW q \in IGRequests
  PROVE  q.order \in {IGOrder, Reverse(IGOrder), Tail(IGOrder)} /\ q.reviews \subseteq IGReviews
<1>6. PICK f \in DOMAIN IGExact : q \in {[IGExact EXCEPT ![f] = v] : v \in IGValues[f]}
  BY DEF IGRequests
<1>1. PICK v \in IGValues[f] : q = [IGExact EXCEPT ![f] = v]
  BY <1>6
<1>2. IGExact.order = IGOrder /\ IGExact.reviews \subseteq IGReviews
  BY DEF IGExact, IGReviews
<1>3. f \in {"order", "baseline", "policy", "blockers", "reviews"}
  BY DEF IGExact
<1>4. /\ f = "order" => v \in {IGOrder, Reverse(IGOrder), Tail(IGOrder)}
      /\ f = "reviews" => v \subseteq IGReviews
  BY DEF IGValues
<1>5. q.order = (IF f = "order" THEN v ELSE IGExact.order) /\ q.reviews = (IF f = "reviews" THEN v ELSE IGExact.reviews)
  BY <1>1, <1>3 DEF IGExact
<1> QED BY <1>2, <1>4, <1>5

\* The report of a request that fits lists candidates, no more than there are.
LEMMA IGReportHas ==
  ASSUME IGIsRequest, Len(IGOrder) > 0
  PROVE  /\ igReport.order \in Seq(IGCandidates) /\ Len(igReport.order) \in Nat /\ Len(igReport.order) <= Len(IGOrder)
         /\ igReport.order = igRequest.order
<1>1. igReport.order \in {IGOrder, Reverse(IGOrder), Tail(IGOrder)} /\ igReport.order = igRequest.order
  BY IGRequestsHave DEF IGIsRequest, IGValid, IGFits
<1>2. IGOrder \in Seq(IGCandidates)
  BY IGAssumption DEF IGCandidates
<1>3. Reverse(IGOrder) \in Seq(IGCandidates) /\ Len(Reverse(IGOrder)) = Len(IGOrder)
  BY <1>2 DEF Reverse
<1>4. Tail(IGOrder) \in Seq(IGCandidates) /\ Len(Tail(IGOrder)) = Len(IGOrder) - 1
  BY <1>2
<1>5. Len(IGOrder) \in Nat
  BY <1>2
<1>6. CASE igReport.order = IGOrder
  BY <1>1, <1>2, <1>5, <1>6
<1>7. CASE igReport.order = Reverse(IGOrder)
  BY <1>1, <1>3, <1>5, <1>7
<1>8. CASE igReport.order = Tail(IGOrder)
  <2>1. Len(igReport.order) = Len(IGOrder) - 1
    BY <1>4, <1>8
  <2> QED BY <1>1, <1>4, <1>5, <1>8, <2>1
<1> QED BY <1>1, <1>6, <1>7, <1>8

\* A call that fails uses up a fault.
LEMMA IGCountKeeps ==
  ASSUME NEW ok \in IGOutcomes, IGCount(ok), igFaults \in 0..IGMaxFaults
  PROVE  igFaults' \in 0..IGMaxFaults /\ ok \in BOOLEAN
<1>1. ok = TRUE \/ (ok = FALSE /\ IGUsable)
  BY DEF IGOutcomes
<1>2. CASE ok = TRUE
  BY <1>2 DEF IGCount
<1>3. CASE ok = FALSE /\ IGUsable
  <2>1. igFaults' = igFaults + 1 /\ igFaults < IGMaxFaults
    BY <1>3 DEF IGCount, IGUsable
  <2>2. IGMaxFaults \in Nat
    BY IGAssumption
  <2>3. igFaults' \in 0..IGMaxFaults
    BY <2>1, <2>2
  <2> QED BY <1>3, <2>3
<1> QED BY <1>1, <1>2, <1>3

\* A push to a source branch keeps the invariant.
LEMMA IGPushKeeps ==
  ASSUME IGInv, NEW c \in IGCandidates, IGPush(c)
  PROVE  IGInv'
<1>21. IGTyped'
  BY DEF IGInv, IGTyped, IGOverlap, IGBefore, IGDuring, IGMerging, IGRemerging, IGPush
<1>22. IGPhase'
  BY DEF IGInv, IGTyped, IGPhase, IGNothingLeft, IGBefore, IGDuring, IGMerging, IGRemerging, IGPush
<1>23. IGLists'
  BY IGFrames DEF IGInv, IGTyped, IGPhase, IGLists, IGQueued, IGBefore, IGDuring, IGMerging, IGRemerging, IGPush
<1>24. IGCited'
  BY DEF IGInv, IGTyped, IGCited, IGBefore, IGDuring, IGMerging, IGRemerging, IGPush
<1>25. IGClassified'
  BY DEF IGInv, IGTyped, IGPhase, IGClassified, IGTested, IGCited, IGBefore, IGDuring, IGMerging, IGRemerging, IGPush
<1>26. IGReadyIsProved'
  BY DEF IGInv, IGTyped, IGPhase, IGReadyIsProved, IGBefore, IGDuring, IGMerging, IGRemerging, IGPush
<1>27. IGConflictIsReal'
  BY DEF IGInv, IGTyped, IGPhase, IGConflictIsReal, IGBefore, IGDuring, IGMerging, IGRemerging, IGPush
<1> QED BY <1>21, <1>22, <1>23, <1>24, <1>25, <1>26, <1>27 DEF IGInv

\* Damaged evidence keeps the invariant.
LEMMA IGDamageKeeps ==
  ASSUME IGInv, NEW ref \in igRefs, IGDamage(ref)
  PROVE  IGInv'
<1>21. IGTyped'
  BY IGAssumption DEF IGInv, IGTyped, IGOverlap, IGBefore, IGDuring, IGMerging, IGRemerging, IGDamage, IGUsable
<1>22. IGPhase'
  BY IGAssumption DEF IGInv, IGTyped, IGPhase, IGNothingLeft, IGBefore, IGDuring, IGMerging, IGRemerging, IGDamage, IGUsable
<1>23. IGLists'
  BY IGAssumption, IGFrames DEF IGInv, IGTyped, IGPhase, IGLists, IGQueued, IGBefore, IGDuring, IGMerging, IGRemerging, IGDamage, IGUsable
<1>24. IGCited'
  BY IGAssumption DEF IGInv, IGTyped, IGCited, IGBefore, IGDuring, IGMerging, IGRemerging, IGDamage, IGUsable
<1>25. IGClassified'
  BY IGAssumption DEF IGInv, IGTyped, IGPhase, IGClassified, IGTested, IGCited, IGBefore, IGDuring, IGMerging, IGRemerging, IGDamage, IGUsable
<1>26. IGReadyIsProved'
  BY IGAssumption DEF IGInv, IGTyped, IGPhase, IGReadyIsProved, IGBefore, IGDuring, IGMerging, IGRemerging, IGDamage, IGUsable
<1>27. IGConflictIsReal'
  BY IGAssumption DEF IGInv, IGTyped, IGPhase, IGConflictIsReal, IGBefore, IGDuring, IGMerging, IGRemerging, IGDamage, IGUsable
<1> QED BY <1>21, <1>22, <1>23, <1>24, <1>25, <1>26, <1>27 DEF IGInv

\* Materializing the integration again keeps the invariant.
LEMMA IGMaterializeKeeps ==
  ASSUME IGInv, IGMaterialize
  PROVE  IGInv'
<1>1. <<>> \in Seq(IGCandidates) /\ Len(<<>>) = 0 /\ ToSet(<<>>) = {} /\ Len(IGOrder) > 0 /\ Len(IGOrder) \in Nat
  BY IGAssumption DEF IGMaterialize, ToSet, IGInv, IGLists, IGQueued
<1>2. Len(igReport.order) \in Nat /\ IGIsRequest
  BY <1>1, IGReportHas DEF IGMaterialize, IGInv, IGLists, IGDuring
<1>3. /\ igMerged' = <<>> \/ igMerged' = igMerged
      /\ igAt' \in {"unmaterialized", "remerge"}
      /\ UNCHANGED <<igWorld, igRequest, igReport>> /\ igAt = "materialize"
  BY DEF IGMaterialize, IGOpenWorkspace
<1>4. IGQueued'
  <2>1. CASE igMerged' = <<>>
    <3>1. igMerged' \in Seq(IGCandidates) /\ Len(igMerged') = 0 /\ ToSet(igMerged') = {}
      BY <1>1, <2>1
    <3> QED BY <1>1, <1>2, <1>3, <3>1 DEF IGQueued
  <2>2. CASE igMerged' = igMerged
    BY <1>3, <2>2 DEF IGInv, IGLists, IGQueued, IGMerging, IGRemerging
  <2> QED BY <1>3, <2>1, <2>2
<1>21. IGTyped'
  BY <1>1, <1>2, <1>3 DEF IGInv, IGTyped, IGOverlap, IGBefore, IGDuring, IGMerging, IGRemerging, IGMaterialize, IGOpenWorkspace, IGCount
<1>22. IGPhase'
  BY <1>1, <1>2, <1>3 DEF IGInv, IGTyped, IGPhase, IGNothingLeft, IGBefore, IGDuring, IGMerging, IGRemerging, IGMaterialize, IGOpenWorkspace, IGCount
<1>23. IGLists'
  BY <1>1, <1>2, <1>3, <1>4, IGFrames DEF IGInv, IGLists, IGDuring
<1>24. IGCited'
  BY <1>1, <1>2, <1>3 DEF IGInv, IGTyped, IGCited, IGBefore, IGDuring, IGMerging, IGRemerging, IGMaterialize, IGOpenWorkspace, IGCount
<1>25. IGClassified'
  BY <1>1, <1>2, <1>3 DEF IGInv, IGTyped, IGPhase, IGClassified, IGTested, IGCited, IGBefore, IGDuring, IGMerging, IGRemerging, IGMaterialize, IGOpenWorkspace, IGCount
<1>26. IGReadyIsProved'
  BY <1>1, <1>2, <1>3 DEF IGInv, IGTyped, IGPhase, IGReadyIsProved, IGBefore, IGDuring, IGMerging, IGRemerging, IGMaterialize, IGOpenWorkspace, IGCount
<1>27. IGConflictIsReal'
  BY <1>1, <1>2, <1>3 DEF IGInv, IGTyped, IGPhase, IGConflictIsReal, IGBefore, IGDuring, IGMerging, IGRemerging, IGMaterialize, IGOpenWorkspace, IGCount
<1> QED BY <1>21, <1>22, <1>23, <1>24, <1>25, <1>26, <1>27 DEF IGInv

\* A target that is ready, or is not, keeps the invariant.
LEMMA IGTargetReadyKeeps ==
  ASSUME IGInv, NEW ok \in IGOutcomes, IGTargetReady(ok)
  PROVE  IGInv'
<1>1. /\ igAt = "remerge" /\ UNCHANGED <<igWorld, igRequest, igReport, igState, igMerged, igTextual, igRan, igClass, igSpaces, igBad>>
      /\ \/ igTarget' = [commit |-> igMerged, edited |-> FALSE] /\ igAt' = "accept" /\ igRefs' = igRefs \cup {"materialization"}
         \/ igAt' = "unmaterialized" /\ UNCHANGED <<igTarget, igRefs>>
  BY DEF IGTargetReady
<1>2. igFaults' \in 0..IGMaxFaults
  BY IGCountKeeps DEF IGTargetReady, IGInv, IGTyped
<1>3. igRan = <<>> /\ Len(igRan) = 0
  BY <1>1 DEF IGInv, IGCited, IGDuring, IGRemerging
<1>4. igTarget' = [commit |-> igTarget'.commit, edited |-> igTarget'.edited] /\ igTarget'.edited \in BOOLEAN
  <2>1. CASE igTarget' = [commit |-> igMerged, edited |-> FALSE]
    BY <2>1
  <2>2. CASE igTarget' = igTarget
    BY <2>2 DEF IGInv, IGTyped
  <2> QED BY <1>1, <2>1, <2>2
<1>5. \A p \in igWorld'.clashes : IGOverlap(p)' # {}
  BY <1>1 DEF IGInv, IGTyped, IGOverlap
<1>21. IGTyped'
  BY <1>1, <1>2, <1>4, <1>5 DEF IGInv, IGTyped, IGDuring, IGRemerging
<1>22. IGPhase'
  BY <1>1, <1>2, <1>3 DEF IGInv, IGTyped, IGPhase, IGNothingLeft, IGBefore, IGDuring, IGMerging, IGRemerging, IGPairs
<1>23. IGLists'
  BY <1>1, <1>2, <1>3, IGFrames DEF IGInv, IGTyped, IGPhase, IGLists, IGQueued, IGBefore, IGDuring, IGMerging, IGRemerging, IGPairs
<1>24. IGCited'
  BY <1>1, <1>2, <1>3 DEF IGInv, IGTyped, IGCited, IGBefore, IGDuring, IGMerging, IGRemerging, IGPairs
<1>25. IGClassified'
  BY <1>1, <1>2, <1>3 DEF IGInv, IGTyped, IGPhase, IGClassified, IGTested, IGCited, IGBefore, IGDuring, IGMerging, IGRemerging, IGPairs
<1>26. IGReadyIsProved'
  BY <1>1, <1>2, <1>3 DEF IGInv, IGTyped, IGPhase, IGReadyIsProved, IGBefore, IGDuring, IGMerging, IGRemerging, IGPairs
<1>27. IGConflictIsReal'
  BY <1>1, <1>2, <1>3 DEF IGInv, IGTyped, IGPhase, IGConflictIsReal, IGBefore, IGDuring, IGMerging, IGRemerging, IGPairs
<1> QED BY <1>21, <1>22, <1>23, <1>24, <1>25, <1>26, <1>27 DEF IGInv

-----------------------------------------------------------------------------
(* How the gate ends. *)

IGStates == {"BRANCH_ACCEPTED", "INTEGRATING", "INTEGRATION_CONFLICT", "VALIDATION_UNAVAILABLE",
             "INTEGRATION_ACCEPTED", "SEMANTIC_CONFLICT", "READY_FOR_MERGE", "FAILED"}
IGQuiet == {"BRANCH_ACCEPTED", "INTEGRATING", "VALIDATION_UNAVAILABLE", "FAILED"}

\* A gate that ends, in a state that is proved, keeps the invariant.
LEMMA IGEndKeeps ==
  ASSUME IGInv, igAt # "queueing", igAt' = "ended", UNCHANGED <<igWorld, igRequest, igReport, igMerged, igTarget, igRan>>,
         igBad' \subseteq igRefs', igFaults' \in 0..IGMaxFaults, igState' \in IGStates,
         igSpaces' = 0 \/ (igSpaces' = 1 /\ ~IGCleanupOnFailure /\ igTextual'.status = "unavailable"),
         IGReadyIsProved', IGConflictIsReal'
  PROVE  IGInv'
<1>1. \A p \in igWorld'.clashes : IGOverlap(p)' # {}
  BY DEF IGInv, IGTyped, IGOverlap
<1>2. IGTyped'
  BY <1>1 DEF IGInv, IGTyped, IGStates
<1>3. IGPhase'
  BY DEF IGPhase, IGNothingLeft, IGBefore, IGDuring, IGMerging, IGRemerging
<1>4. IGQueued'
  BY DEF IGInv, IGLists, IGQueued, IGMerging, IGRemerging
<1>5. IGLists'
  BY <1>4, IGFrames DEF IGInv, IGLists, IGDuring, IGMerging, IGRemerging
<1>6. IGCited' /\ IGClassified'
  BY DEF IGCited, IGClassified, IGBefore, IGDuring, IGMerging, IGRemerging
<1> QED BY <1>2, <1>3, <1>5, <1>6 DEF IGInv

\* The fallback ends the gate in a failure, or where it was with what was cited.
LEMMA IGFallbackSays ==
  ASSUME IGInv, IGFallback
  PROVE  /\ igAt' = "ended" /\ igBad' \subseteq igRefs'
         /\ igState' \in {"VALIDATION_UNAVAILABLE", "FAILED"} \/ (igState' = igState /\ igRefs' = igRefs)
  BY DEF IGInv, IGTyped, IGFallback, IGFallbackTarget, IGEnd

\* A quiet end is proved, with nothing to prove.
LEMMA IGQuietEndKeeps ==
  ASSUME IGInv, igAt # "queueing", igAt' = "ended", UNCHANGED <<igWorld, igRequest, igReport, igMerged, igTarget, igRan>>,
         igBad' \subseteq igRefs', igFaults' \in 0..IGMaxFaults, igState' \in IGQuiet,
         igSpaces' = 0 \/ (igSpaces' = 1 /\ ~IGCleanupOnFailure /\ igTextual'.status = "unavailable")
  PROVE  IGInv'
<1>1. IGReadyIsProved' /\ IGConflictIsReal'
  BY DEF IGReadyIsProved, IGConflictIsReal, IGQuiet
<1> QED BY <1>1, IGEndKeeps DEF IGQuiet, IGStates

\* The fallback, out of a state that is quiet or is already proved, keeps the invariant.
LEMMA IGFallbackKeeps ==
  ASSUME IGInv, IGFallback, igAt \in IGBefore \cup IGDuring \cup {"ready"}, igAt # "queueing",
         UNCHANGED <<igWorld, igRequest, igReport, igMerged, igTarget, igRan>>, igFaults' \in 0..IGMaxFaults,
         igSpaces' = 0 \/ (igSpaces' = 1 /\ ~IGCleanupOnFailure /\ igTextual'.status = "unavailable")
  PROVE  IGInv'
<1>1. /\ igAt' = "ended" /\ igBad' \subseteq igRefs'
      /\ igState' \in {"VALIDATION_UNAVAILABLE", "FAILED"} \/ (igState' = igState /\ igRefs' = igRefs)
  BY IGFallbackSays
<1>2. igState \in IGQuiet \/ igState = "INTEGRATION_ACCEPTED"
  BY DEF IGInv, IGPhase, IGQuiet
<1>3. CASE igState' \in IGQuiet
  BY <1>1, <1>3, IGQuietEndKeeps
<1>4. CASE igState' = "INTEGRATION_ACCEPTED"
  <2>1. igState = "INTEGRATION_ACCEPTED" /\ igRefs' = igRefs
    BY <1>1, <1>4
  <2>2. IGReadyIsProved'
    BY <2>1, <1>4 DEF IGInv, IGReadyIsProved
  <2>3. IGConflictIsReal'
    BY <1>4 DEF IGConflictIsReal
  <2> QED BY <1>1, <1>4, <2>2, <2>3, IGEndKeeps DEF IGStates
<1> QED BY <1>1, <1>2, <1>3, <1>4 DEF IGQuiet

\* The decision is published and its transition made, or the fallback is taken.
LEMMA IGFinishSays ==
  ASSUME NEW verdict, NEW next, NEW ok, IGFinish(verdict, next, ok)
  PROVE  \/ igBad = {} /\ ok /\ igState' = verdict /\ igAt' = next /\ igRefs' = igRefs \cup {verdict} /\ igBad' = igBad
         \/ IGFallback
  BY DEF IGFinish, IGVerified

\* A decision of a quiet state keeps the invariant.
LEMMA IGQuietFinishKeeps ==
  ASSUME IGInv, NEW verdict \in IGQuiet, NEW ok, IGFinish(verdict, "ended", ok), igAt \in IGBefore \cup IGDuring \cup {"ready"}, igAt # "queueing",
         UNCHANGED <<igWorld, igRequest, igReport, igMerged, igTarget, igRan>>, igFaults' \in 0..IGMaxFaults,
         igSpaces' = 0 \/ (igSpaces' = 1 /\ ~IGCleanupOnFailure /\ igTextual'.status = "unavailable")
  PROVE  IGInv'
<1>1. CASE igBad = {} /\ igState' = verdict /\ igAt' = "ended" /\ igRefs' = igRefs \cup {verdict} /\ igBad' = igBad
  BY <1>1, IGQuietEndKeeps
<1>2. CASE IGFallback
  BY <1>2, IGFallbackKeeps
<1> QED BY <1>1, <1>2, IGFinishSays

-----------------------------------------------------------------------------
(* Every step keeps the invariant. *)

\* Without a workspace the gate ends.
LEMMA IGIntegrateKeeps ==
  ASSUME IGInv, NEW ok \in IGOutcomes, IGIntegrate(ok)
  PROVE  IGInv'
<1>1. igAt = "integrate" /\ UNCHANGED <<igWorld, igRequest, igReport, igTarget, igRan, igClass>>
  BY DEF IGIntegrate
<1>2. igFaults \in 0..IGMaxFaults /\ igSpaces = 0 /\ igState = "INTEGRATING" /\ igRan = <<>> /\ IGIsRequest
  BY <1>1 DEF IGInv, IGTyped, IGPhase, IGCited, IGLists, IGBefore, IGDuring, IGRemerging
<1>3. CASE ok
  <2>1. /\ igAt' = "merge" /\ igSpaces' = 1 /\ igMerged' = <<>> /\ igFaults' = igFaults
        /\ UNCHANGED <<igState, igTextual, igRefs, igBad>>
    BY <1>2, <1>3 DEF IGIntegrate, IGOpenWorkspace, IGCount
  <2>2. /\ Len(igReport.order) \in Nat /\ Len(IGOrder) \in Nat /\ Len(IGOrder) > 0
        /\ igMerged' \in Seq(IGCandidates) /\ Len(igMerged') = 0 /\ ToSet(igMerged') = {}
    BY <1>1, <1>2, <2>1, IGReportHas, IGAssumption DEF IGInv, IGLists, IGQueued, ToSet
  <2>3. IGQueued'
    BY <1>1, <2>1, <2>2 DEF IGQueued
  <2>4. \A p \in igWorld'.clashes : IGOverlap(p)' # {}
    BY <1>1 DEF IGInv, IGTyped, IGOverlap
  <2>5. IGTyped'
    BY <1>1, <1>2, <2>1, <2>4 DEF IGInv, IGTyped, IGDuring, IGMerging
  <2>6. IGPhase'
    BY <1>2, <2>1 DEF IGPhase, IGNothingLeft, IGBefore, IGDuring, IGMerging, IGRemerging
  <2>7. IGLists'
    BY <1>1, <1>2, <2>1, <2>3, IGFrames DEF IGInv, IGLists, IGDuring, IGMerging, IGRemerging
  <2>8. IGCited' /\ IGClassified'
    BY <1>1, <1>2, <2>1 DEF IGInv, IGCited, IGClassified, IGBefore, IGDuring, IGMerging, IGRemerging
  <2>9. IGReadyIsProved' /\ IGConflictIsReal'
    BY <1>2, <2>1 DEF IGReadyIsProved, IGConflictIsReal
  <2> QED BY <2>5, <2>6, <2>7, <2>8, <2>9 DEF IGInv
<1>4. CASE ~ok
  <2>1. IGFinish("VALIDATION_UNAVAILABLE", "ended", TRUE) /\ IGCount(ok) /\ UNCHANGED <<igMerged, igSpaces>>
    BY <1>4 DEF IGIntegrate, IGUnavailable, IGCount
  <2>2. igFaults' \in 0..IGMaxFaults
    BY <1>2, <2>1, IGCountKeeps
  <2> QED BY <1>1, <1>2, <2>1, <2>2, IGQuietFinishKeeps DEF IGQuiet, IGDuring
<1> QED BY <1>3, <1>4

\* A next candidate that conflicts is in a pair that the report saw.
LEMMA IGConflictIsSeen ==
  ASSUME IGInv, igAt \in {"merge", "remerge"}, ~IGAllMerged, IGConflicts(IGNextCandidate)
  PROVE  igReport.class # "disjoint"
<1>1. PICK d \in ToSet(igMerged) : {IGNextCandidate, d} \in igWorld.clashes
  BY DEF IGConflicts
<1>2. /\ IGIsRequest /\ Len(IGOrder) > 0 /\ Len(igMerged) <= Len(igReport.order) /\ igMerged \in Seq(IGCandidates)
      /\ ToSet(igMerged) \subseteq ToSet(igReport.order) /\ IGReported
  BY DEF IGInv, IGLists, IGQueued, IGDuring, IGMerging, IGRemerging
<1>3. igReport.order \in Seq(IGCandidates) /\ Len(igReport.order) \in Nat
  BY <1>2, IGReportHas
<1>4. Len(igMerged) \in Nat /\ Len(igMerged) + 1 \in 1..Len(igReport.order)
  BY <1>2, <1>3 DEF IGAllMerged
<1>5. IGNextCandidate \in ToSet(igReport.order)
  BY <1>3, <1>4 DEF IGNextCandidate, ToSet
<1>6. {IGNextCandidate, d} \in IGPairs /\ IGOverlap({IGNextCandidate, d}) # {}
  BY <1>1 DEF IGInv, IGTyped
<1> QED BY <1>2, <1>5, <1>6 DEF IGReported

\* One merge keeps the invariant.
LEMMA IGMergeKeeps ==
  ASSUME IGInv, NEW at \in {"merge", "remerge"}, NEW ok \in IGOutcomes, IGMerge(at, ok)
  PROVE  IGInv'
<1> DEFINE c == IGNextCandidate
<1>1. /\ igAt = at /\ ~IGAllMerged /\ IGCount(ok)
      /\ UNCHANGED <<igWorld, igRequest, igReport, igState, igTextual, igTarget, igRan, igClass, igSpaces, igRefs, igBad>>
      /\ \/ igAt' = IGFailedAt[at] /\ igMerged' = igMerged
         \/ IGConflicts(c) /\ igAt' = IGConflictAt[at] /\ igMerged' = igMerged
         \/ igMerged' = Append(igMerged, c) /\ igAt' = igAt
  BY DEF IGMerge
<1>2. /\ IGIsRequest /\ Len(IGOrder) > 0 /\ Len(igMerged) <= Len(igReport.order) /\ igMerged \in Seq(IGCandidates)
      /\ ToSet(igMerged) \subseteq ToSet(igReport.order) /\ igFaults \in 0..IGMaxFaults /\ igState = "INTEGRATING" /\ igSpaces = 1
      /\ igRan = <<>>
  BY <1>1 DEF IGInv, IGLists, IGQueued, IGTyped, IGPhase, IGCited, IGDuring, IGMerging, IGRemerging
<1>3. igReport.order \in Seq(IGCandidates) /\ Len(igReport.order) \in Nat /\ Len(igReport.order) <= Len(IGOrder) /\ Len(IGOrder) \in Nat
  BY <1>2, IGReportHas, IGAssumption
<1>4. Len(igMerged) \in Nat /\ Len(igMerged) + 1 \in 1..Len(igReport.order)
  BY <1>1, <1>2, <1>3 DEF IGAllMerged
<1>5. c \in ToSet(igReport.order) /\ c \in IGCandidates
  BY <1>3, <1>4 DEF IGNextCandidate, ToSet
<1>6. /\ igAt' \in (IF at = "merge" THEN IGMerging ELSE {"remerge", "remerge-failed", "remerge-conflict"})
      /\ igAt' = "merge-conflict" => igReport.class # "disjoint"
  BY <1>1, IGConflictIsSeen DEF IGFailedAt, IGConflictAt, IGMerging
<1> HIDE DEF c
<1>7. /\ igMerged' \in Seq(IGCandidates) /\ Len(igMerged') <= Len(igReport.order) /\ Len(igMerged') <= Len(IGOrder)
      /\ ToSet(igMerged') \subseteq ToSet(igReport.order)
  <2>1. CASE igMerged' = igMerged
    BY <1>2, <1>3, <1>4, <2>1
  <2>2. CASE igMerged' = Append(igMerged, c)
    <3>1. igMerged' \in Seq(IGCandidates) /\ Len(igMerged') = Len(igMerged) + 1
      BY <1>2, <1>5, <2>2
    <3>2. \A i \in 1..Len(igMerged') : igMerged'[i] = c \/ \E j \in 1..Len(igMerged) : igMerged'[i] = igMerged[j]
      BY <1>2, <1>4, <2>2, <3>1
    <3>3. ToSet(igMerged') \subseteq ToSet(igReport.order)
      <4> SUFFICES ASSUME NEW x \in ToSet(igMerged')  PROVE x \in ToSet(igReport.order)
        OBVIOUS
      <4>1. PICK i \in 1..Len(igMerged') : x = igMerged'[i]
        BY <3>1 DEF ToSet
      <4>2. \A j \in 1..Len(igMerged) : igMerged[j] \in ToSet(igMerged)
        BY <1>2 DEF ToSet
      <4> QED BY <1>2, <1>5, <3>2, <4>1, <4>2
    <3> QED BY <1>3, <1>4, <3>1, <3>3
  <2> QED BY <1>1, <2>1, <2>2
<1>8. igFaults' \in 0..IGMaxFaults
  BY <1>1, <1>2, IGCountKeeps
<1>9. \A p \in igWorld'.clashes : IGOverlap(p)' # {}
  BY <1>1 DEF IGInv, IGTyped, IGOverlap
<1>10. IGTyped'
  BY <1>1, <1>6, <1>8, <1>9 DEF IGInv, IGTyped, IGDuring, IGMerging, IGRemerging
<1>11. IGPhase'
  BY <1>1, <1>2, <1>6 DEF IGPhase, IGNothingLeft, IGBefore, IGDuring, IGMerging, IGRemerging
<1>12. igAt # "queueing" /\ igAt' # "queueing" /\ igReport' = igReport
  BY <1>1, <1>6 DEF IGMerging
<1>16. IGQueued'
  BY <1>2, <1>7, <1>12 DEF IGQueued
<1>13. IGLists'
  BY <1>1, <1>2, <1>6, <1>12, <1>16, IGFrames DEF IGInv, IGLists
<1>14. IGCited' /\ IGClassified'
  BY <1>1, <1>2, <1>6 DEF IGInv, IGCited, IGClassified, IGBefore, IGDuring, IGMerging, IGRemerging
<1>15. IGReadyIsProved' /\ IGConflictIsReal'
  BY <1>1, <1>2 DEF IGReadyIsProved, IGConflictIsReal
<1> QED BY <1>10, <1>11, <1>13, <1>14, <1>15 DEF IGInv

\* An input that is not valid is refused; one that is valid is bound.
LEMMA IGRunKeeps ==
  ASSUME IGInv, NEW q \in IGRequests, NEW ok \in IGOutcomes, IGRun(q, ok)
  PROVE  IGInv'
<1>1. /\ igAt = "idle" /\ IGCount(ok) /\ UNCHANGED <<igWorld, igReport, igMerged, igTextual, igTarget, igRan, igClass, igSpaces>>
      /\ igRequest' = IF IGValid(q) THEN q ELSE igRequest
      /\ IF ~IGValid(q) THEN igAt' = "ended" /\ UNCHANGED <<igState, igRefs, igBad>>
         ELSE IF ok THEN igAt' = "heads" /\ igRefs' = {"input"} /\ UNCHANGED <<igState, igBad>>
         ELSE IGFallback
  BY DEF IGRun
<1>2. igFaults' \in 0..IGMaxFaults /\ igSpaces = 0 /\ igState = "BRANCH_ACCEPTED" /\ igRan = <<>> /\ igBad \subseteq igRefs
  BY <1>1, IGCountKeeps DEF IGInv, IGTyped, IGPhase, IGCited, IGBefore
<1>3. \A p \in igWorld'.clashes : IGOverlap(p)' # {}
  BY <1>1 DEF IGInv, IGTyped, IGOverlap
<1>4. igAt' \in {"heads", "ended"} /\ igState' \in IGQuiet /\ igBad' \subseteq igRefs'
  <2>1. CASE IGFallback
    BY <2>1, <1>2, IGFallbackSays DEF IGQuiet
  <2>2. CASE igBad' = igBad /\ igRefs' = igRefs /\ igState' = igState /\ igAt' = "ended"
    BY <2>2, <1>2 DEF IGQuiet
  <2>3. CASE igAt' = "heads" /\ igRefs' = {"input"} /\ UNCHANGED <<igState, igBad>>
    <3>1. igBad = {}
      BY <1>1 DEF IGInv, IGTyped, IGCited
    <3> QED BY <1>2, <2>3, <3>1 DEF IGQuiet
  <2> QED BY <1>1, <2>1, <2>2, <2>3
<1>5. IGTyped'
  BY <1>1, <1>2, <1>3, <1>4 DEF IGInv, IGTyped, IGBefore, IGQuiet
<1>6. igAt' = "heads" => igState' = "BRANCH_ACCEPTED" /\ igRefs' = {"input"} /\ igRequest' \in IGRequests /\ IGValid(igRequest')
  <2>1. IGFallback => igAt' = "ended"
    BY IGFallbackSays
  <2> QED BY <1>1, <1>2, <2>1
<1>7. IGPhase'
  BY <1>1, <1>2, <1>4, <1>6 DEF IGPhase, IGNothingLeft, IGBefore, IGDuring, IGMerging, IGRemerging
<1>8. igAt' = "heads" => IGIsRequest'
  BY <1>1, <1>6 DEF IGIsRequest, IGValid, IGFits, IGBlockersResolved, IGReviewed
<1>9. IGQueued'
  BY <1>1, <1>4 DEF IGInv, IGLists, IGQueued, IGMerging, IGRemerging
<1>10. IGLists'
  BY <1>1, <1>4, <1>8, <1>9, IGFrames DEF IGInv, IGLists, IGDuring, IGMerging, IGRemerging
<1>11. IGCited' /\ IGClassified'
  BY <1>1, <1>2, <1>4, <1>6 DEF IGCited, IGClassified, IGBefore, IGDuring, IGMerging, IGRemerging
<1>12. IGReadyIsProved' /\ IGConflictIsReal'
  BY <1>4 DEF IGReadyIsProved, IGConflictIsReal, IGQuiet
<1> QED BY <1>5, <1>7, <1>10, <1>11, <1>12 DEF IGInv

\* The check of the source heads keeps the invariant.
LEMMA IGInitialHeadsKeeps ==
  ASSUME IGInv, NEW ok \in IGOutcomes, IGInitialHeads(ok)
  PROVE  IGInv'
<1>1. /\ igAt = "heads" /\ IGCount(ok)
      /\ UNCHANGED <<igWorld, igRequest, igReport, igMerged, igTextual, igTarget, igRan, igClass, igSpaces>>
      /\ \/ IGFallback
         \/ IGFinish("FAILED", "ended", TRUE)
         \/ igState' = "INTEGRATING" /\ igAt' = "integrate" /\ igRefs' = igRefs \cup {"heads-initial"} /\ igBad' = igBad
  BY DEF IGInitialHeads
<1>2. igFaults' \in 0..IGMaxFaults /\ igSpaces = 0 /\ igState = "BRANCH_ACCEPTED"
  BY <1>1, IGCountKeeps DEF IGInv, IGTyped, IGPhase, IGBefore
<1>3. CASE IGFallback
  BY <1>1, <1>2, <1>3, IGFallbackKeeps DEF IGBefore
<1>4. CASE IGFinish("FAILED", "ended", TRUE)
  BY <1>1, <1>2, <1>4, IGQuietFinishKeeps DEF IGBefore, IGQuiet
<1>5. CASE igState' = "INTEGRATING" /\ igAt' = "integrate" /\ igRefs' = igRefs \cup {"heads-initial"} /\ igBad' = igBad
  <2>1. \A p \in igWorld'.clashes : IGOverlap(p)' # {}
    BY <1>1 DEF IGInv, IGTyped, IGOverlap
  <2>2. IGTyped'
    BY <1>1, <1>2, <1>5, <2>1 DEF IGInv, IGTyped, IGDuring
  <2>3. IGPhase'
    BY <1>1, <1>2, <1>5 DEF IGPhase, IGNothingLeft, IGBefore, IGDuring, IGMerging, IGRemerging
  <2>4. IGQueued'
    BY <1>1, <1>5 DEF IGInv, IGLists, IGQueued, IGMerging, IGRemerging
  <2>5. IGLists'
    BY <1>1, <1>5, <2>4, IGFrames DEF IGInv, IGLists, IGDuring, IGMerging, IGRemerging
  <2>6. IGCited' /\ IGClassified'
    BY <1>1, <1>5 DEF IGInv, IGCited, IGClassified, IGBefore, IGDuring, IGMerging, IGRemerging
  <2>7. IGReadyIsProved' /\ IGConflictIsReal'
    BY <1>5 DEF IGReadyIsProved, IGConflictIsReal
  <2> QED BY <2>2, <2>3, <2>5, <2>6, <2>7 DEF IGInv
<1> QED BY <1>1, <1>3, <1>4, <1>5

\* The capture of the merges keeps the invariant.
LEMMA IGCaptureKeeps ==
  ASSUME IGInv, NEW kept \in BOOLEAN, NEW ok \in BOOLEAN, IGCapture(kept, ok)
  PROVE  IGInv'
<1>1. igAt \in IGMerging /\ (IGTextualStatus = "conflict" => igAt = "merge-conflict") /\ (IGTextualStatus = "clean" => igAt = "merge")
  BY DEF IGCapture, IGTextualStatus, IGMerging
<1>2. /\ igSpaces = 1 /\ igState = "INTEGRATING" /\ igFaults \in 0..IGMaxFaults /\ igRan = <<>>
      /\ (igAt = "merge-conflict" => igReport.class # "disjoint")
      /\ {"input", "heads-initial"} \subseteq igRefs
  BY <1>1 DEF IGInv, IGTyped, IGPhase, IGLists, IGCited, IGDuring, IGMerging, IGRemerging
<1>3. /\ igTextual' = [status |-> IF kept THEN IGTextualStatus ELSE "unavailable", commit |-> igMerged]
      /\ igSpaces' = (IF kept \/ IGCleanupOnFailure THEN igSpaces - 1 ELSE igSpaces)
      /\ UNCHANGED <<igWorld, igRequest, igReport, igMerged, igTarget, igRan, igClass>>
      /\ IF kept /\ IGTextualStatus = "clean"
         THEN igAt' = "materialize" /\ igRefs' = igRefs \cup {"capture", "cleanup"} /\ UNCHANGED <<igState, igBad>>
         ELSE IGFinish(IF kept /\ IGTextualStatus = "conflict" THEN "INTEGRATION_CONFLICT" ELSE "VALIDATION_UNAVAILABLE", "ended", ok)
  BY DEF IGCapture
<1>4. igFaults' \in 0..IGMaxFaults
  <2>1. IGMaxFaults \in Nat /\ igFaults \in Nat
    BY <1>2, IGAssumption
  <2>2. igFaults' = igFaults + (IF kept THEN 0 ELSE 1) + (IF ok THEN 0 ELSE 1) /\ igFaults' <= IGMaxFaults
    BY DEF IGCapture
  <2> DEFINE a == IF kept THEN 0 ELSE 1  b == IF ok THEN 0 ELSE 1
  <2>3. a \in Nat /\ b \in Nat
    OBVIOUS
  <2>4. igFaults' = igFaults + a + b
    BY <2>2
  <2> HIDE DEF a, b
  <2> QED BY <2>1, <2>2, <2>3, <2>4
<1>5. igSpaces' = 0 \/ (igSpaces' = 1 /\ ~IGCleanupOnFailure /\ igTextual'.status = "unavailable")
  BY <1>2, <1>3
<1>6. CASE kept /\ IGTextualStatus = "clean"
  <2>1. igAt' = "materialize" /\ igRefs' = igRefs \cup {"capture", "cleanup"} /\ UNCHANGED <<igState, igBad>> /\ igSpaces' = 0
    BY <1>2, <1>3, <1>6
  <2>2. \A p \in igWorld'.clashes : IGOverlap(p)' # {}
    BY <1>3 DEF IGInv, IGTyped, IGOverlap
  <2>3. IGTyped'
    BY <1>3, <1>4, <2>1, <2>2 DEF IGInv, IGTyped, IGDuring
  <2>4. IGPhase'
    BY <1>2, <2>1 DEF IGPhase, IGNothingLeft, IGBefore, IGDuring, IGMerging, IGRemerging
  <2>5. IGQueued'
    BY <1>1, <1>3, <2>1 DEF IGInv, IGLists, IGQueued, IGMerging, IGRemerging
  <2>6. IGLists'
    BY <1>1, <1>3, <2>1, <2>5, IGFrames DEF IGInv, IGLists, IGDuring, IGMerging, IGRemerging
  <2>7. IGCited' /\ IGClassified'
    BY <1>2, <1>3, <2>1 DEF IGCited, IGClassified, IGBefore, IGDuring, IGMerging, IGRemerging
  <2>8. IGReadyIsProved' /\ IGConflictIsReal'
    BY <1>2, <2>1 DEF IGReadyIsProved, IGConflictIsReal
  <2> QED BY <2>3, <2>4, <2>6, <2>7, <2>8 DEF IGInv
<1>7. CASE ~(kept /\ IGTextualStatus = "clean") /\ kept /\ IGTextualStatus = "conflict"
  <2>1. IGFinish("INTEGRATION_CONFLICT", "ended", ok)
    BY <1>3, <1>7
  <2>2. CASE igBad = {} /\ igState' = "INTEGRATION_CONFLICT" /\ igAt' = "ended" /\ igRefs' = igRefs \cup {"INTEGRATION_CONFLICT"} /\ igBad' = igBad
    <3>1. igReport'.class # "disjoint" /\ igTextual'.status = "conflict"
      BY <1>1, <1>2, <1>3, <1>7
    <3>2. IGReadyIsProved' /\ IGConflictIsReal'
      BY <2>2, <3>1 DEF IGReadyIsProved, IGConflictIsReal
    <3>3. igAt # "queueing"
      BY <1>1 DEF IGMerging
    <3> QED BY <1>3, <1>4, <1>5, <2>2, <3>2, <3>3, IGEndKeeps DEF IGStates
  <2>3. CASE IGFallback
    BY <1>1, <1>3, <1>4, <1>5, <2>3, IGFallbackKeeps DEF IGDuring, IGMerging
  <2> QED BY <2>1, <2>2, <2>3, IGFinishSays
<1>8. CASE ~(kept /\ IGTextualStatus = "clean") /\ ~(kept /\ IGTextualStatus = "conflict")
  <2>1. IGFinish("VALIDATION_UNAVAILABLE", "ended", ok)
    BY <1>3, <1>8
  <2> QED BY <1>1, <1>3, <1>4, <1>5, <2>1, IGQuietFinishKeeps DEF IGDuring, IGMerging, IGQuiet
<1> QED BY <1>6, <1>7, <1>8

\* An acceptance command keeps the invariant.
LEMMA IGAcceptKeeps ==
  ASSUME IGInv, NEW outcome \in {"succeeded", "exited", "timed_out"}, NEW edits \in BOOLEAN, IGAccept(outcome, edits)
  PROVE  IGInv'
<1>1. /\ igAt = "accept" /\ igAt' = "accept" /\ igRan' = Append(igRan, outcome) /\ Len(igRan) < Len(IGCommands)
      /\ igTarget' = [igTarget EXCEPT !.edited = @ \/ edits] /\ igRefs' = igRefs \cup {"acceptance"}
      /\ UNCHANGED <<igWorld, igRequest, igReport, igState, igMerged, igTextual, igClass, igSpaces, igBad, igFaults>>
  BY DEF IGAccept
<1>2. /\ igRan \in Seq({"succeeded", "exited", "timed_out"}) /\ igTarget = [commit |-> igTarget.commit, edited |-> igTarget.edited]
      /\ igTarget.edited \in BOOLEAN /\ igState = "INTEGRATING" /\ igSpaces = 1 /\ Len(IGCommands) \in Nat
  BY <1>1, IGAssumption DEF IGInv, IGTyped, IGPhase, IGDuring, IGMerging, IGRemerging
<1>3. igRan' \in Seq({"succeeded", "exited", "timed_out"}) /\ Len(igRan') <= Len(IGCommands)
  BY <1>1, <1>2
<1>4. igTarget' = [commit |-> igTarget'.commit, edited |-> igTarget'.edited] /\ igTarget'.edited \in BOOLEAN
  <2>1. igTarget' = [commit |-> igTarget.commit, edited |-> igTarget.edited \/ edits]
    BY <1>1, <1>2
  <2> QED BY <1>2, <2>1
<1>5. \A p \in igWorld'.clashes : IGOverlap(p)' # {}
  BY <1>1 DEF IGInv, IGTyped, IGOverlap
<1>6. IGTyped'
  BY <1>1, <1>3, <1>4, <1>5 DEF IGInv, IGTyped
<1>7. IGPhase'
  BY <1>1, <1>2 DEF IGPhase, IGNothingLeft, IGBefore, IGDuring, IGMerging, IGRemerging
<1>8. IGQueued'
  BY <1>1 DEF IGInv, IGLists, IGQueued, IGMerging, IGRemerging
<1>9. IGLists'
  BY <1>1, <1>8, IGFrames DEF IGInv, IGLists, IGDuring, IGMerging, IGRemerging
<1>10. IGCited' /\ IGClassified'
  BY <1>1 DEF IGInv, IGCited, IGClassified, IGBefore, IGDuring, IGMerging, IGRemerging
<1>11. IGReadyIsProved' /\ IGConflictIsReal'
  BY <1>1, <1>2 DEF IGReadyIsProved, IGConflictIsReal
<1> QED BY <1>6, <1>7, <1>9, <1>10, <1>11 DEF IGInv

\* A classification that is clean, or a conflict, is of the integrated commit as it was tested.
LEMMA IGClassifies ==
  ASSUME IGInv, igAt = "accept", NEW observed, igClass' = IF IGInputsFit THEN IGClassify(observed) ELSE "refused",
         Len(igRan) = Len(IGCommands) \/ IGStopped \/ ~IGInputsFit
  PROVE  /\ igClass' = "clean" => IGTested /\ "acceptance" \in igRefs /\ \A k \in DOMAIN IGCommands : IGCommands[k].required => igRan[k] = "succeeded"
         /\ igClass' = "semantic-conflict" =>
              IGTested /\ \E k \in DOMAIN igRan : IGCommands[k].class \in IGSemantic /\ igRan[k] = "exited"
<1>1. /\ igRan \in Seq({"succeeded", "exited", "timed_out"}) /\ igTarget = [commit |-> igTarget.commit, edited |-> igTarget.edited]
      /\ igTarget.edited \in BOOLEAN /\ IGCommands \in Seq(ToSet(IGCommands)) /\ DOMAIN IGCommands = 1..Len(IGCommands)
      /\ DOMAIN igRan = 1..Len(igRan) /\ Len(igRan) \in Nat /\ Len(IGCommands) \in Nat
  BY IGAssumption DEF IGInv, IGTyped
<1>2. ASSUME IGInputsFit, IGTargetHolds(observed)
      PROVE  IGTested
  <2>1. igTarget.edited = FALSE /\ igTarget.commit = igReport.order /\ igReport.order = igRequest.order
    BY <1>1, <1>2 DEF IGTargetHolds, IGUnedited, IGInputsFit
  <2> QED BY <1>1, <2>1 DEF IGTested
<1>3. ASSUME igClass' = "clean"
      PROVE  IGTested /\ "acceptance" \in igRefs /\ \A k \in DOMAIN IGCommands : IGCommands[k].required => igRan[k] = "succeeded"
  <2>1. IGInputsFit /\ IGClassify(observed) = "clean"
    BY <1>3
  <2>2. IGTargetHolds(observed) /\ ~IGStopped /\ IGPassed
    <3> DEFINE e == LET k == Len(igRan) IN IF igRan[k] # "exited" THEN "unavailable"
                                          ELSE IF IGCommands[k].class \in IGSemantic THEN "semantic-conflict" ELSE "fail-closed"
    <3>1. e # "clean"
      OBVIOUS
    <3>2. IGClassify(observed) = IF ~observed THEN "unavailable" ELSE IF ~IGTargetHolds(observed) THEN "fail-closed"
                                 ELSE IF ~IGOutputKept THEN "unavailable"
                                 ELSE IF ~IGStopped THEN (IF IGPassed THEN "clean" ELSE "unavailable") ELSE e
      BY DEF IGClassify
    <3> HIDE DEF e
    <3> QED BY <2>1, <3>1, <3>2
  <2>3. Len(igRan) = Len(IGCommands)
    BY <2>1, <2>2
  <2>4. \A k \in DOMAIN IGCommands : IGCommands[k].required => igRan[k] = "succeeded"
    BY <1>1, <2>2, <2>3 DEF IGStopped, IGFailed
  <2>5. Len(igRan) > 0
    <3>1. PICK k \in DOMAIN IGCommands : IGCommands[k].required
      BY <2>2 DEF IGPassed
    <3> QED BY <1>1, <2>3, <3>1
  <2> QED BY <1>2, <2>1, <2>2, <2>4, <2>5 DEF IGInv, IGCited
<1>4. ASSUME igClass' = "semantic-conflict"
      PROVE  IGTested /\ \E k \in DOMAIN igRan : IGCommands[k].class \in IGSemantic /\ igRan[k] = "exited"
  <2>1. IGInputsFit /\ IGClassify(observed) = "semantic-conflict"
    BY <1>4
  <2>2. IGTargetHolds(observed) /\ IGStopped /\ igRan[Len(igRan)] = "exited" /\ IGCommands[Len(igRan)].class \in IGSemantic
    BY <2>1 DEF IGClassify
  <2>3. Len(igRan) \in DOMAIN igRan
    <3>1. PICK k \in DOMAIN igRan : IGFailed(k)
      BY <2>2 DEF IGStopped
    <3>2. DOMAIN igRan = 1..Len(igRan) /\ Len(igRan) \in Nat
      BY <1>1
    <3> QED BY <3>1, <3>2
  <2> QED BY <1>2, <2>1, <2>2, <2>3
<1> QED BY <1>3, <1>4

\* The end of the acceptance keeps the invariant.
LEMMA IGEvaluateKeeps ==
  ASSUME IGInv, NEW observed \in IGOutcomes, IGEvaluate(observed)
  PROVE  IGInv'
<1>1. /\ igAt = "accept" /\ igAt' = "accepted" /\ IGCount(observed) /\ igRefs' = igRefs \cup {"combined"}
      /\ UNCHANGED <<igWorld, igRequest, igReport, igState, igMerged, igTextual, igTarget, igRan, igSpaces, igBad>>
  BY DEF IGEvaluate
<1>2. igFaults' \in 0..IGMaxFaults /\ igState = "INTEGRATING" /\ igSpaces = 1
  BY <1>1, IGCountKeeps DEF IGInv, IGTyped, IGPhase, IGDuring, IGRemerging
<1>3. /\ igClass' = "clean" => IGTested /\ "acceptance" \in igRefs /\ \A k \in DOMAIN IGCommands : IGCommands[k].required => igRan[k] = "succeeded"
      /\ igClass' = "semantic-conflict" =>
           IGTested /\ \E k \in DOMAIN igRan : IGCommands[k].class \in IGSemantic /\ igRan[k] = "exited"
  BY IGClassifies DEF IGEvaluate
<1>4. IGTested' = IGTested
  BY <1>1 DEF IGTested
<1>5. IGClassified'
  BY <1>1, <1>3, <1>4 DEF IGClassified
<1>6. \A p \in igWorld'.clashes : IGOverlap(p)' # {}
  BY <1>1 DEF IGInv, IGTyped, IGOverlap
<1>7. IGTyped'
  BY <1>1, <1>2, <1>6 DEF IGInv, IGTyped, IGDuring, IGRemerging
<1>8. IGPhase'
  BY <1>1, <1>2 DEF IGPhase, IGNothingLeft, IGBefore, IGDuring, IGMerging, IGRemerging
<1>9. IGQueued'
  BY <1>1 DEF IGInv, IGLists, IGQueued, IGMerging, IGRemerging
<1>10. IGLists'
  BY <1>1, <1>9, IGFrames DEF IGInv, IGLists, IGDuring, IGMerging, IGRemerging
<1>11. IGCited'
  BY <1>1 DEF IGInv, IGCited, IGBefore, IGDuring, IGMerging, IGRemerging
<1>12. IGReadyIsProved' /\ IGConflictIsReal'
  BY <1>1, <1>2 DEF IGReadyIsProved, IGConflictIsReal
<1> QED BY <1>5, <1>7, <1>8, <1>10, <1>11, <1>12 DEF IGInv

\* What was requested was reviewed at its exact commit and has no open blocker.
LEMMA IGRequestIsReviewed ==
  ASSUME IGIsRequest
  PROVE  /\ [component |-> "security", sha |-> "required", verdict |-> "clean"] \in igRequest.reviews
         /\ \A r \in igRequest.reviews : r.verdict = "clean"
         /\ \A b \in igRequest.blockers : b.resolved
<1>1. igRequest.reviews \subseteq IGReviews
  BY IGRequestsHave DEF IGIsRequest
<1>2. IGReviewed(igRequest) /\ IGBlockersResolved(igRequest)
  BY DEF IGIsRequest, IGValid
<1>3. \A r \in igRequest.reviews : r.verdict = "clean"
  BY <1>2 DEF IGReviewed
<1>4. PICK r \in igRequest.reviews : r.component = "security" /\ r.sha = "required"
  BY <1>2 DEF IGReviewed
<1>5. r = [component |-> "security", sha |-> "required", verdict |-> "clean"]
  BY <1>1, <1>3, <1>4 DEF IGReviews
<1> QED BY <1>2, <1>3, <1>4, <1>5 DEF IGBlockersResolved

\* Leaving the workspace keeps the invariant.
LEMMA IGLeaveKeeps ==
  ASSUME IGInv, NEW ok \in IGOutcomes, IGLeave(ok)
  PROVE  IGInv'
<1> DEFINE good == ok /\ igAt = "accepted" /\ IGHeadsHold
           verdict == CASE good /\ igClass = "clean" -> "INTEGRATION_ACCEPTED"
                      [] good /\ igClass = "semantic-conflict" -> "SEMANTIC_CONFLICT"
                      [] OTHER -> "VALIDATION_UNAVAILABLE"
           next == IF verdict = "INTEGRATION_ACCEPTED" THEN "ready" ELSE "ended"
<1>1. /\ igAt \in {"accepted", "unmaterialized", "remerge-failed", "remerge-conflict"} /\ igSpaces' = 0 /\ IGCount(ok)
      /\ IGFinish(verdict, next, TRUE)
      /\ UNCHANGED <<igWorld, igRequest, igReport, igMerged, igTextual, igTarget, igRan, igClass>>
  BY Zenon DEF IGLeave
<1>2. \/ verdict = "INTEGRATION_ACCEPTED" /\ next = "ready" /\ igAt = "accepted" /\ igClass = "clean"
      \/ verdict = "SEMANTIC_CONFLICT" /\ next = "ended" /\ igAt = "accepted" /\ igClass = "semantic-conflict"
      \/ verdict = "VALIDATION_UNAVAILABLE" /\ next = "ended"
  OBVIOUS
<1> HIDE DEF good, verdict, next
<1>3. /\ igFaults' \in 0..IGMaxFaults /\ igState = "INTEGRATING" /\ IGIsRequest
      /\ {"input", "heads-initial"} \subseteq igRefs /\ igBad \subseteq igRefs /\ igAt \in IGDuring /\ igAt # "queueing"
      /\ igAt = "accepted" => {"capture", "cleanup", "materialization"} \subseteq igRefs
  BY <1>1, IGCountKeeps DEF IGInv, IGTyped, IGPhase, IGLists, IGCited, IGDuring, IGRemerging
<1>4. CASE IGFallback
  BY <1>1, <1>3, <1>4, IGFallbackKeeps
<1>5. CASE igBad = {} /\ igState' = verdict /\ igAt' = next /\ igRefs' = igRefs \cup {verdict} /\ igBad' = igBad
  <2>1. CASE verdict = "VALIDATION_UNAVAILABLE" /\ next = "ended"
    BY <1>1, <1>3, <1>5, <2>1, IGQuietEndKeeps DEF IGQuiet
  <2>2. CASE verdict = "SEMANTIC_CONFLICT" /\ next = "ended" /\ igAt = "accepted" /\ igClass = "semantic-conflict"
    <3>1. IGTested /\ \E k \in DOMAIN igRan : IGCommands[k].class \in IGSemantic /\ igRan[k] = "exited"
      BY <2>2 DEF IGInv, IGClassified
    <3>2. IGConflictIsReal' /\ IGReadyIsProved'
      BY <1>1, <1>5, <2>2, <3>1 DEF IGConflictIsReal, IGReadyIsProved, IGTested
    <3> QED BY <1>1, <1>3, <1>5, <2>2, <3>2, IGEndKeeps DEF IGStates
  <2>3. CASE verdict = "INTEGRATION_ACCEPTED" /\ next = "ready" /\ igAt = "accepted" /\ igClass = "clean"
    <3>1. /\ IGTested /\ {"acceptance", "combined"} \subseteq igRefs
          /\ \A k \in DOMAIN IGCommands : IGCommands[k].required => igRan[k] = "succeeded"
      BY <2>3 DEF IGInv, IGClassified
    <3>2. IGReadyIsProved'
      <4>1. igTarget' = [commit |-> igReport'.order, edited |-> FALSE] /\ igReport'.order = igRequest'.order
        BY <1>1, <3>1 DEF IGTested
      <4>2. {"input", "heads-initial", "capture", "cleanup", "materialization", "acceptance", "combined"} \subseteq igRefs'
        BY <1>3, <1>5, <2>3, <3>1
      <4>3. igRequest' = igRequest /\ igRan' = igRan
        BY <1>1
      <4> QED BY <1>3, <3>1, <4>1, <4>2, <4>3, IGRequestIsReviewed DEF IGReadyIsProved
    <3>3. IGConflictIsReal' /\ IGCited' /\ IGClassified'
      BY <1>5, <2>3 DEF IGConflictIsReal, IGCited, IGClassified, IGBefore, IGDuring, IGMerging, IGRemerging
    <3>4. \A p \in igWorld'.clashes : IGOverlap(p)' # {}
      BY <1>1 DEF IGInv, IGTyped, IGOverlap
    <3>5. IGTyped'
      BY <1>1, <1>3, <1>5, <2>3, <3>4 DEF IGInv, IGTyped
    <3>6. IGPhase'
      BY <1>1, <1>5, <2>3 DEF IGPhase, IGNothingLeft, IGBefore, IGDuring, IGMerging, IGRemerging
    <3>7. IGQueued'
      BY <1>1, <1>5, <2>3 DEF IGInv, IGLists, IGQueued, IGMerging, IGRemerging
    <3>8. IGLists'
      BY <1>1, <1>3, <1>5, <2>3, <3>7, IGFrames DEF IGInv, IGLists, IGDuring, IGMerging, IGRemerging
    <3> QED BY <3>2, <3>3, <3>5, <3>6, <3>8 DEF IGInv
  <2> QED BY <1>2, <2>1, <2>2, <2>3
<1> QED BY <1>1, <1>4, <1>5, IGFinishSays

\* The offer keeps the invariant.
LEMMA IGReadyKeeps ==
  ASSUME IGInv, NEW ok \in IGOutcomes, IGReady(ok)
  PROVE  IGInv'
<1>1. /\ igAt = "ready" /\ IGCount(ok)
      /\ UNCHANGED <<igWorld, igRequest, igReport, igMerged, igTextual, igTarget, igRan, igClass, igSpaces>>
      /\ IGFallback \/ IGFinish("FAILED", "ended", TRUE) \/ IGFinish("READY_FOR_MERGE", "ended", TRUE)
  BY DEF IGReady
<1>2. igFaults' \in 0..IGMaxFaults /\ igSpaces = 0 /\ igState = "INTEGRATION_ACCEPTED" /\ igBad \subseteq igRefs
  BY <1>1, IGCountKeeps DEF IGInv, IGTyped, IGPhase
<1>3. CASE IGFallback
  BY <1>1, <1>2, <1>3, IGFallbackKeeps
<1>4. CASE IGFinish("FAILED", "ended", TRUE)
  BY <1>1, <1>2, <1>4, IGQuietFinishKeeps DEF IGQuiet
<1>5. CASE igBad = {} /\ igState' = "READY_FOR_MERGE" /\ igAt' = "ended" /\ igRefs' = igRefs \cup {"READY_FOR_MERGE"} /\ igBad' = igBad
  <2>1. IGReadyIsProved' /\ IGConflictIsReal'
    BY <1>1, <1>2, <1>5 DEF IGInv, IGReadyIsProved, IGConflictIsReal
  <2> QED BY <1>1, <1>2, <1>5, <2>1, IGEndKeeps DEF IGStates
<1> QED BY <1>1, <1>3, <1>4, <1>5, IGFinishSays

\* The queue has every candidate once, so it has no more than there are.
LEMMA IGQueueFits ==
  ASSUME NEW m \in Seq(IGCandidates), \A i, j \in 1..Len(m) : m[i] = m[j] => i = j
  PROVE  Len(m) <= Len(IGOrder)
<1> DEFINE A == 1..Len(m)  B == 1..Len(IGOrder)
           f == [i \in A |-> CHOOSE j \in B : IGOrder[j] = m[i]]
<1>1. Len(m) \in Nat /\ Len(IGOrder) \in Nat /\ DOMAIN IGOrder = B /\ \A i \in A : m[i] \in IGCandidates
  BY IGAssumption
<1>2. \A i \in A : \E j \in B : IGOrder[j] = m[i]
  BY <1>1 DEF IGCandidates, ToSet
<1>3. \A i \in A : f[i] \in B /\ IGOrder[f[i]] = m[i]
  BY <1>2
<1>4. f \in [A -> B]
  BY <1>3
<1> HIDE DEF f
<1>5. \A i, j \in A : f[i] = f[j] => i = j
  BY <1>3
<1>6. f \in Injection(A, B)
  BY <1>4, <1>5 DEF Injection, IsInjective
<1>7. IsFiniteSet(B) /\ Cardinality(B) = Len(IGOrder) /\ Cardinality(A) = Len(m)
  <2>1. 1 \in Int /\ Len(m) \in Int /\ Len(IGOrder) \in Int
    BY <1>1
  <2>2. IsFiniteSet(B) /\ Cardinality(B) = IF 1 > Len(IGOrder) THEN 0 ELSE Len(IGOrder) - 1 + 1
    BY <2>1, FS_Interval
  <2>3. Cardinality(A) = IF 1 > Len(m) THEN 0 ELSE Len(m) - 1 + 1
    BY <2>1, FS_Interval
  <2> QED BY <1>1, <2>2, <2>3
<1>8. Cardinality(A) <= Cardinality(B)
  BY <1>6, <1>7, FS_Injection
<1> QED BY <1>7, <1>8

\* A candidate that is queued keeps the invariant.
LEMMA IGEnqueueKeeps ==
  ASSUME IGInv, NEW c \in IGCandidates, IGEnqueue(c)
  PROVE  IGInv'
<1>1. /\ igAt = "queueing" /\ c \notin ToSet(igMerged) /\ igMerged' = Append(igMerged, c)
      /\ UNCHANGED <<igWorld, igRequest, igReport, igState, igAt, igTextual, igTarget, igRan, igClass, igSpaces, igRefs, igBad, igFaults>>
  BY DEF IGEnqueue
<1>2. igMerged \in Seq(IGCandidates) /\ \A i, j \in 1..Len(igMerged) : igMerged[i] = igMerged[j] => i = j
  BY <1>1 DEF IGInv, IGLists, IGQueued
<1>3. igMerged' \in Seq(IGCandidates) /\ Len(igMerged) \in Nat /\ Len(igMerged') = Len(igMerged) + 1
  BY <1>1, <1>2
<1>4. \A i \in 1..Len(igMerged) : igMerged'[i] = igMerged[i] /\ igMerged[i] # c
  BY <1>1, <1>2 DEF ToSet
<1>5. igMerged'[Len(igMerged) + 1] = c
  BY <1>1, <1>2
<1>6. \A i, j \in 1..Len(igMerged') : igMerged'[i] = igMerged'[j] => i = j
  <2> SUFFICES ASSUME NEW i \in 1..Len(igMerged'), NEW j \in 1..Len(igMerged'), igMerged'[i] = igMerged'[j]  PROVE i = j
    OBVIOUS
  <2>1. (i \in 1..Len(igMerged) \/ i = Len(igMerged) + 1) /\ (j \in 1..Len(igMerged) \/ j = Len(igMerged) + 1)
    BY <1>3
  <2> QED BY <1>2, <1>4, <1>5, <2>1
<1>7. Len(igMerged') <= Len(IGOrder)
  BY <1>3, <1>6, IGQueueFits
<1>8. IGQueued'
  BY <1>1, <1>3, <1>6, <1>7 DEF IGQueued, IGMerging, IGRemerging
<1>9. IGLists'
  BY <1>1, <1>8 DEF IGLists, IGDuring, IGMerging, IGRemerging
<1>10. \A p \in igWorld'.clashes : IGOverlap(p)' # {}
  BY <1>1 DEF IGInv, IGTyped, IGOverlap
<1>11. IGTyped'
  BY <1>1, <1>10 DEF IGInv, IGTyped
<1>12. IGPhase' /\ IGCited' /\ IGClassified' /\ IGReadyIsProved' /\ IGConflictIsReal'
  BY <1>1 DEF IGInv, IGPhase, IGNothingLeft, IGCited, IGClassified, IGReadyIsProved, IGConflictIsReal, IGBefore, IGDuring, IGMerging, IGRemerging
<1> QED BY <1>9, <1>11, <1>12 DEF IGInv

\* The highest of some classes is one of them, and none ranks above it.
LEMMA IGHighestIs ==
  ASSUME NEW classes \in SUBSET {"disjoint", "overlapping", "protected"}, "disjoint" \in classes
  PROVE  IGHighest(classes) \in classes /\ \A q \in classes : IGRiskRank[q] <= IGRiskRank[IGHighest(classes)]
<1>1. IGRiskRank["disjoint"] = 1 /\ IGRiskRank["overlapping"] = 2 /\ IGRiskRank["protected"] = 3
  BY DEF IGRiskRank
<1>2. \E r \in classes : \A q \in classes : IGRiskRank[q] <= IGRiskRank[r]
  <2>1. CASE "protected" \in classes
    BY <1>1, <2>1
  <2>2. CASE "protected" \notin classes /\ "overlapping" \in classes
    BY <1>1, <2>2
  <2>3. CASE "protected" \notin classes /\ "overlapping" \notin classes
    BY <1>1, <2>3
  <2> QED BY <2>1, <2>2, <2>3
<1> QED BY <1>2 DEF IGHighest

\* The risk report keeps the invariant: it calls no pair that overlaps disjoint.
LEMMA IGAnalyzeKeeps ==
  ASSUME IGInv, IGAnalyze
  PROVE  IGInv'
<1> DEFINE classes == {"disjoint"} \cup {IGClassifyPair(p) : p \in IGPairs \cap SUBSET ToSet(IGSnapshot)}
<1>1. /\ igAt = "queueing" /\ igMerged # <<>> /\ igMerged' = <<>> /\ igAt' = "idle"
      /\ igReport' = [order |-> IGSnapshot, class |-> IGHighest(classes)]
      /\ UNCHANGED <<igWorld, igRequest, igState, igTextual, igTarget, igRan, igClass, igSpaces, igRefs, igBad, igFaults>>
  BY DEF IGAnalyze
<1>2. classes \in SUBSET {"disjoint", "overlapping", "protected"} /\ "disjoint" \in classes
  BY DEF IGClassifyPair
<1>3. \A p \in IGPairs : p \subseteq ToSet(IGSnapshot) /\ IGOverlap(p) # {} => \E q \in classes : q \in {"overlapping", "protected"}
  <2> SUFFICES ASSUME NEW p \in IGPairs, p \subseteq ToSet(IGSnapshot), IGOverlap(p) # {}
               PROVE  \E q \in classes : q \in {"overlapping", "protected"}
    OBVIOUS
  <2>1. IGClassifyPair(p) \in classes
    OBVIOUS
  <2>2. IGClassifyPair(p) \in {"overlapping", "protected"}
    BY DEF IGClassifyPair
  <2> QED BY <2>1, <2>2
<1> HIDE DEF classes
<1>4. \A q \in classes : IGRiskRank[q] <= IGRiskRank[IGHighest(classes)]
  BY <1>2, IGHighestIs
<1>5. (\E q \in classes : q \in {"overlapping", "protected"}) => IGHighest(classes) # "disjoint"
  BY <1>4 DEF IGRiskRank
<1>6. igReport'.order = IGSnapshot /\ igReport'.class = IGHighest(classes)
  BY <1>1
<1>7. \A p : IGOverlap(p)' = IGOverlap(p)
  BY <1>1 DEF IGOverlap
<1>8. IGReported'
  <2>1. \A p \in IGPairs : p \subseteq ToSet(igReport'.order) /\ IGOverlap(p)' # {} => igReport'.class # "disjoint"
    BY <1>3, <1>5, <1>6, <1>7
  <2> QED BY <2>1 DEF IGReported
<1>9. Len(IGOrder) > 0
  <2>1. Len(igMerged) \in Nat /\ Len(igMerged) # 0 /\ Len(igMerged) <= Len(IGOrder) /\ Len(IGOrder) \in Nat
    BY <1>1, IGAssumption DEF IGInv, IGLists, IGQueued
  <2> QED BY <2>1
<1>10. IGQueued'
  <2>1. <<>> \in Seq(IGCandidates) /\ Len(<<>>) = 0 /\ Len(IGOrder) \in Nat
    BY IGAssumption
  <2> QED BY <1>1, <1>9, <2>1 DEF IGQueued, IGMerging, IGRemerging
<1>11. IGLists'
  BY <1>1, <1>8, <1>10 DEF IGLists, IGDuring, IGMerging, IGRemerging
<1>12. IGTyped'
  BY <1>1, <1>7 DEF IGInv, IGTyped, IGBefore
<1>13. IGPhase' /\ IGCited' /\ IGClassified'
  BY <1>1 DEF IGInv, IGPhase, IGNothingLeft, IGCited, IGClassified, IGBefore, IGDuring, IGMerging, IGRemerging
<1>14. igState = "BRANCH_ACCEPTED"
  BY <1>1 DEF IGInv, IGPhase, IGBefore
<1>15. IGReadyIsProved' /\ IGConflictIsReal'
  BY <1>1, <1>14 DEF IGReadyIsProved, IGConflictIsReal
<1> QED BY <1>11, <1>12, <1>13, <1>15 DEF IGInv

\* The invariant holds at the start.
LEMMA IGStart == IGInit => IGInv
<1> SUFFICES ASSUME IGInit  PROVE IGInv
  OBVIOUS
<1>1. /\ igReport = [order |-> <<>>, class |-> "disjoint"] /\ igState = "BRANCH_ACCEPTED" /\ igAt = "queueing" /\ igMerged = <<>>
      /\ igTarget = IGNoTarget /\ igRan = <<>> /\ igSpaces = 0 /\ igRefs = {} /\ igBad = {} /\ igFaults = 0
  BY DEF IGInit
<1>2. /\ igWorld \in [paths : [IGCandidates -> SUBSET IGPaths], clashes : SUBSET IGPairs,
                      contained : {{}, {<<IGOrder[2], IGOrder[1]>>}}, moved : SUBSET IGCandidates]
      /\ \A p \in igWorld.clashes : \E x \in IGPaths : \A c \in p : x \in igWorld.paths[c]
  <2> DEFINE W == [paths : [IGCandidates -> (SUBSET IGPaths) \ {{}}], clashes : SUBSET IGPairs,
                   contained : {{}, {<<IGOrder[2], IGOrder[1]>>}}, moved : {{}}]
  <2>1. igWorld \in W /\ \A p \in igWorld.clashes : \E x \in IGPaths : \A c \in p : x \in igWorld.paths[c]
    BY DEF IGInit
  <2>2. igWorld.paths \in [IGCandidates -> SUBSET IGPaths] /\ igWorld.moved \in SUBSET IGCandidates
    BY <2>1
  <2> QED BY <2>1, <2>2
<1>3. \A p \in igWorld.clashes : IGOverlap(p) # {}
  BY <1>2 DEF IGOverlap
<1>4. /\ <<>> \in Seq(IGCandidates) /\ Len(<<>>) = 0 /\ Len(IGOrder) \in Nat /\ Len(IGCommands) \in Nat /\ IGMaxFaults \in Nat
      /\ <<>> \in Seq({"succeeded", "exited", "timed_out"})
  BY IGAssumption
<1>5. IGTyped
  BY <1>1, <1>2, <1>3, <1>4 DEF IGTyped, IGBefore, IGNoTarget
<1>6. IGQueued
  BY <1>1, <1>4 DEF IGQueued, IGMerging, IGRemerging
<1>7. IGLists
  BY <1>1, <1>6 DEF IGLists, IGDuring, IGMerging, IGRemerging
<1>8. IGPhase /\ IGCited /\ IGClassified /\ IGReadyIsProved /\ IGConflictIsReal
  BY <1>1 DEF IGPhase, IGNothingLeft, IGCited, IGClassified, IGReadyIsProved, IGConflictIsReal, IGBefore, IGDuring, IGMerging, IGRemerging
<1> QED BY <1>5, <1>7, <1>8 DEF IGInv

\* Every step keeps the invariant.
LEMMA IGStep == IGInv /\ [IGNext]_igVars => IGInv'
<1> SUFFICES ASSUME IGInv, [IGNext]_igVars  PROVE IGInv'
  OBVIOUS
<1>1. CASE UNCHANGED igVars
  <2>1. UNCHANGED <<igWorld, igRequest, igReport, igState, igAt, igMerged, igTextual, igTarget, igRan, igClass, igSpaces, igRefs, igBad, igFaults>>
    BY <1>1 DEF igVars
  <2>2. \A p \in igWorld'.clashes : IGOverlap(p)' # {}
    BY <2>1 DEF IGInv, IGTyped, IGOverlap
  <2>3. IGTyped' /\ IGQueued'
    BY <2>1, <2>2 DEF IGInv, IGTyped, IGLists, IGQueued
  <2>4. IGLists'
    BY <2>1, <2>3, IGFrames DEF IGInv, IGLists
  <2>5. IGPhase' /\ IGCited' /\ IGClassified' /\ IGReadyIsProved' /\ IGConflictIsReal'
    BY <2>1 DEF IGInv, IGPhase, IGNothingLeft, IGCited, IGClassified, IGTested, IGReadyIsProved, IGConflictIsReal
  <2> QED BY <2>3, <2>4, <2>5 DEF IGInv
<1>2. CASE \E c \in IGCandidates : IGEnqueue(c) \/ IGPush(c)
  BY <1>2, IGEnqueueKeeps, IGPushKeeps
<1>3. CASE IGAnalyze \/ IGMaterialize
  BY <1>3, IGAnalyzeKeeps, IGMaterializeKeeps
<1>4. CASE \E q \in IGRequests, ok \in IGOutcomes : IGRun(q, ok)
  BY <1>4, IGRunKeeps
<1>5. CASE \E ok \in IGOutcomes : IGInitialHeads(ok) \/ IGIntegrate(ok) \/ IGTargetReady(ok) \/ IGEvaluate(ok) \/ IGLeave(ok) \/ IGReady(ok)
  BY <1>5, IGInitialHeadsKeeps, IGIntegrateKeeps, IGTargetReadyKeeps, IGEvaluateKeeps, IGLeaveKeeps, IGReadyKeeps
<1>6. CASE \E at \in {"merge", "remerge"}, ok \in IGOutcomes : IGMerge(at, ok)
  BY <1>6, IGMergeKeeps
<1>7. CASE \E kept, ok \in BOOLEAN : IGCapture(kept, ok)
  BY <1>7, IGCaptureKeeps
<1>8. CASE \E outcome \in {"succeeded", "exited", "timed_out"}, edits \in BOOLEAN : IGAccept(outcome, edits)
  BY <1>8, IGAcceptKeeps
<1>9. CASE \E ref \in igRefs : IGDamage(ref)
  BY <1>9, IGDamageKeeps
<1> QED BY <1>1, <1>2, <1>3, <1>4, <1>5, <1>6, <1>7, <1>8, <1>9, Zenon DEF IGNext

\* What the gate offers for merge is the integration of every candidate of the
\* report, tested and reviewed as it is and with its evidence cited, its conflicts
\* are the candidates' own, and it leaves no workspace, whatever moves, is edited,
\* damaged or fails meanwhile (Gate.Run, finish, fallback).
THEOREM TheGateOffersWhatItTested == IGSpec => []IGSound
<1>1. IGInit => IGInv
  BY IGStart
<1>2. IGInv /\ [IGNext]_igVars => IGInv'
  BY IGStep
<1>3. IGInv => IGSound
  <2> SUFFICES ASSUME IGInv  PROVE IGSound
    OBVIOUS
  <2>1. igSpaces \in 0..2
    BY DEF IGInv, IGTyped, IGPhase, IGNothingLeft, IGDuring
  <2> QED BY <2>1 DEF IGInv, IGTyped, IGPhase, IGLists, IGQueued, IGSound, IGTypeOK
<1> QED BY <1>1, <1>2, <1>3, PTL DEF IGSpec
=============================================================================
