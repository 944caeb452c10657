----------------------------- MODULE CancelProofs -----------------------------
(***************************************************************************)
(* The cancel mailbox's safety, proved for any number of cancel and        *)
(* decision operations, every profile and any number of failures.          *)
(*                                                                         *)
(* None of the properties is inductive alone.  That a settled cancel is    *)
(* true of the ledger rests on requests being appended for claimed         *)
(* operations only, and on no transition leaving a terminal state; that on *)
(* what the runner decided and on the lease it holds while frozen; and     *)
(* that a retired owner is drained rests on the watermark being the        *)
(* journal's sequence when the owner closed.  CancelInv puts these         *)
(* together, one named part for each concern.  It assumes nothing of the   *)
(* generation, so that DecisionProofs reuses it for resumed runs.          *)
(***************************************************************************)
EXTENDS CancelMailbox, TLAPS

\* The newest mark exists: LatestTransition names a position of the ledger.
HasLatest(l) == Marks(l) # {} => \E i \in Marks(l) : \A j \in Marks(l) : j <= i

\* The journal statuses of an operation nobody has claimed, or will.
Unclaimed == {"NONE", "VALIDATING", "REFUSED", "RESERVED", "RECEIVED", "REJECTED"}

\* The numbers of the journal, the lease and the ledger stay in step.
Numbered ==
  /\ owner.gen = gen /\ owner.drain <= jseq
  /\ \A op \in Ops : seq[op] <= jseq /\ leaseOf[op] <= gen /\ admitted[op] <= Len(ledger)

\* What is decided is an edge the runner takes from where it believes to be.
IntentSane ==
  /\ intent.how = "blocker" <=> intent.to = "HUMAN_DECISION_REQUIRED"
  /\ intent.to = "BRANCH_ACCEPTED" => intent.how = "final"

\* The runner and its ledger: a run is created once, and the frozen lease
\* keeps the state the final transition was decided from.
RunnerSane ==
  /\ HasLatest(ledger)
  /\ at = "" /\ ~resumed => ledger = <<>>
  /\ pc \in {"commit", "frozen"} => IntentSane /\ at # ""
  /\ pc = "frozen" =>
       /\ CurrentState(ledger) = at /\ ValidateTransition(at, intent.to)
       /\ ctx \notin Cancels /\ intent.how = "final" /\ owner.state # "ACTIVE"

\* Nothing is admitted against a run that does not exist.
Begun == \A op \in Cancels : status[op] # "NONE" => ledger # <<>>

\* The drain: a watcher that is done left nothing under the watermark.
DrainSane ==
  /\ through => owner.state # "ACTIVE"
  /\ watcher = "done" => owner.state # "ACTIVE" /\ \A op \in Cancels : ~Undrained(op)
  /\ owner.state = "RETIRED" => watcher = "done"

\* A request is appended for a claimed operation, once, and a transition only
\* after the request it names.
RequestsSane ==
  /\ item # NoOp => RequestsOf(ledger, item) = {}
  /\ \A op \in Cancels :
       /\ status[op] \in Unclaimed => RequestsOf(ledger, op) = {}
       /\ TransitionsOf(ledger, op) # {} => RequestsOf(ledger, op) # {}
       /\ status[op] = "RECONCILED_NOT_APPLIED" => RequestsOf(ledger, op) = {} \/ CurrentState(ledger) \in Terminal

\* The inductive invariant.
CancelInv ==
  /\ CancelTypeOK /\ Numbered /\ RunnerSane /\ Begun /\ DrainSane /\ RequestsSane
  /\ CancelOutcomesAreTrue /\ DeliveredInsideWindow /\ CauseDecides


-----------------------------------------------------------------------------
(* Facts about the operators of RunLedger: what one appended event changes.*)

(* A ledger is indexed from 1, and its marks are positions of it.          *)
LEMMA LedgerFacts ==
  ASSUME NEW l \in Seq(Event)
  PROVE  /\ Len(l) \in Nat /\ DOMAIN l = 1..Len(l)
         /\ \A i \in 1..Len(l) : l[i] \in Event
         /\ \A i \in Marks(l) : i \in 1..Len(l) /\ i \in Nat /\ 0 < i /\ i <= Len(l)
<1>1. Len(l) \in Nat /\ DOMAIN l = 1..Len(l) /\ \A i \in 1..Len(l) : l[i] \in Event
  OBVIOUS
<1>2. Marks(l) \subseteq 1..Len(l)
  BY <1>1, Zenon DEF Marks
<1>3. QED
  BY <1>1, <1>2

(* An event appended to a ledger leaves every earlier position alone.      *)
LEMMA AppendFacts ==
  ASSUME NEW l \in Seq(Event), NEW e \in Event
  PROVE  /\ Append(l, e) \in Seq(Event)
         /\ Len(l) \in Nat /\ Len(Append(l, e)) = Len(l) + 1
         /\ DOMAIN l = 1..Len(l) /\ DOMAIN Append(l, e) = 1..(Len(l) + 1)
         /\ \A i \in DOMAIN l : Append(l, e)[i] = l[i] /\ l[i] \in Event
         /\ Append(l, e)[Len(l) + 1] = e
<1>1. Append(l, e) \in Seq(Event) /\ Len(l) \in Nat /\ Len(Append(l, e)) = Len(l) + 1
  OBVIOUS
<1>2. DOMAIN l = 1..Len(l) /\ DOMAIN Append(l, e) = 1..(Len(l) + 1)
  BY <1>1
<1>3. \A i \in 1..Len(l) : Append(l, e)[i] = l[i] /\ l[i] \in Event
  OBVIOUS
<1>4. Append(l, e)[Len(l) + 1] = e
  OBVIOUS
<1>5. QED
  BY <1>1, <1>2, <1>3, <1>4

(* The positions that set the state, after one more event.                 *)
LEMMA MarksOfAppend ==
  ASSUME NEW l \in Seq(Event), NEW e \in Event
  PROVE  Marks(Append(l, e)) = Marks(l) \cup (IF e.to # "" THEN {Len(l) + 1} ELSE {})
<1> DEFINE m == Append(l, e)
<1>1. /\ m \in Seq(Event) /\ Len(l) \in Nat
      /\ DOMAIN l = 1..Len(l) /\ DOMAIN m = 1..(Len(l) + 1)
      /\ \A i \in DOMAIN l : m[i] = l[i] /\ l[i] \in Event
      /\ m[Len(l) + 1] = e
  BY AppendFacts
<1> HIDE DEF m
<1>2. DOMAIN m = DOMAIN l \cup {Len(l) + 1} /\ Len(l) + 1 \notin DOMAIN l
  BY <1>1
<1>3. Marks(m) = Marks(l) \cup (IF e.to # "" THEN {Len(l) + 1} ELSE {})
  BY <1>1, <1>2, Zenon DEF Marks
<1>4. QED
  BY <1>3 DEF m

(* The requests, transitions and answers that name an operation or a       *)
(* blocker, after one more event.                                          *)
LEMMA KindsOfAppend ==
  ASSUME NEW l \in Seq(Event), NEW e \in Event, NEW x
  PROVE  /\ RequestsOf(Append(l, e), x) =
              RequestsOf(l, x) \cup (IF e.kind = "API_CANCEL_REQUESTED" /\ e.op = x THEN {Len(l) + 1} ELSE {})
         /\ TransitionsOf(Append(l, e), x) =
              TransitionsOf(l, x) \cup (IF e.kind = "STATE_TRANSITION" /\ e.op = x THEN {Len(l) + 1} ELSE {})
         /\ AnswersTo(Append(l, e), x) =
              AnswersTo(l, x) \cup (IF e.kind = "API_HUMAN_DECISION_RECORDED" /\ e.ref = x THEN {Len(l) + 1} ELSE {})
         /\ Blockers(Append(l, e)) =
              Blockers(l) \cup (IF e.kind = "BLOCKER_DECISION_RECORDED" THEN {Len(l) + 1} ELSE {})
<1> DEFINE m == Append(l, e)
<1>1. /\ m \in Seq(Event) /\ Len(l) \in Nat
      /\ DOMAIN l = 1..Len(l) /\ DOMAIN m = 1..(Len(l) + 1)
      /\ \A i \in DOMAIN l : m[i] = l[i] /\ l[i] \in Event
      /\ m[Len(l) + 1] = e
  BY AppendFacts
<1> HIDE DEF m
<1>2. DOMAIN m = DOMAIN l \cup {Len(l) + 1} /\ Len(l) + 1 \notin DOMAIN l
  BY <1>1
<1>3. RequestsOf(m, x) = RequestsOf(l, x) \cup (IF e.kind = "API_CANCEL_REQUESTED" /\ e.op = x THEN {Len(l) + 1} ELSE {})
  BY <1>1, <1>2, Zenon DEF RequestsOf
<1>4. TransitionsOf(m, x) = TransitionsOf(l, x) \cup (IF e.kind = "STATE_TRANSITION" /\ e.op = x THEN {Len(l) + 1} ELSE {})
  BY <1>1, <1>2, Zenon DEF TransitionsOf
<1>5. AnswersTo(m, x) = AnswersTo(l, x) \cup (IF e.kind = "API_HUMAN_DECISION_RECORDED" /\ e.ref = x THEN {Len(l) + 1} ELSE {})
  BY <1>1, <1>2, Zenon DEF AnswersTo
<1>6. Blockers(m) = Blockers(l) \cup (IF e.kind = "BLOCKER_DECISION_RECORDED" THEN {Len(l) + 1} ELSE {})
  BY <1>1, <1>2, Zenon DEF Blockers
<1>7. QED
  BY <1>3, <1>4, <1>5, <1>6 DEF m

(* LatestTransition is the newest mark of a ledger that has one.           *)
LEMMA LatestFacts ==
  ASSUME NEW l \in Seq(Event), HasLatest(l)
  PROVE  /\ LatestTransition(l) \in Nat /\ LatestTransition(l) <= Len(l)
         /\ \A j \in Marks(l) : j <= LatestTransition(l)
         /\ Marks(l) # {} => LatestTransition(l) \in Marks(l)
         /\ Marks(l) = {} => LatestTransition(l) = 0
<1>1. CASE Marks(l) = {}
  BY <1>1 DEF LatestTransition
<1>2. CASE Marks(l) # {}
  <2>1. PICK i \in Marks(l) : \A j \in Marks(l) : j <= i
    BY <1>2 DEF HasLatest
  <2>2. LatestTransition(l) \in Marks(l) /\ \A j \in Marks(l) : j <= LatestTransition(l)
    BY <1>2, <2>1, Zenon DEF LatestTransition
  <2>3. QED
    BY <1>2, <2>2, LedgerFacts
<1>3. QED
  BY <1>1, <1>2

(* A mark becomes the newest one, any other event leaves the newest alone. *)
LEMMA LatestOfAppend ==
  ASSUME NEW l \in Seq(Event), NEW e \in Event, HasLatest(l)
  PROVE  /\ HasLatest(Append(l, e))
         /\ LatestTransition(Append(l, e)) = IF e.to # "" THEN Len(l) + 1 ELSE LatestTransition(l)
         /\ CurrentState(Append(l, e)) = IF e.to # "" THEN e.to ELSE CurrentState(l)
<1> DEFINE m == Append(l, e)
<1>1. /\ m \in Seq(Event) /\ Len(l) \in Nat
      /\ DOMAIN l = 1..Len(l) /\ DOMAIN m = 1..(Len(l) + 1)
      /\ \A i \in DOMAIN l : m[i] = l[i] /\ l[i] \in Event
      /\ m[Len(l) + 1] = e
  BY AppendFacts
<1>2. Marks(m) = Marks(l) \cup (IF e.to # "" THEN {Len(l) + 1} ELSE {})
  BY MarksOfAppend
<1>3. \A i \in Marks(l) : i \in 1..Len(l) /\ i <= Len(l)
  BY LedgerFacts
<1> HIDE DEF m
<1>4. CASE e.to # ""
  <2> Marks(m) = Marks(l) \cup {Len(l) + 1}
    BY <1>2, <1>4
  <2>1. Len(l) + 1 \in Marks(m) /\ \A j \in Marks(m) : j \in Nat /\ j <= Len(l) + 1
    BY <1>1, <1>3
  <2>2. HasLatest(m)
    BY <2>1 DEF HasLatest
  <2>3. LatestTransition(m) \in Marks(m) /\ \A j \in Marks(m) : j <= LatestTransition(m)
    BY <2>1, <2>2, <1>1, LatestFacts
  <2>4. LatestTransition(m) = Len(l) + 1
    <3>1. LatestTransition(m) \in Nat /\ LatestTransition(m) <= Len(l) + 1 /\ Len(l) + 1 <= LatestTransition(m)
      BY <2>1, <2>3, Zenon
    <3>2. QED
      BY <3>1, <1>1
  <2>5. CurrentState(m) = e.to
    BY <2>1, <2>4, <1>1 DEF CurrentState
  <2>6. QED
    BY <1>4, <2>2, <2>4, <2>5 DEF m
<1>5. CASE e.to = ""
  <2>1. Marks(m) = Marks(l)
    BY <1>2, <1>5
  <2>2. HasLatest(m) /\ LatestTransition(m) = LatestTransition(l)
    BY <2>1 DEF HasLatest, LatestTransition
  <2>3. Marks(l) # {} => LatestTransition(l) \in DOMAIN l
    BY LatestFacts, <1>1, <1>3
  <2>4. CurrentState(m) = CurrentState(l)
    BY <2>1, <2>2, <2>3, <1>1 DEF CurrentState
  <2>5. QED
    BY <1>5, <2>2, <2>4 DEF m
<1>6. QED
  BY <1>4, <1>5

-----------------------------------------------------------------------------
(* Types.                                                                  *)

(* Every transition the runner decides on is an Intent, and sane.          *)
LEMMA IntentsSane ==
  ASSUME CancelTypeOK, NEW i \in Intents
  PROVE  /\ i \in Intent /\ i.to \in State
         /\ i.how = "blocker" <=> i.to = "HUMAN_DECISION_REQUIRED"
         /\ i.to = "BRANCH_ACCEPTED" => i.how = "final"
<1> DEFINE Sane(j) == /\ j \in Intent /\ j.to \in State
                      /\ j.how = "blocker" <=> j.to = "HUMAN_DECISION_REQUIRED"
                      /\ j.to = "BRANCH_ACCEPTED" => j.how = "final"
<1>1. \A to \in State \ {"HUMAN_DECISION_REQUIRED", "BRANCH_ACCEPTED"}, s \in Source : Sane(Step(to, s))
  BY DEF Step, Intent
<1>2. \A to \in State \ {"HUMAN_DECISION_REQUIRED"}, s \in Source : Sane(FinalStep(to, s))
  BY DEF FinalStep, Intent
<1>3. \A s \in Source : \A j \in StopFor(s) : Sane(j)
  BY <1>1 DEF StopFor, State
<1>4. PrepareSources \subseteq Source
  BY DEF PrepareSources, Source
<1>5. \A j \in PrepareIntents(PrepareSources) : Sane(j)
  BY <1>1, <1>4 DEF PrepareIntents, State, Source
<1>6. CASE at = "RUN_CREATED"
  BY <1>1, <1>3, <1>6 DEF Intents, State, Source
<1>7. CASE at = "HUMAN_DECISION_REQUIRED"
  BY <1>1, <1>7 DEF Intents, ResumeIntents, State, Source
<1>8. CASE at = "AUTHORITY_VALIDATED"
  BY <1>1, <1>5, <1>8 DEF Intents, AuthorityValidatedIntents, State, Source
<1>9. CASE at = "RETRYING"
  BY <1>5, <1>9 DEF Intents
<1>10. CASE at = "EXECUTION_STARTING"
  BY <1>1, <1>10 DEF Intents, State, Source
<1>11. CASE at = "IMPLEMENTING"
  <2>1. \A j \in ExactEditIntents : Sane(j)
    BY <1>1, <1>3 DEF ExactEditIntents, State, Source
  <2>2. Sane([to |-> "HUMAN_DECISION_REQUIRED", src |-> "ralphex-adapter", how |-> "blocker"])
    BY DEF Intent, State, Source
  <2>3. \A to \in {"FAILED", "CANCELLED", "RETRYING", "IMPLEMENTATION_COMPLETED"},
           s \in {"ralphex-adapter", "governance-controller"} : Sane(Step(to, s)) /\ Sane(FinalStep(to, s))
    BY <1>1, <1>2 DEF State, Source
  <2> HIDE DEF Sane
  <2>4. \A j \in ImplementingIntents : Sane(j)
    BY <2>1, <2>2, <2>3, Zenon DEF ImplementingIntents
  <2>5. QED
    BY <2>4, <1>11 DEF Intents, Sane
<1>12. CASE at = "IMPLEMENTATION_COMPLETED"
  BY <1>1, <1>3, <1>12 DEF Intents, State, Source
<1>13. CASE at = "BRANCH_ACCEPTANCE_PENDING"
  BY <1>1, <1>2, <1>13 DEF Intents, AcceptanceIntents, State, Source
<1>14. QED
  BY <1>6, <1>7, <1>8, <1>9, <1>10, <1>11, <1>12, <1>13 DEF Intents

(* Under the lease the runner appends an edge of the table from the state  *)
(* the ledger is in: the one it decided, or the typed cancellation.        *)
LEMMA SelectedFacts ==
  ASSUME CancelTypeOK, MaySelect, IntentSane
  PROVE  /\ SelectedEvent \in Event /\ SelectedTo \in State
         /\ SelectedEvent.to = SelectedTo /\ SelectedEvent.from = at
         /\ \/ /\ SelectedEvent.kind = "BLOCKER_DECISION_RECORDED" /\ SelectedEvent.op = NoOp
               /\ SelectedTo = "HUMAN_DECISION_REQUIRED" /\ intent.how = "blocker"
            \/ /\ SelectedEvent.kind = "STATE_TRANSITION" /\ SelectedEvent.op = NoOp
               /\ SelectedTo = intent.to /\ SelectedTo # "HUMAN_DECISION_REQUIRED" /\ ctx \notin Cancels
            \/ /\ SelectedEvent.kind = "STATE_TRANSITION" /\ SelectedEvent.op = ctx
               /\ SelectedTo = "CANCELLED" /\ ctx \in Cancels /\ RequestsOf(ledger, ctx) # {}
<1>1. SelectedTo \in State /\ at \in State /\ intent \in Intent
  BY DEF MaySelect, ValidateTransition, CancelTypeOK, RunTypeOK
<1>2. intent.src \in Source /\ NoOp \in Ops \cup {NoOp} /\ Cancels \subseteq Ops
  BY <1>1 DEF Intent, Ops
<1>3. CASE intent.how = "blocker"
  BY <1>1, <1>2, <1>3 DEF SelectedEvent, SelectedTo, BlockerEvent, Event, Kind, IntentSane
<1>4. CASE intent.how # "blocker" /\ ctx \notin Cancels
  BY <1>1, <1>2, <1>4 DEF SelectedEvent, SelectedTo, TransitionEvent, Event, Kind, IntentSane
<1>5. CASE intent.how # "blocker" /\ ctx \in Cancels
  <2>1. RequestsOf(ledger, ctx) # {}
    BY <1>5 DEF MaySelect
  <2> DEFINE r == CHOOSE i \in RequestsOf(ledger, ctx) : TRUE
  <2>2. r \in RequestsOf(ledger, ctx)
    BY <2>1
  <2>3. r \in Nat
    <3>1. DOMAIN ledger = 1..Len(ledger) /\ Len(ledger) \in Nat
      BY LedgerFacts DEF CancelTypeOK, RunTypeOK
    <3>2. r \in DOMAIN ledger
      BY <2>2, Zenon DEF RequestsOf
    <3>3. QED
      BY <3>1, <3>2
  <2>4. SelectedEvent = TransitionEvent(at, "CANCELLED", intent.src, ctx, r)
    BY <1>5 DEF SelectedEvent
  <2> HIDE DEF r
  <2>5. QED
    BY <1>1, <1>2, <1>5, <2>1, <2>3, <2>4 DEF SelectedTo, TransitionEvent, Event, Kind
<1>6. QED
  BY <1>3, <1>4, <1>5

(* While frozen, the runner appends the successful transition it decided.  *)
LEMMA FrozenFacts ==
  ASSUME CancelTypeOK, RunnerSane, pc = "frozen"
  PROVE  /\ TransitionEvent(at, intent.to, intent.src, NoOp, 0) \in Event
         /\ intent.to \in State /\ intent.to # "HUMAN_DECISION_REQUIRED"
         /\ CurrentState(ledger) = at /\ ValidateTransition(at, intent.to)
         /\ ctx \notin Cancels /\ owner.state # "ACTIVE"
<1>1. /\ CurrentState(ledger) = at /\ ValidateTransition(at, intent.to) /\ IntentSane
      /\ ctx \notin Cancels /\ owner.state # "ACTIVE" /\ intent.how = "final"
  BY DEF RunnerSane
<1>2. at \in State /\ intent.to \in State /\ intent \in Intent
  BY <1>1 DEF ValidateTransition, CancelTypeOK, RunTypeOK
<1>3. QED
  BY <1>1, <1>2 DEF Intent, TransitionEvent, Event, Kind, IntentSane

-----------------------------------------------------------------------------
(* What a step does to the ledger and to the journal.                      *)

\* The runner appends e, an edge of the table from the current state.
Selects(e) ==
  /\ e \in Event /\ ledger' = Append(ledger, e)
  /\ e.from = at /\ at = CurrentState(ledger) /\ ValidateTransition(CurrentState(ledger), e.to)
  /\ \/ e.kind = "BLOCKER_DECISION_RECORDED" /\ e.op = NoOp /\ e.to = "HUMAN_DECISION_REQUIRED"
     \/ /\ e.kind = "STATE_TRANSITION" /\ e.op = NoOp /\ e.to = intent.to /\ e.to # "HUMAN_DECISION_REQUIRED"
        /\ ctx \notin Cancels
     \/ /\ e.kind = "STATE_TRANSITION" /\ e.op = ctx /\ e.to = "CANCELLED"
        /\ ctx \in Cancels /\ RequestsOf(ledger, ctx) # {}
  /\ e.to = "BRANCH_ACCEPTED" => owner.state # "ACTIVE" /\ pc' = "returned"
  /\ pc \in {"commit", "frozen"} /\ pc' # "frozen" /\ UNCHANGED <<ctx, resumed, boxVars>>

\* The watcher appends the request of the operation it has claimed.
Requests ==
  /\ Delivering /\ Deliverable
  /\ ledger' = Append(ledger, CancelRequestEvent(item)) /\ item' = NoOp
  /\ ctx' \in {ctx, CauseAfter(item)}
  /\ UNCHANGED <<profile, proc, resumed, at, pc, intent, retried, gen, owner, journalVars, watcher, through>>

(* The ledger grows by the creation of the run, by a selected transition   *)
(* or by a request, and by nothing else.                                   *)
LEMMA LedgerSteps ==
  ASSUME CancelTypeOK, RunnerSane, CancelNext
  PROVE  \/ ledger' = ledger
         \/ Create /\ ledger = <<>> /\ UNCHANGED boxVars
         \/ \E e \in Event : Selects(e)
         \/ Requests
<1>1. CASE Create /\ UNCHANGED boxVars
  BY <1>1 DEF Create, RunnerSane
<1>2. CASE Commit /\ UNCHANGED boxVars
  <2>1. MaySelect /\ ~ClosesOwner /\ IntentSane /\ ledger' = Append(ledger, SelectedEvent) /\ UNCHANGED <<ctx, resumed>>
    BY <1>2 DEF Commit, MaySelect, RunnerSane
  <2>2. pc = "commit" /\ pc' # "frozen"
    BY <1>2 DEF Commit, MoveTo, MaySelect
  <2>3. SelectedTo = intent.to /\ ctx \notin Cancels => SelectedTo # "BRANCH_ACCEPTED"
    BY <2>1 DEF ClosesOwner, IntentSane
  <2>4. Selects(SelectedEvent)
    BY <1>2, <2>1, <2>2, <2>3, SelectedFacts DEF Selects, MaySelect
  <2>5. QED
    BY <2>4, SelectedFacts, <2>1
<1>3. CASE CommitFrozen /\ UNCHANGED boxVars
  <2>1. pc = "frozen" /\ ledger' = Append(ledger, TransitionEvent(at, intent.to, intent.src, NoOp, 0)) /\ UNCHANGED <<ctx, resumed>>
    BY <1>3 DEF CommitFrozen
  <2>2. pc' # "frozen" /\ (intent.to = "BRANCH_ACCEPTED" => pc' = "returned")
    BY <1>3 DEF CommitFrozen, MoveTo, Returns
  <2>3. Selects(TransitionEvent(at, intent.to, intent.src, NoOp, 0))
    BY <1>3, <2>1, <2>2, FrozenFacts DEF Selects, TransitionEvent
  <2>4. QED
    BY <2>3, <2>1, FrozenFacts
<1>4. ASSUME NEW d \in BOOLEAN, CommitFails(d), UNCHANGED boxVars
      PROVE  ledger' = ledger \/ \E e \in Event : Selects(e)
  <2>1. UNCHANGED <<ctx, resumed>> /\ pc' # "frozen" /\ pc \in {"commit", "frozen"} /\ IntentSane
    BY <1>4 DEF CommitFails, RunnerSane
  <2>2. CASE d /\ pc = "frozen"
    <3>1. ledger' = Append(ledger, TransitionEvent(at, intent.to, intent.src, NoOp, 0))
      BY <1>4, <2>2 DEF CommitFails
    <3>2. pc' = "returned"
      BY <1>4, <2>2 DEF CommitFails, RunnerSane
    <3>3. Selects(TransitionEvent(at, intent.to, intent.src, NoOp, 0))
      BY <1>4, <2>1, <2>2, <3>1, <3>2, FrozenFacts DEF Selects, TransitionEvent
    <3>4. QED
      BY <3>3, <2>2, FrozenFacts
  <2>3. CASE d /\ pc # "frozen"
    <3>1. MaySelect /\ ~ClosesOwner /\ ledger' = Append(ledger, SelectedEvent)
      BY <1>4, <2>3 DEF CommitFails
    <3>2. SelectedTo = intent.to /\ ctx \notin Cancels => SelectedTo # "BRANCH_ACCEPTED"
      BY <2>1, <3>1 DEF ClosesOwner, IntentSane
    <3>3. Selects(SelectedEvent)
      BY <1>4, <2>1, <3>1, <3>2, SelectedFacts DEF Selects, MaySelect
    <3>4. QED
      BY <3>3, <3>1, <2>1, SelectedFacts
  <2>4. CASE ~d
    BY <1>4, <2>4 DEF CommitFails
  <2>5. QED
    BY <2>2, <2>3, <2>4
<1>5. CASE (ReadPausedRun \/ (\E i \in Intents : Choose(i)) \/ CommitRefused \/ Signal \/ Crash \/ FreezeOwner)
  BY <1>5 DEF ReadPausedRun, Choose, CommitRefused, Signal, Crash, FreezeOwner, Freeze
<1>6. CASE \E op \in Cancels : ServiceStep(op)
  BY <1>6 DEF ServiceStep, Validate, Receive, Refuse, Replay, RejectOutsideWindow, ReconcileAbandoned, runVars
<1>7. CASE \E op \in Cancels : PickUp(op) \/ Observe(op) \/ Reconcile(op)
  BY <1>7 DEF PickUp, Observe, Reconcile, runVars
<1>8. CASE Claim \/ DeliverIneligible \/ ReadWatermark \/ Drained
  BY <1>8 DEF Claim, DeliverIneligible, ReadWatermark, Drained, runVars
<1>9. CASE Deliver
  BY <1>9 DEF Deliver, Requests
<1>10. ASSUME NEW d \in BOOLEAN, NEW m \in BOOLEAN, DeliverAmbiguous(d, m)
       PROVE  ledger' = ledger \/ Requests
  BY <1>10 DEF DeliverAmbiguous, Requests
<1>11. CASE MainStep \/ CloseTimesOut
  BY <1>11 DEF MainStep, BeginClose, Retire, CloseFails, CloseTimesOut, runVars
<1>12. QED
  BY <1>1, <1>2, <1>3, <1>4, <1>5, <1>6, <1>7, <1>8, <1>9, <1>10, <1>11
     DEF CancelNext, RunnerAlone, RunnerStep, WatcherStep

\* How the record of one operation may move in a step; the outcomes are what
\* the ledger, unchanged by that step, proves.
RecordMoves(op) ==
  \/ status'[op] = status[op]
  \/ status[op] = "NONE" /\ status'[op] = "VALIDATING" /\ ledger # <<>>
  \/ status[op] = "VALIDATING" /\ status'[op] \in {"RECEIVED", "RESERVED", "REFUSED"}
  \/ status[op] = "RESERVED" /\ status'[op] = "RECEIVED"
  \/ status[op] = "RECEIVED" /\ status'[op] \in {"REJECTED", "CLAIMED"}
  \/ status[op] = "CLAIMED" /\ status'[op] = "RECONCILIATION_REQUIRED"
  \/ status[op] = "CLAIMED" /\ status'[op] = "APPLIED" /\ CancelProof(op) = "applied"
  \/ status[op] = "RECONCILIATION_REQUIRED" /\ status'[op] = "RECONCILED_APPLIED" /\ CancelProof(op) = "applied"
  \/ status[op] = "RECONCILIATION_REQUIRED" /\ status'[op] = "RECONCILED_NOT_APPLIED" /\ CancelProof(op) = "not_applied"

\* Settled outcomes are recorded by steps that append nothing.
Settling(op) == status'[op] # status[op] /\ status'[op] \in SettledStatus => ledger' = ledger

(* The record of an operation moves along RecordMoves, that of a decision  *)
(* not at all.                                                             *)
LEMMA StatusSteps ==
  ASSUME CancelTypeOK, CancelNext
  PROVE  /\ \A op \in Cancels : RecordMoves(op) /\ Settling(op)
         /\ \A op \in Ops \ Cancels : status'[op] = status[op]
<1> USE DEF RecordMoves, Settling
<1>0. status \in [Ops -> Status] /\ Cancels \subseteq Ops /\ item \in Cancels \cup {NoOp}
  BY DEF CancelTypeOK, Ops
<1>1. CASE status' = status
  BY <1>1
<1>2. ASSUME NEW op \in Cancels, ServiceStep(op)
      PROVE  /\ \A o \in Cancels : RecordMoves(o) /\ Settling(o)
             /\ \A o \in Ops \ Cancels : status'[o] = status[o]
  <2>1. CASE Validate(op)
    BY <1>0, <2>1 DEF Validate, SettledStatus, AppliedStatus
  <2>2. CASE Receive(op, FALSE) \/ Receive(op, TRUE)
    BY <1>0, <2>2 DEF Receive, SettledStatus, AppliedStatus
  <2>3. CASE Refuse(op) \/ Replay(op) \/ RejectOutsideWindow(op)
    BY <1>0, <2>3 DEF Refuse, Replay, RejectOutsideWindow, SettledStatus, AppliedStatus, runVars
  <2>4. CASE ReconcileAbandoned(op)
    BY <1>0, <2>4 DEF ReconcileAbandoned, Verdict, SettledStatus, AppliedStatus, runVars
  <2>5. QED
    BY <1>2, <2>1, <2>2, <2>3, <2>4 DEF ServiceStep
<1>3. ASSUME NEW op \in Cancels, Observe(op)
      PROVE  /\ \A o \in Cancels : RecordMoves(o) /\ Settling(o)
             /\ \A o \in Ops \ Cancels : status'[o] = status[o]
  BY <1>0, <1>3 DEF Observe, SettledStatus, AppliedStatus, runVars
<1>4. ASSUME NEW op \in Cancels, Reconcile(op)
      PROVE  /\ \A o \in Cancels : RecordMoves(o) /\ Settling(o)
             /\ \A o \in Ops \ Cancels : status'[o] = status[o]
  BY <1>0, <1>4 DEF Reconcile, Verdict, SettledStatus, AppliedStatus, runVars
<1>5. CASE Claim
  BY <1>0, <1>5 DEF Claim, SettledStatus, AppliedStatus, runVars
<1>6. CASE DeliverIneligible
  BY <1>0, <1>6 DEF DeliverIneligible, Delivering, SettledStatus, AppliedStatus, runVars
<1>7. ASSUME NEW d \in BOOLEAN, NEW m \in BOOLEAN, DeliverAmbiguous(d, m)
      PROVE  /\ \A o \in Cancels : RecordMoves(o) /\ Settling(o)
             /\ \A o \in Ops \ Cancels : status'[o] = status[o]
  BY <1>0, <1>7 DEF DeliverAmbiguous, Delivering, SettledStatus, AppliedStatus
<1>8. CASE RunnerAlone \/ FreezeOwner \/ (\E op \in Cancels : PickUp(op)) \/ Deliver \/ ReadWatermark \/ Drained \/ MainStep \/ CloseTimesOut
  <2>1. status' = status
    BY <1>8 DEF RunnerAlone, FreezeOwner, PickUp, Deliver, ReadWatermark, Drained, MainStep, BeginClose, Retire,
                CloseFails, CloseTimesOut, boxVars
  <2>2. QED
    BY <1>1, <2>1
<1>9. QED
  BY <1>2, <1>3, <1>4, <1>5, <1>6, <1>7, <1>8 DEF CancelNext, WatcherStep

-----------------------------------------------------------------------------
(* Each part of the invariant is kept by every step.                       *)

\* The half of CancelTypeOK about the journal, the lease and the watcher.
BoxTypeOK ==
  /\ gen \in Nat /\ owner \in Owner /\ jseq \in Nat
  /\ status \in [Ops -> Status] /\ seq \in [Ops -> Nat]
  /\ leaseOf \in [Ops -> Nat] /\ admitted \in [Ops -> Nat]
  /\ watcher \in {"watching", "done", "failed"} /\ item \in Cancels \cup {NoOp}
  /\ delivered \subseteq Cancels /\ through \in BOOLEAN

(* The two API events and the creation are events.                         *)
LEMMA EventFacts ==
  /\ CreatedEvent \in Event
  /\ \A op \in Cancels : CancelRequestEvent(op) \in Event
<1>1. CreatedEvent \in Event
  BY DEF CreatedEvent, Event, Kind, State, Source
<1>2. ASSUME NEW op \in Cancels PROVE CancelRequestEvent(op) \in Event
  <2>1. op \in Ops
    BY DEF Ops
  <2>2. QED
    BY <2>1 DEF CancelRequestEvent, Event, Kind, Source
<1>3. QED
  BY <1>1, <1>2

(* The runner's variables stay in their types, whichever process moves.    *)
LEMMA RunTypeKeeps ==
  ASSUME CancelTypeOK, RunnerSane, CancelNext
  PROVE  RunTypeOK'
<1>0. RunTypeOK /\ MaxFaults \in Nat /\ item \in Cancels \cup {NoOp}
  BY ProfileAssumption DEF CancelTypeOK
<1>1. ledger' \in Seq(Event)
  <2>1. CASE Create
    BY <1>0, <2>1, AppendFacts, EventFacts DEF Create, RunTypeOK
  <2>2. ASSUME NEW e \in Event, Selects(e) PROVE ledger' \in Seq(Event)
    BY <1>0, <2>2, AppendFacts DEF Selects, RunTypeOK
  <2>3. CASE Requests
    BY <1>0, <2>3, AppendFacts, EventFacts DEF Requests, Delivering, RunTypeOK
  <2>4. QED
    BY <1>0, <2>1, <2>2, <2>3, LedgerSteps DEF RunTypeOK
<1>2. NoIntent \in Intent /\ Step("FAILED", "ralphex-adapter") \in Intent
  BY DEF NoIntent, Step, Intent, State, Source
<1> DEFINE MayFail == faults' = faults \/ (faults < MaxFaults /\ faults' = faults + 1)
<1>e. faults \in 0..MaxFaults
  BY <1>0 DEF RunTypeOK
<1>f. MayFail => faults' \in 0..MaxFaults
  BY <1>0, <1>e
<1>3. CASE Create \/ ReadPausedRun
  BY <1>0, <1>1, <1>3 DEF Create, ReadPausedRun, RunTypeOK, State
<1>4. CASE Signal
  BY <1>0, <1>4 DEF Signal, RunTypeOK
<1>5. ASSUME NEW i \in Intents, Choose(i) PROVE RunTypeOK'
  BY <1>0, <1>5, IntentsSane DEF Choose, RunTypeOK
<1>6. ASSUME NEW to \in State, MoveTo(to)
      PROVE  at' \in State /\ pc' \in {"choose", "returned"} /\ intent' \in Intent /\ retried' \in BOOLEAN
  BY <1>2, <1>6 DEF MoveTo
<1>7. CASE Commit
  <2>1. SelectedTo \in State /\ MoveTo(SelectedTo)
    BY <1>7, SelectedFacts DEF Commit, MaySelect, RunnerSane
  <2>2. QED
    BY <1>0, <1>1, <1>6, <1>7, <2>1 DEF Commit, RunTypeOK
<1>8. CASE CommitFrozen
  <2>1. intent.to \in State /\ MoveTo(intent.to)
    BY <1>8, FrozenFacts DEF CommitFrozen
  <2>2. QED
    BY <1>0, <1>1, <1>6, <1>8, <2>1 DEF CommitFrozen, RunTypeOK
<1>9. CASE CommitRefused
  BY <1>0, <1>1, <1>2, <1>9 DEF CommitRefused, RunTypeOK
<1>10. ASSUME NEW d \in BOOLEAN, CommitFails(d) PROVE RunTypeOK'
  <2>1. intent' \in Intent /\ pc' \in {"commit", "returned"}
    BY <1>2, <1>10 DEF CommitFails
  <2>2. MayFail /\ UNCHANGED <<profile, proc, resumed, at, retried, ctx>>
    BY <1>10 DEF CommitFails
  <2>3. QED
    BY <1>0, <1>1, <1>f, <2>1, <2>2 DEF RunTypeOK
<1>11. CASE FreezeOwner
  BY <1>0, <1>11 DEF FreezeOwner, Freeze, RunTypeOK
<1>12. ASSUME NEW op \in Cancels, ServiceStep(op) PROVE RunTypeOK'
  <2>1. MayFail /\ UNCHANGED <<ledger, profile, proc, resumed, at, pc, intent, retried, ctx>>
    BY <1>12 DEF ServiceStep, Validate, Receive, Refuse, Replay, RejectOutsideWindow, ReconcileAbandoned, runVars
  <2>2. QED
    BY <1>0, <1>f, <2>1 DEF RunTypeOK
<1>13. CASE (\E op \in Cancels : PickUp(op) \/ Observe(op) \/ Reconcile(op)) \/ Claim \/ DeliverIneligible \/ ReadWatermark
             \/ Drained \/ BeginClose
  <2>1. UNCHANGED runVars
    BY <1>13 DEF PickUp, Observe, Reconcile, Claim, DeliverIneligible, ReadWatermark, Drained, BeginClose
  <2>2. QED
    BY <1>0, <2>1 DEF RunTypeOK, runVars
<1>14. CASE Deliver
  <2>1. ctx' \in Cancels \cup {ctx} /\ UNCHANGED <<profile, proc, resumed, at, pc, intent, retried, faults>>
    BY <1>0, <1>14 DEF Deliver, Delivering, CauseAfter
  <2>2. QED
    BY <1>0, <1>1, <2>1 DEF RunTypeOK
<1>15. ASSUME NEW d \in BOOLEAN, NEW m \in BOOLEAN, DeliverAmbiguous(d, m) PROVE RunTypeOK'
  <2>1. MayFail /\ UNCHANGED <<profile, proc, resumed, at, pc, intent, retried, ctx>>
    BY <1>15 DEF DeliverAmbiguous
  <2>2. QED
    BY <1>0, <1>1, <1>f, <2>1 DEF RunTypeOK
<1>16. CASE Crash \/ Retire \/ CloseFails \/ CloseTimesOut
  <2>1. MayFail /\ proc' \in {"crashed", "exited"} /\ UNCHANGED <<ledger, profile, resumed, at, pc, intent, retried, ctx>>
    BY <1>16 DEF Crash, Retire, CloseFails, CloseTimesOut
  <2>2. QED
    BY <1>0, <1>f, <2>1 DEF RunTypeOK
<1>17. QED
  BY <1>3, <1>4, <1>5, <1>7, <1>8, <1>9, <1>10, <1>11, <1>12, <1>13, <1>14, <1>15, <1>16
     DEF CancelNext, RunnerAlone, RunnerStep, WatcherStep, MainStep

(* So do the records of the journal, the lease and the watcher.            *)
LEMMA BoxTypeKeeps ==
  ASSUME CancelTypeOK, RunnerSane, CancelNext
  PROVE  BoxTypeOK'
<1>0. BoxTypeOK /\ Cancels \subseteq Ops
  BY DEF CancelTypeOK, BoxTypeOK, Ops
<1>1. CASE UNCHANGED boxVars
  BY <1>0, <1>1 DEF BoxTypeOK, boxVars
<1>2. owner.gen \in Nat /\ [owner EXCEPT !.state = "CLOSING", !.drain = jseq] \in Owner /\ [owner EXCEPT !.state = "RETIRED"] \in Owner
  BY <1>0 DEF BoxTypeOK, Owner
<1>3. CASE FreezeOwner \/ BeginClose \/ Retire
  BY <1>0, <1>2, <1>3 DEF FreezeOwner, CloseOwner, BeginClose, Retire, BoxTypeOK, journalVars, watcherVars
<1>4. ASSUME NEW op \in Cancels, ServiceStep(op) PROVE BoxTypeOK'
  <2>1. CASE Validate(op)
    <3>1. LatestTransition(ledger) \in Nat
      BY LatestFacts DEF CancelTypeOK, RunTypeOK, RunnerSane
    <3>2. QED
      BY <1>0, <2>1, <3>1 DEF Validate, Status, BoxTypeOK, watcherVars
  <2>2. CASE Receive(op, FALSE) \/ Receive(op, TRUE)
    BY <1>0, <1>2, <2>2 DEF Receive, Status, BoxTypeOK, watcherVars
  <2>3. CASE Refuse(op) \/ Replay(op) \/ RejectOutsideWindow(op) \/ ReconcileAbandoned(op)
    BY <1>0, <2>3 DEF Refuse, Replay, RejectOutsideWindow, ReconcileAbandoned, Verdict, Status, BoxTypeOK, journalVars, watcherVars
  <2>4. QED
    BY <1>4, <2>1, <2>2, <2>3 DEF ServiceStep
<1>5. ASSUME NEW op \in Cancels, PickUp(op) \/ Observe(op) \/ Reconcile(op) PROVE BoxTypeOK'
  <2>1. CASE PickUp(op)
    BY <1>0, <2>1 DEF PickUp, BoxTypeOK, journalVars
  <2>2. CASE Observe(op)
    BY <1>0, <2>2 DEF Observe, Status, BoxTypeOK, journalVars
  <2>3. CASE Reconcile(op)
    BY <1>0, <2>3 DEF Reconcile, Verdict, Status, BoxTypeOK, journalVars
  <2>4. QED
    BY <1>5, <2>1, <2>2, <2>3
<1>6. CASE Claim
  BY <1>0, <1>6 DEF Claim, Status, BoxTypeOK, journalVars
<1>7. CASE DeliverIneligible \/ ReadWatermark \/ Drained
  BY <1>0, <1>7 DEF DeliverIneligible, ReadWatermark, Drained, Status, BoxTypeOK, journalVars
<1>8. CASE Deliver
  BY <1>0, <1>8 DEF Deliver, Delivering, BoxTypeOK, journalVars
<1>9. ASSUME NEW d \in BOOLEAN, NEW m \in BOOLEAN, DeliverAmbiguous(d, m) PROVE BoxTypeOK'
  BY <1>0, <1>9 DEF DeliverAmbiguous, Delivering, Status, BoxTypeOK, journalVars
<1>10. CASE RunnerAlone \/ CloseFails \/ CloseTimesOut
  BY <1>1, <1>10 DEF RunnerAlone, CloseFails, CloseTimesOut
<1>11. QED
  BY <1>3, <1>4, <1>5, <1>6, <1>7, <1>8, <1>9, <1>10 DEF CancelNext, WatcherStep, MainStep

(* Together: every value stays in its type.                                *)
LEMMA TypeKeeps ==
  ASSUME CancelTypeOK, RunnerSane, CancelNext
  PROVE  CancelTypeOK'
<1>1. RunTypeOK' /\ BoxTypeOK'
  BY RunTypeKeeps, BoxTypeKeeps
<1>2. QED
  BY <1>1 DEF CancelTypeOK, BoxTypeOK

(* One append at most, and positions of the ledger stay what they are.     *)
LEMMA LedgerGrows ==
  ASSUME CancelTypeOK, RunnerSane, CancelNext
  PROVE  \/ ledger' = ledger
         \/ \E e \in Event : ledger' = Append(ledger, e)
<1>1. item \in Cancels \cup {NoOp}
  BY DEF CancelTypeOK
<1>2. CASE Create
  BY <1>2, EventFacts DEF Create
<1>3. CASE Requests
  BY <1>1, <1>3, EventFacts DEF Requests, Delivering
<1>4. QED
  BY <1>2, <1>3, LedgerSteps DEF Selects

(* An operation is admitted only against a run that exists.                *)
LEMMA BegunKeeps ==
  ASSUME CancelTypeOK, RunnerSane, Begun, CancelNext
  PROVE  Begun'
<1>1. ledger # <<>> => ledger' # <<>>
  <2>1. ledger \in Seq(Event)
    BY DEF CancelTypeOK, RunTypeOK
  <2>2. ASSUME NEW e \in Event, ledger' = Append(ledger, e) PROVE ledger' # <<>>
    <3>1. Len(Append(ledger, e)) = Len(ledger) + 1 /\ Len(ledger) \in Nat
      BY <2>1, AppendFacts
    <3>2. QED
      BY <2>2, <3>1
  <2>3. QED
    BY <2>2, LedgerGrows
<1>2. \A op \in Cancels : RecordMoves(op)
  BY StatusSteps
<1>3. QED
  BY <1>1, <1>2 DEF Begun, RecordMoves

(* Receipts get fresh sequence numbers, and the watermark is one of them.  *)
LEMMA NumberedKeeps ==
  ASSUME CancelTypeOK, RunnerSane, Numbered, CancelNext
  PROVE  Numbered'
<1>0. /\ gen \in Nat /\ jseq \in Nat /\ owner.gen \in Nat /\ owner.drain \in Nat /\ owner \in Owner
      /\ seq \in [Ops -> Nat] /\ leaseOf \in [Ops -> Nat] /\ admitted \in [Ops -> Nat]
      /\ ledger \in Seq(Event) /\ Len(ledger) \in Nat /\ Cancels \subseteq Ops
  <2>1. ledger \in Seq(Event) /\ Len(ledger) \in Nat /\ Cancels \subseteq Ops
    BY LedgerFacts DEF CancelTypeOK, RunTypeOK, Ops
  <2>2. owner \in Owner
    BY DEF CancelTypeOK
  <2>3. owner.gen \in Nat /\ owner.drain \in Nat
    BY <2>2 DEF Owner
  <2>4. QED
    BY <2>1, <2>2, <2>3 DEF CancelTypeOK
<1>1. Len(ledger) <= Len(ledger') /\ Len(ledger') \in Nat
  <2>1. ASSUME NEW e \in Event, ledger' = Append(ledger, e) PROVE Len(ledger) <= Len(ledger') /\ Len(ledger') \in Nat
    <3>1. Len(Append(ledger, e)) = Len(ledger) + 1
      BY <1>0, AppendFacts
    <3>2. QED
      BY <1>0, <2>1, <3>1
  <2>2. QED
    BY <1>0, <2>1, LedgerGrows
<1>2. CASE UNCHANGED <<gen, owner, journalVars>>
  BY <1>0, <1>1, <1>2 DEF Numbered, journalVars
<1>3. CASE FreezeOwner \/ BeginClose \/ Retire
  <2>1. UNCHANGED <<gen, journalVars>> /\ owner'.gen = owner.gen /\ owner'.drain \in {owner.drain, jseq}
    BY <1>0, <1>3 DEF FreezeOwner, BeginClose, Retire, CloseOwner, Owner
  <2>2. QED
    BY <1>0, <1>1, <2>1 DEF Numbered, journalVars
<1>4. ASSUME NEW op \in Cancels, Validate(op) PROVE Numbered'
  <2>1. LatestTransition(ledger) <= Len(ledger) /\ ledger' = ledger /\ LatestTransition(ledger) \in Nat
    BY <1>0, <1>4, LatestFacts DEF RunnerSane, Validate, runVars
  <2>2. QED
    BY <1>0, <1>4, <2>1 DEF Validate, Numbered
<1>5. ASSUME NEW op \in Cancels, Receive(op, FALSE) \/ Receive(op, TRUE) PROVE Numbered'
  <2>1. /\ UNCHANGED <<ledger, gen, owner, admitted>> /\ leaseOf' = [leaseOf EXCEPT ![op] = owner.gen]
        /\ UNCHANGED <<jseq, seq>> \/ (jseq' = jseq + 1 /\ seq' = [seq EXCEPT ![op] = jseq + 1])
    BY <1>5 DEF Receive
  <2>2. QED
    BY <1>0, <2>1 DEF Numbered
<1>6. ASSUME NEW op \in Cancels, Replay(op) PROVE Numbered'
  BY <1>0, <1>6 DEF Replay, Numbered, runVars
<1>7. ASSUME NEW op \in Cancels, Refuse(op) \/ RejectOutsideWindow(op) \/ ReconcileAbandoned(op) PROVE Numbered'
  BY <1>2, <1>7 DEF Refuse, RejectOutsideWindow, ReconcileAbandoned
<1>8. CASE RunnerAlone \/ WatcherStep \/ (\E d, m \in BOOLEAN : DeliverAmbiguous(d, m)) \/ CloseFails \/ CloseTimesOut
  <2>1. UNCHANGED <<gen, owner, journalVars>>
    BY <1>8 DEF RunnerAlone, WatcherStep, PickUp, Observe, Reconcile, Claim, Deliver, DeliverIneligible, ReadWatermark, Drained,
                DeliverAmbiguous, CloseFails, CloseTimesOut, boxVars, journalVars
  <2>2. QED
    BY <1>2, <2>1
<1>9. QED
  BY <1>3, <1>4, <1>5, <1>6, <1>7, <1>8 DEF CancelNext, ServiceStep, MainStep

(* A run is created once, and nothing moves under a frozen lease.          *)
LEMMA RunnerKeeps ==
  ASSUME CancelTypeOK, RunnerSane, Begun, CancelNext
  PROVE  RunnerSane'
<1>0. ledger \in Seq(Event) /\ HasLatest(ledger) /\ at \in State \cup {""} /\ item \in Cancels \cup {NoOp}
      /\ ctx \in Cancels \cup {Live, Signalled} /\ "" \notin State
  BY DEF CancelTypeOK, RunTypeOK, RunnerSane, State
<1>1. HasLatest(ledger')
  <2>1. ASSUME NEW e \in Event, ledger' = Append(ledger, e) PROVE HasLatest(ledger')
    BY <1>0, <2>1, LatestOfAppend
  <2>2. QED
    BY <1>0, <2>1, LedgerGrows
<1>2. CASE UNCHANGED <<runVars>> /\ owner' = owner
  BY <1>0, <1>2 DEF RunnerSane, runVars, IntentSane
<1>3. CASE RunnerAlone
  <2>1. owner' = owner
    BY <1>3 DEF RunnerAlone, boxVars
  <2>2. CASE Create \/ ReadPausedRun
    BY <1>1, <2>2 DEF RunnerSane, Create, ReadPausedRun
  <2>3. ASSUME NEW i \in Intents, Choose(i) PROVE RunnerSane'
    <3>1. IntentSane'
      BY <2>3, IntentsSane DEF Choose, IntentSane
    <3>2. at # ""
      BY <2>3 DEF Intents
    <3>3. QED
      BY <1>1, <2>3, <3>1, <3>2 DEF RunnerSane, Choose
  <2>4. CASE Commit
    <3>1. at' \in State /\ pc' \in {"choose", "returned"}
      BY <2>4, SelectedFacts DEF Commit, MoveTo, MaySelect, RunnerSane
    <3>2. QED
      BY <1>0, <1>1, <3>1 DEF RunnerSane
  <2>5. CASE CommitFrozen
    <3>1. at' \in State /\ pc' \in {"choose", "returned"}
      BY <2>5, FrozenFacts DEF CommitFrozen, MoveTo
    <3>2. QED
      BY <1>0, <1>1, <3>1 DEF RunnerSane
  <2>6. CASE CommitRefused
    <3>1. at' = at /\ at # "" /\ pc' # "frozen" /\ (pc' = "commit" => intent' = Step("FAILED", "ralphex-adapter"))
      BY <2>6 DEF CommitRefused, RunnerSane
    <3>2. intent' = Step("FAILED", "ralphex-adapter") => IntentSane'
      BY DEF Step, IntentSane
    <3>3. QED
      BY <1>0, <1>1, <3>1, <3>2 DEF RunnerSane
  <2>7. ASSUME NEW d \in BOOLEAN, CommitFails(d) PROVE RunnerSane'
    <3>1. at' = at /\ at # "" /\ pc' # "frozen" /\ (pc' = "commit" => intent' = Step("FAILED", "ralphex-adapter"))
      BY <2>7 DEF CommitFails, RunnerSane
    <3>2. intent' = Step("FAILED", "ralphex-adapter") => IntentSane'
      BY DEF Step, IntentSane
    <3>3. QED
      BY <1>0, <1>1, <3>1, <3>2 DEF RunnerSane
  <2>8. CASE Signal
    <3>1. Signalled \notin Cancels
      BY OpsAssumption DEF Ops
    <3>2. QED
      BY <1>0, <1>1, <2>1, <2>8, <3>1 DEF RunnerSane, Signal, IntentSane
  <2>9. CASE Crash
    BY <1>0, <1>1, <2>1, <2>9 DEF RunnerSane, Crash, IntentSane
  <2>10. QED
    BY <1>3, <2>2, <2>3, <2>4, <2>5, <2>6, <2>7, <2>8, <2>9 DEF RunnerAlone, RunnerStep
<1>4. CASE FreezeOwner
  <2>1. /\ pc = "commit" /\ pc' = "frozen" /\ CurrentState(ledger) = at /\ ctx \notin Cancels /\ intent.how = "final"
        /\ ValidateTransition(at, intent.to) /\ UNCHANGED <<ledger, at, resumed, intent, ctx>>
    BY <1>4 DEF FreezeOwner, Freeze, MaySelect, ClosesOwner, SelectedTo
  <2>2. owner \in Owner /\ CloseOwner
    BY <1>4 DEF FreezeOwner, CancelTypeOK
  <2>3. owner'.state # "ACTIVE"
    BY <2>2 DEF CloseOwner, Owner
  <2>4. IntentSane' /\ at # ""
    BY <2>1 DEF RunnerSane, IntentSane
  <2>5. QED
    BY <1>1, <2>1, <2>3, <2>4 DEF RunnerSane
<1>5. CASE BeginClose \/ Retire
  <2>1. owner \in Owner
    BY DEF CancelTypeOK
  <2>2. pc = "returned" /\ UNCHANGED <<ledger, at, resumed, pc>>
    BY <1>5 DEF BeginClose, Retire, runVars
  <2>3. QED
    BY <1>1, <2>2 DEF RunnerSane
<1>6. CASE Deliver \/ (\E d, m \in BOOLEAN : DeliverAmbiguous(d, m))
  <2>1. pc # "frozen" /\ UNCHANGED <<at, resumed, pc, intent>> /\ item \in Cancels /\ status[item] = "CLAIMED"
    BY <1>0, <1>6 DEF Deliver, DeliverAmbiguous, Delivering
  <2>2. ~(at = "" /\ ~resumed)
    BY <2>1 DEF RunnerSane, Begun
  <2>3. QED
    BY <1>0, <1>1, <2>1, <2>2 DEF RunnerSane, IntentSane
<1>7. CASE (\E op \in Cancels : ServiceStep(op)) \/ CloseFails \/ CloseTimesOut
  <2>1. UNCHANGED <<ledger, resumed, at, pc, intent, ctx, owner>>
    BY <1>7 DEF ServiceStep, Validate, Receive, Refuse, Replay, RejectOutsideWindow, ReconcileAbandoned,
                CloseFails, CloseTimesOut, runVars, boxVars
  <2>2. QED
    BY <2>1 DEF RunnerSane, IntentSane
<1>8. CASE (\E op \in Cancels : PickUp(op) \/ Observe(op) \/ Reconcile(op)) \/ Claim \/ DeliverIneligible \/ ReadWatermark
             \/ Drained
  <2>1. UNCHANGED runVars /\ owner' = owner
    BY <1>8 DEF PickUp, Observe, Reconcile, Claim, DeliverIneligible, ReadWatermark, Drained
  <2>2. QED
    BY <1>2, <2>1
<1>9. QED
  BY <1>3, <1>4, <1>5, <1>6, <1>7, <1>8 DEF CancelNext, WatcherStep, MainStep

(* The watermark bounds what the watcher has to drain: nothing comes in    *)
(* below it once the owner is closing.                                     *)
LEMMA DrainKeeps ==
  ASSUME CancelTypeOK, Numbered, DrainSane, CancelNext
  PROVE  DrainSane'
<1>0. /\ gen \in Nat /\ jseq \in Nat /\ owner \in Owner /\ owner.drain \in Nat /\ owner.drain <= jseq
      /\ status \in [Ops -> Status] /\ seq \in [Ops -> Nat] /\ leaseOf \in [Ops -> Nat] /\ Cancels \subseteq Ops
      /\ item \in Cancels \cup {NoOp} /\ through \in BOOLEAN
  <2>1. owner \in Owner
    BY DEF CancelTypeOK
  <2>2. owner.drain \in Nat
    BY <2>1 DEF Owner
  <2>3. QED
    BY <2>1, <2>2 DEF CancelTypeOK, Numbered, Ops
<1>1. CASE UNCHANGED <<gen, owner, seq, leaseOf, status, watcher, through>>
  BY <1>1 DEF DrainSane, Undrained
<1>2. CASE FreezeOwner \/ BeginClose
  <2>1. /\ UNCHANGED <<gen, seq, leaseOf, status, watcher, through>>
        /\ owner' = IF owner.state = "ACTIVE" THEN [owner EXCEPT !.state = "CLOSING", !.drain = jseq] ELSE owner
    BY <1>2 DEF FreezeOwner, BeginClose, CloseOwner, journalVars, watcherVars
  <2>2. CASE owner.state = "ACTIVE"
    <3>1. owner'.state = "CLOSING"
      BY <1>0, <2>1, <2>2 DEF Owner
    <3>2. QED
      BY <2>1, <2>2, <3>1 DEF DrainSane
  <2>3. CASE owner.state # "ACTIVE"
    BY <1>1, <2>1, <2>3
  <2>4. QED
    BY <2>2, <2>3
<1>3. CASE Retire
  <2>1. UNCHANGED <<gen, seq, leaseOf, status, watcher, through>> /\ watcher = "done"
    BY <1>3 DEF Retire, journalVars, watcherVars
  <2>2. owner'.state = "RETIRED" /\ owner'.drain = owner.drain
    BY <1>0, <1>3 DEF Retire, Owner
  <2>3. QED
    BY <2>1, <2>2 DEF DrainSane, Undrained
<1>4. ASSUME NEW op \in Cancels, Validate(op) \/ Refuse(op) \/ RejectOutsideWindow(op) \/ ReconcileAbandoned(op)
      PROVE  DrainSane'
  <2>1. /\ UNCHANGED <<gen, owner, seq, leaseOf, watcher, through>>
        /\ \E s \in Status \ {"RECEIVED", "CLAIMED"} : status' = [status EXCEPT ![op] = s]
    BY <1>4 DEF Validate, Refuse, RejectOutsideWindow, ReconcileAbandoned, Verdict, Status, journalVars, watcherVars
  <2>2. QED
    BY <1>0, <2>1 DEF DrainSane, Undrained
<1>5. ASSUME NEW op \in Cancels, Receive(op, FALSE) \/ Receive(op, TRUE) PROVE DrainSane'
  <2>1. owner.state = "ACTIVE" /\ UNCHANGED <<owner, watcher, through>>
    BY <1>5 DEF Receive, watcherVars
  <2>2. QED
    BY <2>1 DEF DrainSane
<1>6. ASSUME NEW op \in Cancels, Replay(op) PROVE DrainSane'
  <2>1. /\ seq' = [seq EXCEPT ![op] = jseq + 1] /\ status' = [status EXCEPT ![op] = "RECEIVED"]
        /\ UNCHANGED <<gen, owner, leaseOf, watcher, through>>
    BY <1>6 DEF Replay, watcherVars
  <2>2. ~Undrained(op)'
    BY <1>0, <2>1 DEF Undrained
  <2>3. \A o \in Cancels \ {op} : Undrained(o)' => Undrained(o)
    BY <1>0, <2>1 DEF Undrained
  <2>4. QED
    BY <2>1, <2>2, <2>3 DEF DrainSane
<1>7. CASE (\E op \in Cancels : PickUp(op)) \/ Deliver
  BY <1>1, <1>7 DEF PickUp, Deliver, journalVars
<1>8. CASE (\E op \in Cancels : Observe(op) \/ Reconcile(op)) \/ Claim \/ DeliverIneligible
           \/ (\E d, m \in BOOLEAN : DeliverAmbiguous(d, m))
  <2>1. watcher = "watching" /\ watcher' # "done" /\ UNCHANGED <<owner, through>>
    BY <1>8 DEF Observe, Reconcile, Claim, DeliverIneligible, DeliverAmbiguous, Delivering, Polling
  <2>2. QED
    BY <2>1 DEF DrainSane
<1>9. CASE ReadWatermark
  BY <1>9 DEF ReadWatermark, Polling, DrainSane
<1>10. CASE Drained
  <2>1. /\ through /\ watcher' = "done" /\ \A op \in Cancels : ~Undrained(op)
        /\ UNCHANGED <<gen, owner, seq, leaseOf, status, through>>
    BY <1>10 DEF Drained, journalVars
  <2>2. QED
    BY <2>1 DEF DrainSane, Undrained
<1>11. CASE RunnerAlone \/ CloseFails \/ CloseTimesOut
  BY <1>1, <1>11 DEF RunnerAlone, CloseFails, CloseTimesOut, boxVars
<1>12. QED
  BY <1>2, <1>3, <1>4, <1>5, <1>6, <1>7, <1>8, <1>9, <1>10, <1>11 DEF CancelNext, ServiceStep, WatcherStep, MainStep

(* What an appended event adds to the requests and transitions of an       *)
(* operation, by the kind of step that appended it.                        *)
LEMMA AppendedKinds ==
  ASSUME CancelTypeOK, RunnerSane, NEW op \in Cancels
  PROVE  /\ ledger' = ledger => RequestsOf(ledger', op) = RequestsOf(ledger, op) /\ TransitionsOf(ledger', op) = TransitionsOf(ledger, op)
         /\ Create => RequestsOf(ledger', op) = RequestsOf(ledger, op) /\ TransitionsOf(ledger', op) = TransitionsOf(ledger, op)
         /\ \A e \in Event : Selects(e) =>
              /\ RequestsOf(ledger', op) = RequestsOf(ledger, op)
              /\ TransitionsOf(ledger', op) =
                   TransitionsOf(ledger, op) \cup (IF e.kind = "STATE_TRANSITION" /\ e.op = op THEN {Len(ledger) + 1} ELSE {})
         /\ Requests =>
              /\ RequestsOf(ledger', op) = RequestsOf(ledger, op) \cup (IF op = item THEN {Len(ledger) + 1} ELSE {})
              /\ TransitionsOf(ledger', op) = TransitionsOf(ledger, op)
<1>0. ledger \in Seq(Event) /\ item \in Cancels \cup {NoOp}
  BY DEF CancelTypeOK, RunTypeOK
<1>a. ASSUME NEW e \in Event, ledger' = Append(ledger, e)
      PROVE  /\ RequestsOf(ledger', op) =
                  RequestsOf(ledger, op) \cup (IF e.kind = "API_CANCEL_REQUESTED" /\ e.op = op THEN {Len(ledger) + 1} ELSE {})
             /\ TransitionsOf(ledger', op) =
                  TransitionsOf(ledger, op) \cup (IF e.kind = "STATE_TRANSITION" /\ e.op = op THEN {Len(ledger) + 1} ELSE {})
  <2>1. /\ RequestsOf(Append(ledger, e), op) =
             RequestsOf(ledger, op) \cup (IF e.kind = "API_CANCEL_REQUESTED" /\ e.op = op THEN {Len(ledger) + 1} ELSE {})
        /\ TransitionsOf(Append(ledger, e), op) =
             TransitionsOf(ledger, op) \cup (IF e.kind = "STATE_TRANSITION" /\ e.op = op THEN {Len(ledger) + 1} ELSE {})
    BY <1>0, <1>a, KindsOfAppend
  <2>2. QED
    BY <1>a, <2>1
<1>1. ASSUME Create
      PROVE  RequestsOf(ledger', op) = RequestsOf(ledger, op) /\ TransitionsOf(ledger', op) = TransitionsOf(ledger, op)
  <2>1. ledger' = Append(ledger, CreatedEvent) /\ CreatedEvent \in Event /\ CreatedEvent.kind = "RUN_CREATED"
    BY <1>1, EventFacts DEF Create, CreatedEvent
  <2>2. QED
    BY <1>0, <1>a, <2>1
<1>2. ASSUME NEW e \in Event, Selects(e)
      PROVE  /\ RequestsOf(ledger', op) = RequestsOf(ledger, op)
             /\ TransitionsOf(ledger', op) =
                  TransitionsOf(ledger, op) \cup (IF e.kind = "STATE_TRANSITION" /\ e.op = op THEN {Len(ledger) + 1} ELSE {})
  <2>1. ledger' = Append(ledger, e) /\ e.kind # "API_CANCEL_REQUESTED"
    BY <1>2 DEF Selects
  <2>2. QED
    BY <1>0, <1>a, <2>1
<1>3. ASSUME Requests
      PROVE  /\ RequestsOf(ledger', op) = RequestsOf(ledger, op) \cup (IF op = item THEN {Len(ledger) + 1} ELSE {})
             /\ TransitionsOf(ledger', op) = TransitionsOf(ledger, op)
  <2>1. ledger' = Append(ledger, CancelRequestEvent(item)) /\ item \in Cancels
    BY <1>0, <1>3 DEF Requests, Delivering
  <2>2. /\ CancelRequestEvent(item) \in Event
        /\ CancelRequestEvent(item).kind = "API_CANCEL_REQUESTED" /\ CancelRequestEvent(item).op = item
    BY <2>1, EventFacts DEF CancelRequestEvent
  <2>3. QED
    BY <1>0, <1>a, <2>1, <2>2
<1>4. QED
  BY <1>1, <1>2, <1>3

(* Nothing follows a terminal state.                                       *)
LEMMA TerminalEnds ==
  ASSUME NEW s \in Terminal, NEW to
  PROVE  ~ValidateTransition(s, to)
  BY DEF Terminal, ValidateTransition, Successors

(* A terminal state of the ledger stays: creation finds an empty ledger,   *)
(* and a selected transition is an edge of the table.                      *)
LEMMA TerminalKeeps ==
  ASSUME CancelTypeOK, RunnerSane, CancelNext, CurrentState(ledger) \in Terminal
  PROVE  CurrentState(ledger') \in Terminal
<1>0. ledger \in Seq(Event) /\ HasLatest(ledger) /\ item \in Cancels \cup {NoOp}
  BY DEF CancelTypeOK, RunTypeOK, RunnerSane
<1>1. ledger # <<>>
  <2>1. Marks(ledger) # {}
    BY DEF CurrentState, Terminal
  <2>2. PICK i \in Marks(ledger) : 0 < i /\ i <= Len(ledger) /\ i \in Nat
    BY <1>0, <2>1, LedgerFacts
  <2>3. QED
    BY <2>2
<1>2. \A e \in Event : ~Selects(e)
  BY TerminalEnds DEF Selects
<1>3. CASE Requests
  <2>1. ledger' = Append(ledger, CancelRequestEvent(item)) /\ CancelRequestEvent(item) \in Event /\ CancelRequestEvent(item).to = ""
    BY <1>0, <1>3, EventFacts DEF Requests, Delivering, CancelRequestEvent
  <2>2. QED
    BY <1>0, <2>1, LatestOfAppend
<1>4. QED
  BY <1>1, <1>2, <1>3, LedgerSteps

(* Requests are appended for claimed operations only, and transitions only *)
(* after the request they name.                                            *)
LEMMA RequestsKeeps ==
  ASSUME CancelTypeOK, RunnerSane, RequestsSane, CancelNext
  PROVE  RequestsSane'
<1>0. item \in Cancels \cup {NoOp} /\ NoOp \notin Cancels
  BY OpsAssumption DEF CancelTypeOK, Ops
<1>1. \A op \in Cancels : status'[op] \in Unclaimed => status[op] \in Unclaimed
  BY StatusSteps DEF RecordMoves, Unclaimed
<1>2. ASSUME NEW op \in Cancels
      PROVE  /\ RequestsOf(ledger, op) = {} /\ ~(Requests /\ op = item) => RequestsOf(ledger', op) = {}
             /\ RequestsOf(ledger, op) # {} => RequestsOf(ledger', op) # {}
  BY LedgerSteps, AppendedKinds
<1>3. ASSUME NEW op \in Cancels, status'[op] \in Unclaimed PROVE RequestsOf(ledger', op) = {}
  <2>1. status[op] \in Unclaimed /\ RequestsOf(ledger, op) = {}
    BY <1>1, <1>3 DEF RequestsSane
  <2>2. ~(Requests /\ op = item)
    BY <2>1 DEF Requests, Delivering, Unclaimed
  <2>3. QED
    BY <1>2, <2>1, <2>2
<1>4. ASSUME NEW op \in Cancels, TransitionsOf(ledger', op) # {} PROVE RequestsOf(ledger', op) # {}
  <2>1. CASE TransitionsOf(ledger, op) # {}
    BY <1>2, <2>1 DEF RequestsSane
  <2>2. CASE TransitionsOf(ledger, op) = {}
    <3>1. PICK e \in Event : Selects(e) /\ e.kind = "STATE_TRANSITION" /\ e.op = op
      BY <1>4, <2>2, LedgerSteps, AppendedKinds
    <3>2. RequestsOf(ledger, op) # {}
      BY <1>0, <3>1 DEF Selects
    <3>3. QED
      BY <1>2, <3>2
  <2>3. QED
    BY <2>1, <2>2
<1>5. ASSUME NEW op \in Cancels, status'[op] = "RECONCILED_NOT_APPLIED"
      PROVE  RequestsOf(ledger', op) = {} \/ CurrentState(ledger') \in Terminal
  <2>1. CASE status[op] = "RECONCILED_NOT_APPLIED"
    <3>1. ~(Requests /\ op = item)
      BY <2>1 DEF Requests, Delivering
    <3>2. QED
      BY <1>2, <2>1, <3>1, TerminalKeeps DEF RequestsSane
  <2>2. CASE status[op] # "RECONCILED_NOT_APPLIED"
    <3>1. CancelProof(op) = "not_applied" /\ ledger' = ledger
      BY <1>5, <2>2, StatusSteps DEF RecordMoves, Settling, SettledStatus, AppliedStatus
    <3>2. RequestsOf(ledger, op) = {} \/ CurrentState(ledger) \in Terminal
      BY <3>1 DEF CancelProof
    <3>3. QED
      BY <3>1, <3>2
  <2>3. QED
    BY <2>1, <2>2
<1>6. ASSUME item' # NoOp PROVE RequestsOf(ledger', item') = {}
  <2>1. item' \in Cancels /\ ~Requests
    BY <1>6, TypeKeeps DEF CancelTypeOK, Requests
  <2>2. CASE item' = item
    BY <1>2, <1>6, <2>1, <2>2 DEF RequestsSane
  <2>3. CASE item' # item
    <3>1. PICK op \in Cancels : PickUp(op)
      BY <1>6, <2>3 DEF CancelNext, RunnerAlone, FreezeOwner, ServiceStep, Validate, Receive, Refuse, Replay, RejectOutsideWindow,
                        ReconcileAbandoned, WatcherStep, Observe, Reconcile, Claim, Deliver, DeliverIneligible, ReadWatermark,
                        Drained, DeliverAmbiguous, MainStep, BeginClose, Retire, CloseFails, CloseTimesOut, boxVars, watcherVars
    <3>2. item' = op /\ status[op] = "RECEIVED" /\ UNCHANGED ledger
      BY <3>1 DEF PickUp, runVars
    <3>3. RequestsOf(ledger, op) = {}
      BY <3>2 DEF RequestsSane, Unclaimed
    <3>4. QED
      BY <3>2, <3>3
  <2>4. QED
    BY <2>2, <2>3
<1>7. QED
  BY <1>3, <1>4, <1>5, <1>6 DEF RequestsSane

(* An old position keeps its event and its neighbours, whatever is         *)
(* appended.                                                               *)
LEMMA AppendStays ==
  ASSUME NEW l \in Seq(Event), NEW e \in Event, NEW m, m = Append(l, e)
  PROVE  /\ \A i \in DOMAIN l : i \in DOMAIN m /\ m[i] = l[i]
         /\ \A i, j \in Nat : j <= Len(l) + 1 /\ NoMarkBetween(l, i, j) => NoMarkBetween(m, i, j)
         /\ Marks(l) \subseteq Marks(m) /\ \A i \in Marks(m) : i \in Marks(l) \/ i = Len(l) + 1
         /\ Blockers(l) \subseteq Blockers(m)
         /\ \A x : /\ RequestsOf(l, x) \subseteq RequestsOf(m, x)
                   /\ TransitionsOf(l, x) \subseteq TransitionsOf(m, x)
                   /\ AnswersTo(l, x) \subseteq AnswersTo(m, x)
<1>1. /\ DOMAIN l = 1..Len(l) /\ DOMAIN m = 1..(Len(l) + 1) /\ Len(l) \in Nat
      /\ \A i \in DOMAIN l : m[i] = l[i]
  BY AppendFacts, Zenon
<1>2. DOMAIN l \subseteq DOMAIN m
  BY <1>1
<1>3. Marks(m) = Marks(l) \cup (IF e.to # "" THEN {Len(l) + 1} ELSE {})
  BY MarksOfAppend, Zenon
<1>4. Blockers(l) \subseteq Blockers(m)
  BY <1>1, <1>2, Zenon DEF Blockers
<1>5. ASSUME NEW x
      PROVE  /\ RequestsOf(l, x) \subseteq RequestsOf(m, x)
             /\ TransitionsOf(l, x) \subseteq TransitionsOf(m, x)
             /\ AnswersTo(l, x) \subseteq AnswersTo(m, x)
  BY <1>1, <1>2, Zenon DEF RequestsOf, TransitionsOf, AnswersTo
<1>6. ASSUME NEW i \in Nat, NEW j \in Nat, j <= Len(l) + 1, NoMarkBetween(l, i, j)
      PROVE  NoMarkBetween(m, i, j)
  <2>1. SUFFICES ASSUME NEW k \in Marks(m), i < k, k < j PROVE FALSE
    BY DEF NoMarkBetween
  <2>2. k \in Marks(l) \/ k = Len(l) + 1
    BY <1>3
  <2>3. QED
    BY <1>1, <1>6, <2>1, <2>2 DEF NoMarkBetween
<1>7. QED
  BY <1>1, <1>2, <1>3, <1>4, <1>5, <1>6

(* So it does in a step of the cancel action.                              *)
LEMMA PositionsStay ==
  ASSUME CancelTypeOK, RunnerSane, CancelNext
  PROVE  /\ \A i \in DOMAIN ledger : i \in DOMAIN ledger' /\ ledger'[i] = ledger[i]
         /\ \A i, j \in Nat : j <= Len(ledger) + 1 /\ NoMarkBetween(ledger, i, j) => NoMarkBetween(ledger', i, j)
         /\ Marks(ledger) \subseteq Marks(ledger') /\ \A i \in Marks(ledger') : i \in Marks(ledger) \/ i = Len(ledger) + 1
         /\ Blockers(ledger) \subseteq Blockers(ledger')
         /\ \A x : /\ RequestsOf(ledger, x) \subseteq RequestsOf(ledger', x)
                   /\ TransitionsOf(ledger, x) \subseteq TransitionsOf(ledger', x)
                   /\ AnswersTo(ledger, x) \subseteq AnswersTo(ledger', x)
<1>0. ledger \in Seq(Event)
  BY DEF CancelTypeOK, RunTypeOK
<1>1. CASE ledger' = ledger
  BY <1>1
<1>2. CASE \E e \in Event : ledger' = Append(ledger, e)
  BY <1>0, <1>2, AppendStays
<1>3. QED
  BY <1>1, <1>2, LedgerGrows

(* Requests and transitions are positions of the ledger.                   *)
LEMMA KindFacts ==
  ASSUME NEW l \in Seq(Event), NEW x
  PROVE  /\ \A i \in RequestsOf(l, x) : i \in DOMAIN l /\ i \in Nat /\ 0 < i /\ i <= Len(l) /\ l[i].kind = "API_CANCEL_REQUESTED"
         /\ \A i \in TransitionsOf(l, x) : i \in DOMAIN l /\ i \in Nat /\ 0 < i /\ i <= Len(l) /\ l[i].kind = "STATE_TRANSITION"
<1>1. Len(l) \in Nat /\ DOMAIN l = 1..Len(l)
  BY LedgerFacts
<1>2. \A i \in RequestsOf(l, x) : i \in DOMAIN l /\ l[i].kind = "API_CANCEL_REQUESTED"
  BY DEF RequestsOf
<1>3. \A i \in TransitionsOf(l, x) : i \in DOMAIN l /\ l[i].kind = "STATE_TRANSITION"
  BY DEF TransitionsOf
<1>4. QED
  BY <1>1, <1>2, <1>3

(* What the ledger proved of an operation it keeps proving: a settled      *)
(* outcome is true when it is recorded and never becomes false.            *)
LEMMA OutcomesKeep ==
  ASSUME CancelTypeOK, RunnerSane, RequestsSane, CancelOutcomesAreTrue, CancelNext
  PROVE  CancelOutcomesAreTrue'
<1>0. ledger \in Seq(Event) /\ Len(ledger) \in Nat /\ NoOp \notin Cancels
  BY LedgerFacts, OpsAssumption DEF CancelTypeOK, RunTypeOK, Ops
<1> DEFINE Shown(l, op, r, t) == r < t /\ NoMarkBetween(l, r, t) /\ l[t].to = "CANCELLED" /\ l[t].ref = r
<1>1. ASSUME NEW op \in Cancels, status'[op] \in AppliedStatus
      PROVE  \E r \in RequestsOf(ledger', op), t \in TransitionsOf(ledger', op) : Shown(ledger', op, r, t)
  <2>1. PICK r \in RequestsOf(ledger, op), t \in TransitionsOf(ledger, op) : Shown(ledger, op, r, t)
    <3>1. CASE status[op] \in AppliedStatus
      BY <3>1 DEF CancelOutcomesAreTrue
    <3>2. CASE status[op] \notin AppliedStatus
      <4>1. CancelProof(op) = "applied"
        BY <1>1, <3>2, StatusSteps DEF RecordMoves, AppliedStatus
      <4>2. /\ TransitionsOf(ledger, op) # {}
            /\ \E r \in RequestsOf(ledger, op) : \A t \in TransitionsOf(ledger, op) :
                  /\ r < t /\ NoMarkBetween(ledger, r, t)
                  /\ MatchesCancelled(op, ledger[t], r)
        BY <4>1 DEF CancelProof
      <4>3. QED
        BY <4>2 DEF MatchesCancelled
    <3>3. QED
      BY <3>1, <3>2
  <2>2. r \in Nat /\ t \in Nat /\ t <= Len(ledger) + 1 /\ t \in DOMAIN ledger
    BY <1>0, KindFacts
  <2>3. Shown(ledger', op, r, t) /\ r \in RequestsOf(ledger', op) /\ t \in TransitionsOf(ledger', op)
    BY <2>1, <2>2, PositionsStay
  <2>4. QED
    BY <2>3
<1>2. RequestsSane'
  BY RequestsKeeps
<1>3. ASSUME NEW op \in Cancels, status'[op] \in {"REJECTED", "REFUSED"}
      PROVE  RequestsOf(ledger', op) = {} /\ TransitionsOf(ledger', op) = {}
  BY <1>2, <1>3 DEF RequestsSane, Unclaimed
<1>4. ASSUME NEW op \in Cancels, status'[op] = "RECONCILED_NOT_APPLIED"
      PROVE  TransitionsOf(ledger', op) = {}
  <2>1. CASE status[op] = "RECONCILED_NOT_APPLIED"
    <3>1. TransitionsOf(ledger, op) = {} /\ (RequestsOf(ledger, op) = {} \/ CurrentState(ledger) \in Terminal)
      BY <2>1 DEF CancelOutcomesAreTrue, RequestsSane
    <3>2. ASSUME NEW e \in Event, Selects(e) PROVE ~(e.kind = "STATE_TRANSITION" /\ e.op = op)
      BY <1>0, <3>1, <3>2, TerminalEnds DEF Selects
    <3>3. QED
      BY <3>1, <3>2, LedgerSteps, AppendedKinds
  <2>2. CASE status[op] # "RECONCILED_NOT_APPLIED"
    <3>1. CancelProof(op) = "not_applied" /\ ledger' = ledger
      BY <1>4, <2>2, StatusSteps DEF RecordMoves, Settling, SettledStatus, AppliedStatus
    <3>2. TransitionsOf(ledger, op) = {}
      BY <3>1 DEF CancelProof
    <3>3. QED
      BY <3>1, <3>2
  <2>3. QED
    BY <2>1, <2>2
<1>5. QED
  BY <1>1, <1>3, <1>4 DEF CancelOutcomesAreTrue

(* The binding of a receipt is written once: once an operation is claimed, *)
(* its sequence number, its owner and the transition it was admitted       *)
(* against stay.                                                           *)
LEMMA BindingStays ==
  ASSUME CancelTypeOK, CancelNext, NEW op \in Cancels, status[op] \notin Unclaimed
  PROVE  admitted'[op] = admitted[op] /\ seq'[op] = seq[op] /\ leaseOf'[op] = leaseOf[op]
<1>0. seq \in [Ops -> Nat] /\ leaseOf \in [Ops -> Nat] /\ admitted \in [Ops -> Nat] /\ Cancels \subseteq Ops
  BY DEF CancelTypeOK, Ops
<1>1. CASE UNCHANGED <<seq, leaseOf, admitted>>
  BY <1>1
<1>2. ASSUME NEW o \in Cancels, Validate(o) \/ Receive(o, FALSE) \/ Receive(o, TRUE) \/ Replay(o)
      PROVE  admitted'[op] = admitted[op] /\ seq'[op] = seq[op] /\ leaseOf'[op] = leaseOf[op]
  <2>1. o # op
    BY <1>2 DEF Validate, Receive, Replay, Unclaimed
  <2>2. QED
    BY <1>0, <1>2, <2>1 DEF Validate, Receive, Replay
<1>3. ASSUME NEW o \in Cancels, Refuse(o) \/ RejectOutsideWindow(o) \/ ReconcileAbandoned(o)
      PROVE  UNCHANGED <<seq, leaseOf, admitted>>
  BY <1>3 DEF Refuse, RejectOutsideWindow, ReconcileAbandoned, journalVars
<1>4. CASE RunnerAlone \/ FreezeOwner \/ WatcherStep \/ (\E d, m \in BOOLEAN : DeliverAmbiguous(d, m)) \/ MainStep \/ CloseTimesOut
  <2>1. UNCHANGED <<seq, leaseOf, admitted>>
    BY <1>4 DEF RunnerAlone, FreezeOwner, WatcherStep, PickUp, Observe, Reconcile, Claim, Deliver, DeliverIneligible,
                ReadWatermark, Drained, DeliverAmbiguous, MainStep, BeginClose, Retire, CloseFails, CloseTimesOut, boxVars, journalVars
  <2>2. QED
    BY <1>1, <2>1
<1>5. QED
  BY <1>1, <1>2, <1>3, <1>4 DEF CancelNext, ServiceStep

(* The owner lease is closed once, at the journal's sequence, and then     *)
(* only retired.                                                           *)
LEMMA OwnerSteps ==
  ASSUME CancelTypeOK, CancelNext
  PROVE  \/ owner' = owner
         \/ owner.state = "ACTIVE" /\ owner'.gen = owner.gen /\ owner'.state = "CLOSING" /\ owner'.drain = jseq /\ ledger' = ledger
         \/ owner.state = "CLOSING" /\ owner'.gen = owner.gen /\ owner'.state = "RETIRED" /\ owner'.drain = owner.drain
<1>0. owner \in Owner
  BY DEF CancelTypeOK
<1>1. CASE FreezeOwner \/ BeginClose
  BY <1>0, <1>1 DEF FreezeOwner, Freeze, BeginClose, CloseOwner, Owner, runVars
<1>2. CASE Retire
  BY <1>0, <1>2 DEF Retire, Owner
<1>3. ASSUME NEW op \in Cancels, ServiceStep(op) PROVE owner' = owner
  BY <1>3 DEF ServiceStep, Validate, Receive, Refuse, Replay, RejectOutsideWindow, ReconcileAbandoned
<1>4. CASE RunnerAlone \/ WatcherStep \/ (\E d, m \in BOOLEAN : DeliverAmbiguous(d, m)) \/ CloseFails \/ CloseTimesOut
  BY <1>4 DEF RunnerAlone, WatcherStep, PickUp, Observe, Reconcile, Claim, Deliver, DeliverIneligible, ReadWatermark, Drained,
              DeliverAmbiguous, CloseFails, CloseTimesOut, boxVars
<1>5. QED
  BY <1>1, <1>2, <1>3, <1>4 DEF CancelNext, MainStep

(* A request is appended inside the window, and the window that let it     *)
(* through only ever closes at or above its sequence number.               *)
LEMMA WindowKeeps ==
  ASSUME CancelTypeOK, RunnerSane, Numbered, RequestsSane, DeliveredInsideWindow, CancelNext
  PROVE  DeliveredInsideWindow'
<1>0. /\ ledger \in Seq(Event) /\ Len(ledger) \in Nat /\ HasLatest(ledger) /\ Cancels \subseteq Ops
      /\ seq \in [Ops -> Nat] /\ leaseOf \in [Ops -> Nat] /\ admitted \in [Ops -> Nat] /\ jseq \in Nat
      /\ item \in Cancels \cup {NoOp}
  BY LedgerFacts DEF CancelTypeOK, RunTypeOK, RunnerSane, Ops
<1>1. SUFFICES ASSUME NEW op \in Cancels, NEW r \in RequestsOf(ledger', op)
               PROVE  /\ leaseOf'[op] <= owner'.gen
                      /\ leaseOf'[op] = owner'.gen /\ owner'.state # "ACTIVE" => seq'[op] <= owner'.drain
                      /\ admitted'[op] < r /\ NoMarkBetween(ledger', admitted'[op], r)
  BY DEF DeliveredInsideWindow
<1>2. CASE r \in RequestsOf(ledger, op)
  <2>1. status[op] \notin Unclaimed
    BY <1>2 DEF RequestsSane
  <2>2. admitted'[op] = admitted[op] /\ seq'[op] = seq[op] /\ leaseOf'[op] = leaseOf[op]
    BY <2>1, BindingStays
  <2>3. /\ leaseOf[op] <= owner.gen
        /\ leaseOf[op] = owner.gen /\ owner.state # "ACTIVE" => seq[op] <= owner.drain
        /\ admitted[op] < r /\ NoMarkBetween(ledger, admitted[op], r)
    BY <1>2 DEF DeliveredInsideWindow
  <2>4. seq[op] <= jseq /\ admitted[op] \in Nat /\ r \in Nat /\ r <= Len(ledger) + 1
    BY <1>0, <1>2, KindFacts DEF Numbered
  <2>5. NoMarkBetween(ledger', admitted[op], r)
    BY <2>3, <2>4, PositionsStay
  <2>6. QED
    BY <2>2, <2>3, <2>4, <2>5, OwnerSteps
<1>3. CASE r \notin RequestsOf(ledger, op)
  <2>1. Requests /\ op = item /\ r = Len(ledger) + 1
    BY <1>1, <1>3, LedgerSteps, AppendedKinds
  <2>2. UNCHANGED <<owner, seq, leaseOf, admitted>> /\ InWindow(op) /\ admitted[op] = LatestTransition(ledger)
    BY <2>1 DEF Requests, Deliverable, SnapshotMatches, journalVars
  <2>3. /\ leaseOf[op] = owner.gen /\ (owner.state # "ACTIVE" => seq[op] <= owner.drain) /\ owner.gen \in Nat
    BY <1>0, <2>2 DEF InWindow
  <2>4. admitted[op] \in Nat /\ admitted[op] < r /\ r \in Nat
    BY <1>0, <2>1, <2>2, LatestFacts
  <2>5. NoMarkBetween(ledger, admitted[op], r)
    <3>1. \A k \in Marks(ledger) : k <= admitted[op] /\ k \in Nat
      BY <1>0, <2>2, LatestFacts, LedgerFacts
    <3>2. QED
      BY <2>4, <3>1 DEF NoMarkBetween
  <2>6. NoMarkBetween(ledger', admitted[op], r)
    BY <1>0, <2>1, <2>4, <2>5, PositionsStay
  <2>7. QED
    BY <2>2, <2>3, <2>4, <2>6
<1>4. QED
  BY <1>2, <1>3

(* The cause of the context decides what the runner appends from then on.  *)
LEMMA CauseKeeps ==
  ASSUME CancelTypeOK, RunnerSane, Begun, RequestsSane, CauseDecides, CancelNext
  PROVE  CauseDecides'
<1>0. /\ ledger \in Seq(Event) /\ Len(ledger) \in Nat /\ item \in Cancels \cup {NoOp} /\ NoOp \notin Cancels
      /\ Live \notin Cancels /\ Signalled \notin Cancels
  BY LedgerFacts, OpsAssumption DEF CancelTypeOK, RunTypeOK, Ops
<1>1. SUFFICES ASSUME ctx' \in Cancels, NEW r \in RequestsOf(ledger', ctx'), NEW t \in Marks(ledger'), t > r
               PROVE  \/ ledger'[t].to = "CANCELLED" /\ ledger'[t].op = ctx'
                      \/ ledger'[t].kind = "BLOCKER_DECISION_RECORDED"
  BY DEF CauseDecides
<1>2. CASE Requests
  <2>1. ledger' = Append(ledger, CancelRequestEvent(item)) /\ item \in Cancels
    BY <1>0, <1>2 DEF Requests, Delivering
  <2>2. CancelRequestEvent(item) \in Event /\ CancelRequestEvent(item).to = ""
    BY <2>1, EventFacts DEF CancelRequestEvent
  <2>3. Marks(ledger') = Marks(ledger)
    BY <1>0, <2>1, <2>2, MarksOfAppend
  <2>4. t \in Marks(ledger) /\ t <= Len(ledger) /\ t \in DOMAIN ledger /\ t \in Nat
    BY <1>0, <2>3, LedgerFacts
  <2>5. r \in RequestsOf(ledger, ctx')
    BY <1>0, <1>1, <1>2, <2>4, AppendedKinds
  <2>6. ctx' = ctx
    <3>1. RequestsOf(ledger, item) = {}
      BY <1>0, <2>1 DEF RequestsSane
    <3>2. QED
      BY <1>2, <2>5, <3>1 DEF Requests, CauseAfter
  <2>7. QED
    BY <1>1, <2>4, <2>5, <2>6, PositionsStay DEF CauseDecides
<1>3. CASE ~Requests
  <2>1. ctx' = ctx
    BY <1>1, <1>3, <1>0 DEF CancelNext, RunnerAlone, RunnerStep, Create, ReadPausedRun, Choose, Commit, CommitFrozen, CommitRefused, Signal,
                  Crash, CommitFails, FreezeOwner, Freeze, ServiceStep, Validate, Receive, Refuse, Replay, RejectOutsideWindow,
                  ReconcileAbandoned, WatcherStep, PickUp, Observe, Reconcile, Claim, Deliver, Requests, DeliverIneligible,
                  ReadWatermark, Drained, DeliverAmbiguous, MainStep, BeginClose, Retire, CloseFails, CloseTimesOut, runVars
  <2>2. r \in RequestsOf(ledger, ctx)
    BY <1>1, <1>3, <2>1, LedgerSteps, AppendedKinds
  <2>3. CASE t \in Marks(ledger)
    <3>1. t \in DOMAIN ledger
      BY <1>0, <2>3, LedgerFacts
    <3>2. QED
      BY <1>1, <2>1, <2>2, <2>3, <3>1, PositionsStay DEF CauseDecides
  <2>4. CASE t \notin Marks(ledger)
    <3>1. t = Len(ledger) + 1 /\ ledger' # ledger
      BY <2>4, PositionsStay
    <3>2. ledger # <<>>
      BY <1>1, <2>1, <2>2 DEF RequestsOf
    <3>3. PICK e \in Event : Selects(e)
      BY <1>3, <3>1, <3>2, LedgerSteps
    <3>4. ledger'[t] = e
      BY <1>0, <3>1, <3>3, AppendFacts DEF Selects
    <3>5. QED
      BY <1>1, <2>1, <3>3, <3>4 DEF Selects
  <2>5. QED
    BY <2>3, <2>4
<1>4. QED
  BY <1>2, <1>3

-----------------------------------------------------------------------------
(* The invariant, and what follows from it.                                *)

(* The mailbox starts empty, with an active owner and no run.              *)
LEMMA CancelStarts ==
  ASSUME CancelInit
  PROVE  CancelInv
<1>0. Live \notin Cancels /\ MaxFaults \in Nat
  BY OpsAssumption, ProfileAssumption DEF Ops
<1>1. ledger = <<>> /\ Len(ledger) = 0 /\ DOMAIN ledger = {} /\ ledger \in Seq(Event)
  <2>1. ledger = <<>>
    BY DEF CancelInit, RunInit
  <2>2. <<>> \in Seq(Event) /\ Len(<<>>) = 0 /\ DOMAIN <<>> = {}
    OBVIOUS
  <2>3. QED
    BY <2>1, <2>2, Zenon
<1>2. Marks(ledger) = {} /\ \A op \in Cancels : RequestsOf(ledger, op) = {} /\ TransitionsOf(ledger, op) = {}
  BY <1>1, Zenon DEF Marks, RequestsOf, TransitionsOf
<1>3. RunTypeOK
  <2>1. NoIntent \in Intent
    BY DEF NoIntent, Intent, Source
  <2>2. 0 \in 0..MaxFaults
    BY <1>0
  <2>3. QED
    BY <1>1, <2>1, <2>2 DEF CancelInit, RunInit, RunTypeOK
<1>4. CancelTypeOK
  BY <1>3 DEF CancelInit, BoxInit, CancelTypeOK, Owner, Status
<1>5. Numbered
  BY <1>1 DEF CancelInit, BoxInit, Numbered
<1>6. RunnerSane /\ Begun
  BY <1>1, <1>2 DEF CancelInit, RunInit, BoxInit, RunnerSane, HasLatest, Begun, Ops
<1>7. DrainSane
  BY DEF CancelInit, BoxInit, DrainSane
<1>8. RequestsSane /\ CancelOutcomesAreTrue
  BY <1>2 DEF CancelInit, BoxInit, RequestsSane, CancelOutcomesAreTrue, Ops, AppliedStatus
<1>9. DeliveredInsideWindow
  BY <1>2 DEF DeliveredInsideWindow
<1>10. CauseDecides
  BY <1>0 DEF CancelInit, RunInit, CauseDecides
<1>11. QED
  BY <1>4, <1>5, <1>6, <1>7, <1>8, <1>9, <1>10 DEF CancelInv

(* Every step of the runner, the service, the watcher and main keeps it.   *)
LEMMA CancelStep ==
  ASSUME CancelInv, CancelNext
  PROVE  CancelInv'
<1>1. /\ CancelTypeOK /\ Numbered /\ RunnerSane /\ Begun /\ DrainSane /\ RequestsSane
      /\ CancelOutcomesAreTrue /\ DeliveredInsideWindow /\ CauseDecides
  BY DEF CancelInv
<1>2. CancelTypeOK' /\ Numbered' /\ RunnerSane' /\ Begun' /\ DrainSane'
  BY <1>1, TypeKeeps, NumberedKeeps, RunnerKeeps, BegunKeeps, DrainKeeps
<1>3. RequestsSane' /\ CancelOutcomesAreTrue' /\ DeliveredInsideWindow' /\ CauseDecides'
  BY <1>1, RequestsKeeps, OutcomesKeep, WindowKeeps, CauseKeeps
<1>4. QED
  BY <1>2, <1>3 DEF CancelInv

(* So does a step that leaves all of the mailbox alone.                    *)
LEMMA CancelStutters ==
  ASSUME CancelInv, UNCHANGED cancelVars
  PROVE  CancelInv'
<1>1. CancelTypeOK'
  BY DEF CancelInv, CancelTypeOK, RunTypeOK, cancelVars, runVars, boxVars
<1>a. Numbered' /\ RunnerSane' /\ Begun'
  BY DEF CancelInv, Numbered, RunnerSane, IntentSane, Begun, cancelVars, runVars, boxVars
<1>2. DrainSane' /\ RequestsSane' /\ CancelOutcomesAreTrue' /\ DeliveredInsideWindow' /\ CauseDecides'
  BY DEF CancelInv, DrainSane, Undrained, RequestsSane, CancelOutcomesAreTrue, DeliveredInsideWindow, CauseDecides,
         cancelVars, runVars, boxVars
<1>3. QED
  BY <1>1, <1>a, <1>2 DEF CancelInv

(* CancelInv holds in every reachable state of the cancel action.          *)
THEOREM CancelInvariant == CancelSpec => []CancelInv
<1>1. CancelInit => CancelInv
  BY CancelStarts
<1>2. CancelInv /\ [CancelNext]_cancelVars => CancelInv'
  BY CancelStep, CancelStutters
<1>3. QED
  BY <1>1, <1>2, PTL DEF CancelSpec

(* The journal, the lease, the watcher and the runner hold only values of  *)
(* their types.                                                            *)
THEOREM CancelTypeCorrect == CancelSpec => []CancelTypeOK
<1>1. CancelInv => CancelTypeOK
  BY DEF CancelInv
<1>2. QED
  BY <1>1, CancelInvariant, PTL

(* What the journal tells the client of a cancel is what the ledger shows, *)
(* whoever settled the record: the watcher, a retry or a status read.      *)
THEOREM SettledCancelsAreTrue == CancelSpec => []CancelOutcomesAreTrue
<1>1. CancelInv => CancelOutcomesAreTrue
  BY DEF CancelInv
<1>2. QED
  BY <1>1, CancelInvariant, PTL

(* deliver appends a request only inside the window of the live owner, and *)
(* directly behind the transition the operation was admitted against.      *)
THEOREM RequestsStayInWindow == CancelSpec => []DeliveredInsideWindow
<1>1. CancelInv => DeliveredInsideWindow
  BY DEF CancelInv
<1>2. QED
  BY <1>1, CancelInvariant, PTL

(* Once a typed cancellation is the context's cause, the transition lease  *)
(* selects nothing but that cancellation or a classified blocker.          *)
THEOREM TypedCauseDecides == CancelSpec => []CauseDecides
<1>1. CancelInv => CauseDecides
  BY DEF CancelInv
<1>2. QED
  BY <1>1, CancelInvariant, PTL

(* Close retires the owner lease only after everything under the frozen    *)
(* watermark has been claimed and settled, or awaits reconciliation.       *)
THEOREM RetirementDrains == CancelSpec => []RetiredOwnerIsDrained
<1>1. CancelInv => RetiredOwnerIsDrained
  <2>1. SUFFICES ASSUME CancelInv, owner.state = "RETIRED", NEW op \in Cancels, leaseOf[op] = owner.gen,
                        status[op] \in {"RECEIVED", "CLAIMED"}
                 PROVE  seq[op] > owner.drain
    BY DEF RetiredOwnerIsDrained
  <2>2. ~Undrained(op) /\ owner.gen = gen
    BY <2>1 DEF CancelInv, DrainSane, Numbered
  <2>3. owner \in Owner /\ seq[op] \in Nat
    BY <2>1 DEF CancelInv, CancelTypeOK, Ops
  <2>4. owner.drain \in Nat
    BY <2>3 DEF Owner
  <2>5. QED
    BY <2>1, <2>2, <2>3, <2>4 DEF Undrained
<1>2. QED
  BY <1>1, CancelInvariant, PTL

(* A settled record of the journal is final, and only a received operation *)
(* is claimed, whichever of the watcher, a retry and a status read is last.*)
THEOREM SettlementIsFinal == CancelSpec => SettledIsFinal
<1>1. CancelInv /\ [CancelNext]_cancelVars =>
        [\A op \in Ops : /\ status[op] \in SettledStatus => status'[op] = status[op]
                         /\ status'[op] = "CLAIMED" => status[op] \in {"RECEIVED", "CLAIMED"}]_cancelVars
  <2>1. SUFFICES ASSUME CancelInv, CancelNext, NEW op \in Ops
                 PROVE  /\ status[op] \in SettledStatus => status'[op] = status[op]
                        /\ status'[op] = "CLAIMED" => status[op] \in {"RECEIVED", "CLAIMED"}
    OBVIOUS
  <2>2. CASE op \in Cancels
    <3>1. RecordMoves(op)
      BY <2>1, <2>2, StatusSteps DEF CancelInv
    <3>2. QED
      BY <3>1 DEF RecordMoves, SettledStatus, AppliedStatus
  <2>3. CASE op \notin Cancels
    BY <2>1, <2>3, StatusSteps DEF CancelInv
  <2>4. QED
    BY <2>2, <2>3
<1>2. QED
  BY <1>1, CancelInvariant, PTL DEF CancelSpec, SettledIsFinal

-----------------------------------------------------------------------------
(* Success is out of a cancel's reach.                                     *)

\* A run that was accepted had its owner closed first, and whatever is
\* admitted against the acceptance finds no owner to be bound to.
SuccessSane ==
  \A i \in DOMAIN ledger : ledger[i].to = "BRANCH_ACCEPTED" =>
    /\ owner.state # "ACTIVE" /\ pc = "returned" /\ \A j \in Marks(ledger) : j <= i
    /\ \A op \in Cancels : admitted[op] = i => status[op] \in {"NONE", "VALIDATING", "REFUSED"}

\* The inductive invariant of NoRequestAfterSuccess.
SuccessInv == CancelInv /\ SuccessSane /\ NoRequestAfterSuccess

(* Run has returned for good.                                              *)
LEMMA ReturnedStays ==
  ASSUME CancelNext, pc = "returned"
  PROVE  pc' = "returned" /\ ~Create /\ \A e \in Event : ~Selects(e)
<1>1. pc' = "returned"
  BY DEF CancelNext, RunnerAlone, RunnerStep, Create, ReadPausedRun, Choose, Commit, CommitFrozen, CommitRefused, MaySelect, Signal,
         Crash, CommitFails, FreezeOwner, Freeze, ServiceStep, Validate, Receive, Refuse, Replay, RejectOutsideWindow,
         ReconcileAbandoned, WatcherStep, PickUp, Observe, Reconcile, Claim, Deliver, DeliverIneligible,
         ReadWatermark, Drained, DeliverAmbiguous, MainStep, BeginClose, Retire, CloseFails, CloseTimesOut, runVars
<1>2. QED
  BY <1>1 DEF Create, Selects

(* A receipt needs an active owner, and the acceptance closed it.          *)
LEMMA SuccessKeeps ==
  ASSUME CancelInv, SuccessSane, CancelNext
  PROVE  SuccessSane'
<1>0. /\ ledger \in Seq(Event) /\ Len(ledger) \in Nat /\ DOMAIN ledger = 1..Len(ledger) /\ Cancels \subseteq Ops
      /\ status \in [Ops -> Status] /\ admitted \in [Ops -> Nat] /\ CancelTypeOK /\ RunnerSane /\ Numbered
      /\ item \in Cancels \cup {NoOp}
  BY LedgerFacts DEF CancelInv, CancelTypeOK, RunTypeOK, Ops
<1>1. SUFFICES ASSUME NEW i \in DOMAIN ledger', ledger'[i].to = "BRANCH_ACCEPTED"
               PROVE  /\ owner'.state # "ACTIVE" /\ pc' = "returned" /\ \A j \in Marks(ledger') : j <= i
                      /\ \A op \in Cancels : admitted'[op] = i => status'[op] \in {"NONE", "VALIDATING", "REFUSED"}
  BY DEF SuccessSane
<1>2. CASE i \in DOMAIN ledger
  <2>1. ledger[i].to = "BRANCH_ACCEPTED"
    BY <1>0, <1>1, <1>2, PositionsStay
  <2>2. /\ owner.state # "ACTIVE" /\ pc = "returned" /\ \A j \in Marks(ledger) : j <= i
        /\ \A op \in Cancels : admitted[op] = i => status[op] \in {"NONE", "VALIDATING", "REFUSED"}
    BY <1>2, <2>1 DEF SuccessSane
  <2>3. owner'.state # "ACTIVE"
    BY <1>0, <2>2, OwnerSteps
  <2>4. ASSUME NEW op \in Cancels, admitted'[op] = i PROVE status'[op] \in {"NONE", "VALIDATING", "REFUSED"}
    <3>1. CASE Validate(op)
      BY <1>0, <3>1 DEF Validate
    <3>2. CASE ~Validate(op)
      <4>1. admitted'[op] = admitted[op]
        <5>1. ASSUME NEW o \in Cancels, ServiceStep(o) PROVE admitted'[op] = admitted[op]
          <6>1. CASE Validate(o)
            <7>1. o # op
              BY <3>2, <6>1
            <7>2. QED
              BY <1>0, <6>1, <7>1 DEF Validate
          <6>2. QED
            BY <5>1, <6>1 DEF ServiceStep, Receive, Refuse, Replay, RejectOutsideWindow, ReconcileAbandoned, journalVars
        <5>2. CASE RunnerAlone \/ FreezeOwner \/ WatcherStep \/ (\E d, m \in BOOLEAN : DeliverAmbiguous(d, m)) \/ MainStep \/ CloseTimesOut
          BY <5>2 DEF RunnerAlone, FreezeOwner, WatcherStep, PickUp, Observe, Reconcile, Claim, Deliver, DeliverIneligible,
                ReadWatermark, Drained, DeliverAmbiguous, MainStep, BeginClose, Retire, CloseFails, CloseTimesOut, boxVars, journalVars
        <5>3. QED
          BY <5>1, <5>2 DEF CancelNext
      <4>2. status[op] \in {"NONE", "VALIDATING", "REFUSED"}
        BY <2>2, <2>4, <4>1
      <4>3. RecordMoves(op)
        BY <1>0, StatusSteps
      <4>4. CASE status'[op] = status[op] \/ status[op] # "VALIDATING"
        BY <4>2, <4>3, <4>4 DEF RecordMoves
      <4>5. CASE status'[op] # status[op] /\ status[op] = "VALIDATING"
        <5>1. ~Receive(op, FALSE) /\ ~Receive(op, TRUE)
          BY <2>2 DEF Receive
        <5>2. status'[op] \in {"RECEIVED", "RESERVED", "REFUSED"}
          BY <4>3, <4>5 DEF RecordMoves
        <5>3. status'[op] \notin {"RECEIVED", "RESERVED"}
          <6>1. ASSUME NEW o \in Cancels, ServiceStep(o) PROVE status'[op] \notin {"RECEIVED", "RESERVED"}
            <7>1. CASE o = op
              BY <1>0, <4>5, <5>1, <6>1, <7>1 DEF ServiceStep, Validate, Refuse, Replay, RejectOutsideWindow, ReconcileAbandoned, Verdict
            <7>2. CASE o # op
              BY <1>0, <4>5, <6>1, <7>2 DEF ServiceStep, Validate, Receive, Refuse, Replay, RejectOutsideWindow, ReconcileAbandoned
            <7>3. QED
              BY <7>1, <7>2
          <6>2. ASSUME NEW o \in Cancels, Observe(o) \/ Reconcile(o) PROVE status'[op] \notin {"RECEIVED", "RESERVED"}
            BY <1>0, <4>5, <6>2 DEF Observe, Reconcile, Verdict
          <6>3. CASE Claim \/ DeliverIneligible
            BY <1>0, <4>5, <6>3 DEF Claim, DeliverIneligible, Delivering
          <6>4. ASSUME NEW d \in BOOLEAN, NEW m \in BOOLEAN, DeliverAmbiguous(d, m) PROVE status'[op] \notin {"RECEIVED", "RESERVED"}
            BY <1>0, <4>5, <6>4 DEF DeliverAmbiguous, Delivering
          <6>5. CASE RunnerAlone \/ FreezeOwner \/ (\E o \in Cancels : PickUp(o)) \/ Deliver \/ ReadWatermark \/ Drained
                     \/ MainStep \/ CloseTimesOut
            BY <4>5, <6>5 DEF RunnerAlone, FreezeOwner, PickUp, Deliver, ReadWatermark, Drained, MainStep, BeginClose, Retire,
                              CloseFails, CloseTimesOut, boxVars
          <6>6. QED
            BY <6>1, <6>2, <6>3, <6>4, <6>5 DEF CancelNext, WatcherStep
        <5>4. QED
          BY <5>2, <5>3
      <4>6. QED
        BY <4>4, <4>5
    <3>3. QED
      BY <3>1, <3>2
  <2>5. pc' = "returned" /\ Marks(ledger') = Marks(ledger)
    <3>1. ledger' = ledger \/ Requests
      BY <1>0, <2>2, ReturnedStays, LedgerSteps
    <3>2. ASSUME Requests PROVE Marks(ledger') = Marks(ledger)
      <4>1. ledger' = Append(ledger, CancelRequestEvent(item)) /\ CancelRequestEvent(item) \in Event /\ CancelRequestEvent(item).to = ""
        BY <1>0, <3>2, EventFacts DEF Requests, Delivering, CancelRequestEvent
      <4>2. QED
        BY <1>0, <4>1, MarksOfAppend
    <3>3. QED
      BY <2>2, <3>1, <3>2, ReturnedStays
  <2>6. QED
    BY <2>2, <2>3, <2>4, <2>5
<1>3. CASE i \notin DOMAIN ledger
  <2>1. ledger' # ledger
    BY <1>3
  <2>a. ASSUME NEW e \in Event, ledger' = Append(ledger, e) PROVE i = Len(ledger) + 1 /\ ledger'[i] = e
    <3>1. DOMAIN ledger' = 1..(Len(ledger) + 1) /\ ledger'[Len(ledger) + 1] = e
      BY <1>0, <2>a, AppendFacts
    <3>2. i = Len(ledger) + 1
      BY <1>0, <1>3, <3>1
    <3>3. QED
      BY <3>1, <3>2
  <2>2. ~Requests
    <3>1. SUFFICES ASSUME Requests PROVE FALSE
      OBVIOUS
    <3>2. ledger' = Append(ledger, CancelRequestEvent(item)) /\ CancelRequestEvent(item) \in Event /\ CancelRequestEvent(item).to = ""
      BY <1>0, <3>1, EventFacts DEF Requests, Delivering, CancelRequestEvent
    <3>3. QED
      BY <1>1, <2>a, <3>2
  <2>3. ~Create
    <3>1. SUFFICES ASSUME Create PROVE FALSE
      OBVIOUS
    <3>2. ledger' = Append(ledger, CreatedEvent) /\ CreatedEvent \in Event /\ CreatedEvent.to = "RUN_CREATED"
      BY <3>1, EventFacts DEF Create, CreatedEvent
    <3>3. QED
      BY <1>1, <2>a, <3>2
  <2>4. PICK e \in Event : Selects(e)
    BY <1>0, <2>1, <2>2, <2>3, LedgerSteps
  <2>5. ledger' = Append(ledger, e) /\ UNCHANGED boxVars
    BY <2>4 DEF Selects
  <2>6. i = Len(ledger) + 1 /\ ledger'[i] = e
    BY <2>a, <2>5
  <2>7. e.to = "BRANCH_ACCEPTED"
    BY <1>1, <2>6
  <2>8. owner'.state # "ACTIVE"
    BY <2>4, <2>5, <2>7 DEF Selects, boxVars
  <2>9. ASSUME NEW op \in Cancels PROVE admitted'[op] # i
    <3>1. admitted'[op] = admitted[op] /\ admitted[op] <= Len(ledger) /\ admitted[op] \in Nat
      BY <1>0, <2>5 DEF boxVars, Numbered
    <3>2. QED
      BY <1>0, <2>6, <3>1
  <2>10. pc' = "returned"
    BY <2>4, <2>7 DEF Selects
  <2>11. \A k \in Marks(ledger') : k <= i
    <3>1. \A k \in Marks(ledger) : k <= Len(ledger) /\ k \in Nat
      BY <1>0, LedgerFacts
    <3>2. \A k \in Marks(ledger') : k \in Marks(ledger) \/ k = Len(ledger) + 1
      BY <1>0, PositionsStay
    <3>3. QED
      BY <1>0, <2>6, <3>1, <3>2
  <2>12. QED
    BY <2>8, <2>9, <2>10, <2>11
<1>4. QED
  BY <1>2, <1>3

(* deliver finds the state advanced, or nothing it may deliver, once the   *)
(* run was accepted.                                                       *)
LEMMA NoRequestKeeps ==
  ASSUME CancelInv, SuccessSane, NoRequestAfterSuccess, CancelNext
  PROVE  NoRequestAfterSuccess'
<1>0. /\ ledger \in Seq(Event) /\ Len(ledger) \in Nat /\ DOMAIN ledger = 1..Len(ledger) /\ HasLatest(ledger)
      /\ CancelTypeOK /\ RunnerSane /\ item \in Cancels \cup {NoOp}
  BY LedgerFacts DEF CancelInv, CancelTypeOK, RunTypeOK, RunnerSane
<1>1. SUFFICES ASSUME NEW i \in DOMAIN ledger', ledger'[i].to = "BRANCH_ACCEPTED",
                      NEW j \in DOMAIN ledger', ledger'[j].kind = "API_CANCEL_REQUESTED"
               PROVE  j < i
  BY DEF NoRequestAfterSuccess
<1>2. CASE ledger' = ledger
  BY <1>1, <1>2 DEF NoRequestAfterSuccess
<1>3. ASSUME NEW e \in Event, ledger' = Append(ledger, e), e.kind # "API_CANCEL_REQUESTED"
      PROVE  j < i
  <2>1. /\ DOMAIN ledger' = 1..(Len(ledger) + 1) /\ ledger'[Len(ledger) + 1] = e
        /\ \A k \in DOMAIN ledger : ledger'[k] = ledger[k]
    BY <1>0, <1>3, AppendFacts
  <2>2. j \in DOMAIN ledger /\ ledger[j].kind = "API_CANCEL_REQUESTED" /\ j \in Nat /\ j <= Len(ledger)
    BY <1>0, <1>1, <1>3, <2>1
  <2>3. CASE i \in DOMAIN ledger
    BY <1>1, <2>1, <2>2, <2>3 DEF NoRequestAfterSuccess
  <2>4. CASE i \notin DOMAIN ledger
    BY <1>0, <2>1, <2>2, <2>4
  <2>5. QED
    BY <2>3, <2>4
<1>4. CASE Create
  <2>1. CreatedEvent \in Event /\ CreatedEvent.kind = "RUN_CREATED" /\ ledger' = Append(ledger, CreatedEvent)
    BY <1>4, EventFacts DEF CreatedEvent, Create
  <2>2. QED
    BY <1>3, <2>1
<1>5. ASSUME NEW e \in Event, Selects(e) PROVE j < i
  <2>1. ledger' = Append(ledger, e) /\ e.kind # "API_CANCEL_REQUESTED"
    BY <1>5 DEF Selects
  <2>2. QED
    BY <1>3, <2>1
<1>6. CASE Requests
  <2>1. /\ ledger' = Append(ledger, CancelRequestEvent(item)) /\ CancelRequestEvent(item) \in Event
        /\ CancelRequestEvent(item).to = "" /\ item \in Cancels
    BY <1>0, <1>6, EventFacts DEF Requests, Delivering, CancelRequestEvent
  <2>2. /\ DOMAIN ledger' = 1..(Len(ledger) + 1) /\ ledger'[Len(ledger) + 1] = CancelRequestEvent(item)
        /\ \A k \in DOMAIN ledger : ledger'[k] = ledger[k]
    BY <1>0, <2>1, AppendFacts
  <2>3. i \in DOMAIN ledger /\ ledger[i].to = "BRANCH_ACCEPTED"
    <3>1. i # Len(ledger) + 1
      BY <1>1, <2>1, <2>2
    <3>2. i \in DOMAIN ledger
      BY <1>0, <2>2, <3>1
    <3>3. QED
      BY <1>1, <2>2, <3>2
  <2>4. LatestTransition(ledger) = i
    <3>0. i \in Marks(ledger)
      BY <2>3, Zenon DEF Marks
    <3>1. i \in Marks(ledger) /\ i \in Nat
      BY <1>0, <3>0, LedgerFacts
    <3>2. /\ \A k \in Marks(ledger) : k <= LatestTransition(ledger) /\ LatestTransition(ledger) \in Marks(ledger)
          /\ LatestTransition(ledger) \in Nat
      BY <1>0, <3>1, LatestFacts
    <3>3. \A k \in Marks(ledger) : k <= i
      BY <2>3 DEF SuccessSane
    <3>4. i <= LatestTransition(ledger) /\ LatestTransition(ledger) <= i
      BY <3>1, <3>2, <3>3, Zenon
    <3>5. QED
      BY <3>1, <3>2, <3>4
  <2>5. admitted[item] = i /\ status[item] = "CLAIMED"
    BY <1>6, <2>4 DEF Requests, Delivering, Deliverable, SnapshotMatches
  <2>6. QED
    BY <2>1, <2>3, <2>5 DEF SuccessSane
<1>7. QED
  BY <1>0, <1>2, <1>4, <1>5, <1>6, LedgerSteps

(* Once a successful final transition closed the owner, no cancel request  *)
(* is appended behind it.                                                  *)
THEOREM SuccessIsOutOfReach == CancelSpec => []NoRequestAfterSuccess
<1>1. CancelInit => SuccessInv
  <2>1. SUFFICES ASSUME CancelInit PROVE SuccessSane /\ NoRequestAfterSuccess
    BY CancelStarts DEF SuccessInv
  <2>2. DOMAIN ledger = {}
    <3>1. ledger = <<>>
      BY <2>1 DEF CancelInit, RunInit
    <3>2. DOMAIN <<>> = {}
      OBVIOUS
    <3>3. QED
      BY <3>1, <3>2, Zenon
  <2>3. QED
    BY <2>2 DEF SuccessSane, NoRequestAfterSuccess
<1>2. SuccessInv /\ [CancelNext]_cancelVars => SuccessInv'
  <2>1. ASSUME SuccessInv, CancelNext PROVE SuccessInv'
    BY <2>1, CancelStep, SuccessKeeps, NoRequestKeeps DEF SuccessInv
  <2>2. ASSUME SuccessInv, UNCHANGED cancelVars PROVE SuccessInv'
    <3>1. UNCHANGED <<ledger, owner, pc, admitted, status>>
      BY <2>2 DEF cancelVars, runVars, boxVars
    <3>2. SuccessSane' /\ NoRequestAfterSuccess'
      BY <2>2, <3>1 DEF SuccessInv, SuccessSane, NoRequestAfterSuccess
    <3>3. QED
      BY <2>2, <3>2, CancelStutters DEF SuccessInv
  <2>3. QED
    BY <2>1, <2>2
<1>3. SuccessInv => NoRequestAfterSuccess
  BY DEF SuccessInv
<1>4. QED
  BY <1>1, <1>2, <1>3, PTL DEF CancelSpec

-----------------------------------------------------------------------------
(* The ledger implements the abstract run history.                         *)

\* The states the refinement mapping keeps as milestones.
Kept == {"AUTHORITY_VALIDATED", "IMPLEMENTATION_COMPLETED", "BRANCH_ACCEPTED", "INTEGRATION_ACCEPTED",
         "READY_FOR_MERGE", "MERGED", "PRODUCTION_ACCEPTED"}
Reached(l) == {l[i].to : i \in Marks(l)} \cap Kept

(* The abstract history and the runner use the same table.                 *)
LEMMA SameTable ==
  ASSUME NEW from, NEW to
  PROVE  ValidateTransition(from, to) <=> History!ValidateTransition(from, to)
  BY Zenon DEF ValidateTransition, Successors, Stop, State, History!ValidateTransition, History!Successors, History!Stop, History!State

(* An appended mark adds its state to what the run has reached, any other  *)
(* event adds nothing.                                                     *)
LEMMA ReachedOfAppend ==
  ASSUME NEW l \in Seq(Event), NEW e \in Event
  PROVE  Reached(Append(l, e)) = Reached(l) \cup (IF e.to # "" THEN {e.to} \cap Kept ELSE {})
<1> DEFINE m == Append(l, e)
<1>1. /\ m \in Seq(Event) /\ Len(l) \in Nat
      /\ DOMAIN l = 1..Len(l) /\ DOMAIN m = 1..(Len(l) + 1)
      /\ \A i \in DOMAIN l : m[i] = l[i] /\ l[i] \in Event
      /\ m[Len(l) + 1] = e
  BY AppendFacts
<1>2. Marks(m) = Marks(l) \cup (IF e.to # "" THEN {Len(l) + 1} ELSE {})
  BY MarksOfAppend
<1>3. \A i \in Marks(l) : i \in DOMAIN l
  BY DEF Marks
<1> HIDE DEF m
<1>4. \A i \in Marks(l) : m[i] = l[i]
  BY <1>1, <1>3
<1>5. CASE e.to # ""
  <2>1. Marks(m) = Marks(l) \cup {Len(l) + 1} /\ m[Len(l) + 1].to = e.to
    BY <1>1, <1>2, <1>5
  <2>2. {m[i].to : i \in Marks(m)} = {l[i].to : i \in Marks(l)} \cup {e.to}
    BY <1>4, <2>1, Zenon
  <2>3. Reached(m) = Reached(l) \cup ({e.to} \cap Kept)
    BY <2>2, Zenon DEF Reached
  <2>4. QED
    BY <1>5, <2>3 DEF m
<1>6. CASE e.to = ""
  <2>1. Marks(m) = Marks(l)
    BY <1>2, <1>6
  <2>2. {m[i].to : i \in Marks(m)} = {l[i].to : i \in Marks(l)}
    BY <1>4, <2>1, Zenon
  <2>3. Reached(m) = Reached(l)
    BY <2>2, Zenon DEF Reached
  <2>4. QED
    BY <1>6, <2>3 DEF m
<1>7. QED
  BY <1>5, <1>6

(* A new run has no state and has reached nothing.                         *)
LEMMA HistoryStarts ==
  ASSUME CancelInit
  PROVE  History!Init
<1>1. Marks(ledger) = {}
  <2>1. ledger = <<>>
    BY DEF CancelInit, RunInit
  <2>2. DOMAIN <<>> = {}
    OBVIOUS
  <2>3. QED
    BY <2>1, <2>2, Zenon DEF Marks
<1>2. CurrentState(ledger) = "" /\ {ledger[i].to : i \in Marks(ledger)} = {}
  BY <1>1, Zenon DEF CurrentState
<1>3. QED
  BY <1>2 DEF History!Init

(* A step of the cancel action is a step of the history or leaves it as it *)
(* is.                                                                     *)
LEMMA HistoryStep ==
  ASSUME CancelInv, CancelNext
  PROVE  History!Next \/ UNCHANGED History!hvars
<1>0. ledger \in Seq(Event) /\ HasLatest(ledger) /\ CancelTypeOK /\ RunnerSane /\ item \in Cancels \cup {NoOp}
  BY DEF CancelInv, CancelTypeOK, RunTypeOK, RunnerSane
<1>1. CASE ledger' = ledger
  BY <1>1 DEF History!hvars
<1>2. CASE Create /\ ledger = <<>>
  <2>1. ledger' = Append(ledger, CreatedEvent) /\ CreatedEvent \in Event /\ CreatedEvent.to = "RUN_CREATED"
    BY <1>2, EventFacts DEF Create, CreatedEvent
  <2>2. Marks(ledger) = {}
    <3>1. DOMAIN <<>> = {}
      OBVIOUS
    <3>2. QED
      BY <1>2, <3>1, Zenon DEF Marks
  <2>3. CurrentState(ledger) = ""
    BY <2>2 DEF CurrentState
  <2>4. CurrentState(ledger') = "RUN_CREATED"
    BY <1>0, <2>1, LatestOfAppend
  <2>5. Reached(ledger') = Reached(ledger)
    <3>1. Reached(ledger') = Reached(ledger) \cup ({"RUN_CREATED"} \cap Kept)
      BY <1>0, <2>1, ReachedOfAppend
    <3>2. QED
      BY <3>1 DEF Kept
  <2>6. QED
    BY <2>3, <2>4, <2>5 DEF History!Next, History!Create, Reached, Kept
<1>3. ASSUME NEW e \in Event, Selects(e) PROVE History!Next
  <2>1. ledger' = Append(ledger, e) /\ ValidateTransition(CurrentState(ledger), e.to)
    BY <1>3 DEF Selects
  <2>2. e.to \in State /\ e.to # ""
    BY <2>1 DEF ValidateTransition, State
  <2>3. CurrentState(ledger') = e.to
    BY <1>0, <2>1, <2>2, LatestOfAppend
  <2>4. Reached(ledger') = Reached(ledger) \cup ({e.to} \cap Kept)
    BY <1>0, <2>1, <2>2, ReachedOfAppend
  <2>5. History!ValidateTransition(CurrentState(ledger), e.to) /\ e.to \in History!State
    BY <2>1, <2>2, SameTable DEF State, History!State
  <2>6. History!Advance(e.to)
    BY <2>3, <2>4, <2>5 DEF History!Advance, History!Milestone, Reached, Kept
  <2>7. QED
    BY <2>5, <2>6 DEF History!Next
<1>4. CASE Requests
  <2>1. ledger' = Append(ledger, CancelRequestEvent(item)) /\ CancelRequestEvent(item) \in Event /\ CancelRequestEvent(item).to = ""
    BY <1>0, <1>4, EventFacts DEF Requests, Delivering, CancelRequestEvent
  <2>2. CurrentState(ledger') = CurrentState(ledger) /\ Reached(ledger') = Reached(ledger)
    BY <1>0, <2>1, LatestOfAppend, ReachedOfAppend
  <2>3. QED
    BY <2>2 DEF History!hvars, Reached, Kept
<1>5. QED
  BY <1>0, <1>1, <1>2, <1>3, <1>4, LedgerSteps

(* The ledger the runner, the watcher and their failures write is a run of *)
(* the abstract history: created once, moving only along the table.        *)
THEOREM LedgerImplementsHistory == CancelSpec => ImplementsHistory
<1>1. CancelInit => History!Init
  BY HistoryStarts
<1>2. CancelInv /\ [CancelNext]_cancelVars => [History!Next]_(History!hvars)
  <2>1. ASSUME CancelInv, CancelNext PROVE [History!Next]_(History!hvars)
    BY <2>1, HistoryStep
  <2>2. ASSUME UNCHANGED cancelVars PROVE [History!Next]_(History!hvars)
    BY <2>2 DEF cancelVars, runVars, History!hvars
  <2>3. QED
    BY <2>1, <2>2
<1>3. QED
  BY <1>1, <1>2, CancelInvariant, PTL DEF CancelSpec, ImplementsHistory, History!Spec
=============================================================================
