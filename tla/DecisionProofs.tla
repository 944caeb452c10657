---------------------------- MODULE DecisionProofs ----------------------------
(***************************************************************************)
(* The human-decision action's safety, proved for any number of cancels,   *)
(* decisions, pauses, generations and failures of the run process and of   *)
(* the service.                                                            *)
(*                                                                         *)
(* CancelProofs' invariant holds here too: a decision step leaves the      *)
(* cancel mailbox alone but for an answer event, which sets no state, and  *)
(* a resumed process starts with an empty watcher under a new lease        *)
(* (BesidesKeeps, ResumeKeeps).  On top of it, DecisionInv relates each    *)
(* recorded answer to the record and the worker of its decision, and what  *)
(* a resumed runner has decided to the one answer it read.                 *)
(***************************************************************************)
EXTENDS HumanDecision, CancelProofs

\* What the effects of a recorded answer rest on: it names its decision, and
\* the decision's record is past its claim.
AnswersSane ==
  \A i \in DOMAIN ledger : ledger[i].kind = "API_HUMAN_DECISION_RECORDED" =>
    /\ ledger[i].op \in Decisions
    /\ ledger[i].ref = ref[ledger[i].op] /\ ledger[i].ans = ans[ledger[i].op] /\ ledger[i].ref < i
    /\ status[ledger[i].op] \in {"CLAIMED", "RECONCILIATION_REQUIRED", "APPLIED", "RECONCILED_APPLIED"}

\* Where a worker is says where its record is, and what it has appended.
WorkSane ==
  \A d \in Decisions :
    /\ work[d] \in {"claimed", "recorded"} => status[d] = "CLAIMED"
    /\ work[d] = "recorded" \/ status[d] \in AppliedStatus =>
         \E i \in AnswersTo(ledger, ref[d]) : ledger[i].op = d /\ ledger[i].ans = ans[d]

\* A run pauses with a blocker event only.
PausesSane == \A i \in DOMAIN ledger : ledger[i].to = "HUMAN_DECISION_REQUIRED" => i \in Blockers(ledger)

\* What a resumed runner decided is what the answer to its one pause says.
ResumeSane ==
  at = "HUMAN_DECISION_REQUIRED" /\ pc \in {"commit", "frozen"} =>
    /\ intent.how = "plain"
    /\ \E b \in Blockers(ledger) : \E i \in AnswersTo(ledger, b) :
         /\ Blockers(ledger) = {b}
         /\ intent.to = (IF ledger[i].ans = "proceed" THEN "AUTHORITY_VALIDATED" ELSE "FAILED")

\* The inductive invariant.
DecisionInv ==
  /\ CancelInv /\ DecisionTypeOK /\ AnswersSane /\ WorkSane /\ PausesSane /\ ResumeSane
  /\ OneAnswerPerBlocker /\ ResumeFollowsTheAnswer

-----------------------------------------------------------------------------
(* The cancel mailbox under the decision action.                           *)

\* A step that leaves the mailbox and the runner alone but for an answer.
Besides ==
  /\ UNCHANGED <<profile, proc, resumed, at, pc, intent, retried, ctx, gen, owner, leaseOf, watcherVars>>
  /\ \A op \in Cancels : status'[op] = status[op] /\ seq'[op] = seq[op] /\ admitted'[op] = admitted[op]
  /\ \/ ledger' = ledger
     \/ \E e \in Event : /\ e.kind = "API_HUMAN_DECISION_RECORDED" /\ e.to = "" /\ ledger # <<>>
                         /\ ledger' = Append(ledger, e)

(* An answer sets no state, and is neither a request nor a transition.     *)
LEMMA AnswerLedger ==
  ASSUME NEW l \in Seq(Event), HasLatest(l), NEW e \in Event
  PROVE  e.kind = "API_HUMAN_DECISION_RECORDED" /\ e.to = "" =>
         /\ HasLatest(Append(l, e)) /\ Marks(Append(l, e)) = Marks(l) /\ CurrentState(Append(l, e)) = CurrentState(l)
         /\ LatestTransition(Append(l, e)) = LatestTransition(l) /\ Blockers(Append(l, e)) = Blockers(l)
         /\ Append(l, e) # <<>>
         /\ \A i \in DOMAIN l : i \in DOMAIN Append(l, e) /\ Append(l, e)[i] = l[i]
         /\ \A op : RequestsOf(Append(l, e), op) = RequestsOf(l, op)
         /\ \A op : TransitionsOf(Append(l, e), op) = TransitionsOf(l, op)
<1>1. /\ HasLatest(Append(l, e))
      /\ e.to = "" => /\ CurrentState(Append(l, e)) = CurrentState(l)
                      /\ LatestTransition(Append(l, e)) = LatestTransition(l)
  BY LatestOfAppend
<1>2. e.to = "" => Marks(Append(l, e)) = Marks(l)
  BY MarksOfAppend
<1>a. /\ Len(l) \in Nat /\ DOMAIN l = 1..Len(l) /\ DOMAIN Append(l, e) = 1..(Len(l) + 1)
      /\ \A i \in DOMAIN l : Append(l, e)[i] = l[i]
  BY AppendFacts
<1>3. Append(l, e) # <<>>
  <2>1. Len(l) + 1 \in DOMAIN Append(l, e)
    BY <1>a
  <2>2. DOMAIN <<>> = {}
    OBVIOUS
  <2>3. QED
    BY <2>1, <2>2, Zenon
<1>4. \A i \in DOMAIN l : i \in DOMAIN Append(l, e) /\ Append(l, e)[i] = l[i]
  BY <1>a
<1>5. \A x : Blockers(Append(l, e)) = Blockers(l) \cup (IF e.kind = "BLOCKER_DECISION_RECORDED" THEN {Len(l) + 1} ELSE {})
  BY KindsOfAppend, Zenon
<1>6. \A op : RequestsOf(Append(l, e), op) =
                RequestsOf(l, op) \cup (IF e.kind = "API_CANCEL_REQUESTED" /\ e.op = op THEN {Len(l) + 1} ELSE {})
  BY KindsOfAppend, Zenon
<1>7. \A op : TransitionsOf(Append(l, e), op) =
                TransitionsOf(l, op) \cup (IF e.kind = "STATE_TRANSITION" /\ e.op = op THEN {Len(l) + 1} ELSE {})
  BY KindsOfAppend, Zenon
<1>8. ASSUME e.kind = "API_HUMAN_DECISION_RECORDED"
      PROVE  /\ Blockers(Append(l, e)) = Blockers(l)
             /\ \A op : RequestsOf(Append(l, e), op) = RequestsOf(l, op)
             /\ \A op : TransitionsOf(Append(l, e), op) = TransitionsOf(l, op)
  BY <1>5, <1>6, <1>7, <1>8
<1>9. QED
  BY <1>1, <1>2, <1>3, <1>4, <1>8

(* So such a step leaves what the ledger says of cancels alone.            *)
LEMMA BesidesLedger ==
  ASSUME CancelTypeOK, RunnerSane, Besides
  PROVE  /\ HasLatest(ledger') /\ Marks(ledger') = Marks(ledger) /\ CurrentState(ledger') = CurrentState(ledger)
         /\ ledger' = <<>> <=> ledger = <<>>
         /\ \A i \in DOMAIN ledger : i \in DOMAIN ledger' /\ ledger'[i] = ledger[i]
         /\ \A op : RequestsOf(ledger', op) = RequestsOf(ledger, op) /\ TransitionsOf(ledger', op) = TransitionsOf(ledger, op)
<1>0. ledger \in Seq(Event) /\ HasLatest(ledger)
  BY DEF CancelTypeOK, RunTypeOK, RunnerSane
<1>1. CASE ledger' = ledger
  BY <1>0, <1>1
<1>2. ASSUME NEW e \in Event, e.kind = "API_HUMAN_DECISION_RECORDED", e.to = "", ledger # <<>>, ledger' = Append(ledger, e)
      PROVE  /\ HasLatest(ledger') /\ Marks(ledger') = Marks(ledger) /\ CurrentState(ledger') = CurrentState(ledger)
             /\ ledger' # <<>> /\ \A i \in DOMAIN ledger : i \in DOMAIN ledger' /\ ledger'[i] = ledger[i]
             /\ \A op : RequestsOf(ledger', op) = RequestsOf(ledger, op) /\ TransitionsOf(ledger', op) = TransitionsOf(ledger, op)
  <2>1. /\ HasLatest(Append(ledger, e)) /\ Marks(Append(ledger, e)) = Marks(ledger)
        /\ CurrentState(Append(ledger, e)) = CurrentState(ledger) /\ Append(ledger, e) # <<>>
        /\ \A i \in DOMAIN ledger : i \in DOMAIN Append(ledger, e) /\ Append(ledger, e)[i] = ledger[i]
        /\ \A op : RequestsOf(Append(ledger, e), op) = RequestsOf(ledger, op)
        /\ \A op : TransitionsOf(Append(ledger, e), op) = TransitionsOf(ledger, op)
    BY <1>0, <1>2, AnswerLedger
  <2>2. QED
    BY <1>2, <2>1
<1>3. QED
  BY <1>1, <1>2 DEF Besides

(* And it keeps the invariant of the cancel action.                        *)
LEMMA BesidesKeeps ==
  ASSUME CancelInv, Besides, CancelTypeOK', Numbered'
  PROVE  CancelInv'
<1>0. /\ CancelTypeOK /\ Numbered /\ RunnerSane /\ Begun /\ DrainSane /\ RequestsSane
      /\ CancelOutcomesAreTrue /\ DeliveredInsideWindow /\ CauseDecides
  BY DEF CancelInv
<1>1. /\ HasLatest(ledger') /\ Marks(ledger') = Marks(ledger) /\ CurrentState(ledger') = CurrentState(ledger)
      /\ ledger' = <<>> <=> ledger = <<>>
      /\ \A i \in DOMAIN ledger : i \in DOMAIN ledger' /\ ledger'[i] = ledger[i]
      /\ \A op : RequestsOf(ledger', op) = RequestsOf(ledger, op) /\ TransitionsOf(ledger', op) = TransitionsOf(ledger, op)
  BY <1>0, BesidesLedger
<1>2. UNCHANGED <<resumed, at, pc, intent, ctx, gen, owner, leaseOf, watcher, item, through>>
  BY DEF Besides, watcherVars
<1>3. \A op \in Cancels : status'[op] = status[op] /\ seq'[op] = seq[op] /\ admitted'[op] = admitted[op]
  BY DEF Besides
<1>4. \A i, j : NoMarkBetween(ledger', i, j) <=> NoMarkBetween(ledger, i, j)
  BY <1>1 DEF NoMarkBetween
<1>5. Begun'
  BY <1>0, <1>1, <1>3 DEF Begun
<1>7. DrainSane'
  BY <1>0, <1>2, <1>3 DEF DrainSane, Undrained
<1>8. RequestsSane'
  BY <1>0, <1>1, <1>2, <1>3 DEF RequestsSane
<1>9. CancelOutcomesAreTrue'
  <2>1. \A op \in Cancels : \A t \in TransitionsOf(ledger, op) : t \in DOMAIN ledger
    BY DEF TransitionsOf
  <2>2. QED
    BY <1>0, <1>1, <1>3, <1>4, <2>1 DEF CancelOutcomesAreTrue
<1>10. DeliveredInsideWindow'
  BY <1>0, <1>1, <1>2, <1>3, <1>4 DEF DeliveredInsideWindow
<1>11. CauseDecides'
  <2>1. \A t \in Marks(ledger) : t \in DOMAIN ledger
    BY DEF Marks
  <2>2. QED
    BY <1>0, <1>1, <1>2, <2>1 DEF CauseDecides
<1>12. RunnerSane'
  BY <1>0, <1>1, <1>2 DEF RunnerSane, IntentSane
<1>13. QED
  BY <1>5, <1>7, <1>8, <1>9, <1>10, <1>11, <1>12 DEF CancelInv

-----------------------------------------------------------------------------
(* What a step of the decision service does.                               *)

\* Every step of one decision but the re-launch of the run.
DecisionStep(d) ==
  \/ \E b \in Blockers(ledger), a \in Answer : ValidateDecision(d, b, a)
  \/ ReceiveDecision(d, FALSE) \/ ReceiveDecision(d, TRUE) \/ RefuseDecision(d) \/ ReplayDecision(d) \/ Enqueue(d)
  \/ ClaimDecision(d) \/ Record(d) \/ RecordFails(d, FALSE) \/ RecordFails(d, TRUE)
  \/ GiveUp(d) \/ Settle(d) \/ ReconcileDecision(d) \/ ResumeBeyondBound(d)

\* The worker of d appends its answer, behind the pause it answers.
Answers(d) ==
  /\ work[d] = "claimed" /\ status[d] = "CLAIMED" /\ OpenBlocker(ref[d])
  /\ DecisionEvent(d, ref[d], ans[d]) \in Event
  /\ ledger' = Append(ledger, DecisionEvent(d, ref[d], ans[d]))
  /\ status'[d] \in {"CLAIMED", "RECONCILIATION_REQUIRED"}
  /\ UNCHANGED <<ref, ans>>

\* How the record and the worker of one decision may move in a step.
DecisionMoves(d) ==
  \/ status[d] = "NONE" /\ status'[d] = "VALIDATING" /\ work'[d] = work[d]
  \/ /\ ref'[d] = ref[d] /\ ans'[d] = ans[d]
     /\ \/ status'[d] = status[d] /\ work'[d] \in {work[d], "none", "queued"}
        \/ status[d] \in {"VALIDATING", "RESERVED"} /\ status'[d] \in {"RECEIVED", "RESERVED", "REFUSED"}
           /\ work'[d] \in {work[d], "queued"}
        \/ status[d] = "RECEIVED" /\ status'[d] = "CLAIMED" /\ work'[d] = "claimed"
        \/ status[d] = "RECEIVED" /\ status'[d] = "REJECTED" /\ work'[d] = "none"
        \/ Answers(d) /\ status'[d] = "CLAIMED" /\ work'[d] = "recorded"
        \/ status[d] = "CLAIMED" /\ status'[d] = "RECONCILIATION_REQUIRED" /\ work'[d] = "queued"
        \/ work[d] = "recorded" /\ status'[d] = "APPLIED" /\ work'[d] = "resuming"
        \/ /\ status[d] = "RECONCILIATION_REQUIRED" /\ work'[d] = "none"
           /\ status'[d] = IF \E i \in AnswersTo(ledger, ref[d]) : ledger[i].op = d
                           THEN "RECONCILED_APPLIED" ELSE "RECONCILED_NOT_APPLIED"

(* An answer is an event, and a paused run has a ledger.                   *)
LEMMA AnswerFacts ==
  ASSUME DecisionTypeOK, NEW d \in Decisions
  PROVE  /\ DecisionEvent(d, ref[d], ans[d]) \in Event
         /\ DecisionEvent(d, ref[d], ans[d]).kind = "API_HUMAN_DECISION_RECORDED"
         /\ DecisionEvent(d, ref[d], ans[d]).to = ""
         /\ DecisionEvent(d, ref[d], ans[d]).op = d /\ DecisionEvent(d, ref[d], ans[d]).ref = ref[d]
         /\ DecisionEvent(d, ref[d], ans[d]).ans = ans[d]
         /\ OpenBlocker(ref[d]) => ledger # <<>>
<1>1. ref[d] \in Nat /\ ans[d] \in Answer /\ d \in Ops
  BY DEF DecisionTypeOK, Ops
<1>2. OpenBlocker(ref[d]) => ledger # <<>>
  <2>1. DOMAIN <<>> = {}
    OBVIOUS
  <2>2. QED
    BY <2>1, Zenon DEF OpenBlocker, Blockers
<1>3. QED
  BY <1>1, <1>2 DEF DecisionEvent, Event, Kind, Source

(* The decision steps leave the cancel mailbox and the runner alone.       *)
LEMMA StepsBesides ==
  ASSUME DecisionTypeOK, (\E d \in Decisions : DecisionStep(d)) \/ ServeCrash
  PROVE  Besides
<1>0. /\ status \in [Ops -> Status] /\ seq \in [Ops -> Nat] /\ admitted \in [Ops -> Nat]
      /\ Cancels \subseteq Ops /\ Decisions \subseteq Ops /\ \A op \in Cancels : op \notin Decisions
  BY OpsAssumption DEF DecisionTypeOK, CancelTypeOK, Ops
<1>1. CASE ServeCrash
  BY <1>1 DEF ServeCrash, Besides, boxVars, watcherVars
<1>2. ASSUME NEW d \in Decisions, DecisionStep(d)
      PROVE  Besides
  <2>0. \A op \in Cancels : op # d
    BY <1>0
  <2>1. CASE \E b \in Blockers(ledger), a \in Answer : ValidateDecision(d, b, a)
    BY <1>0, <2>0, <2>1 DEF ValidateDecision, Besides, runVars, watcherVars
  <2>2. CASE ReceiveDecision(d, FALSE) \/ ReceiveDecision(d, TRUE)
    BY <1>0, <2>0, <2>2 DEF ReceiveDecision, Besides, watcherVars
  <2>3. CASE RefuseDecision(d) \/ ReplayDecision(d)
    BY <1>0, <2>0, <2>3 DEF RefuseDecision, ReplayDecision, Besides, runVars, journalVars, watcherVars
  <2>4. CASE Enqueue(d) \/ ResumeBeyondBound(d)
    BY <2>4 DEF Enqueue, ResumeBeyondBound, Besides, runVars, boxVars, watcherVars
  <2>5. CASE ClaimDecision(d) \/ Settle(d) \/ ReconcileDecision(d)
    BY <1>0, <2>0, <2>5 DEF ClaimDecision, Settle, ReconcileDecision, SetStatus, ServiceOnly, Besides, runVars, journalVars, watcherVars
  <2>6. CASE GiveUp(d)
    BY <2>6 DEF GiveUp, ServiceOnly, Besides, journalVars, watcherVars
  <2>7. ASSUME Record(d) \/ RecordFails(d, FALSE) \/ RecordFails(d, TRUE)
        PROVE  Besides
    <3>1. /\ UNCHANGED <<profile, proc, resumed, at, pc, intent, retried, ctx, gen, owner, leaseOf, watcherVars, seq, admitted>>
          /\ status' \in {status, [status EXCEPT ![d] = "RECONCILIATION_REQUIRED"]}
          /\ ledger' = ledger \/ (OpenBlocker(ref[d]) /\ ledger' = Append(ledger, DecisionEvent(d, ref[d], ans[d])))
      BY <2>7 DEF Record, RecordFails, SetStatus, ServiceOnly, journalVars
    <3>2. \A op \in Cancels : status'[op] = status[op]
      BY <1>0, <2>0, <3>1
    <3>3. QED
      BY <3>1, <3>2, AnswerFacts DEF Besides
  <2>8. QED
    BY <1>2, <2>1, <2>2, <2>3, <2>4, <2>5, <2>6, <2>7 DEF DecisionStep
<1>3. QED
  BY <1>1, <1>2

(* Every step of the decision service moves each decision that way, and    *)
(* appends nothing but an answer.                                          *)
LEMMA DecisionSteps ==
  ASSUME DecisionTypeOK, WorkSane,
         (\E d \in Decisions : DecisionStep(d) \/ ResumeRun(d)) \/ ServeCrash
  PROVE  /\ \A d \in Decisions : DecisionMoves(d)
         /\ ledger' = ledger \/ \E d \in Decisions : Answers(d)
<1>0. /\ status \in [Ops -> Status] /\ Decisions \subseteq Ops
      /\ ref \in [Decisions -> Nat] /\ ans \in [Decisions -> Answer] /\ work \in [Decisions -> Stage]
  BY DEF DecisionTypeOK, CancelTypeOK, Ops
<1>1. CASE ServeCrash
  <2>1. ledger' = ledger /\ status' = status /\ ref' = ref /\ ans' = ans /\ \A d \in Decisions : work'[d] = "none"
    BY <1>1 DEF ServeCrash, boxVars
  <2>2. QED
    BY <2>1 DEF DecisionMoves
<1>2. ASSUME NEW d \in Decisions, DecisionStep(d) \/ ResumeRun(d)
      PROVE  /\ \A o \in Decisions : DecisionMoves(o)
             /\ ledger' = ledger \/ \E o \in Decisions : Answers(o)
  <2>0. ASSUME \A o \in Ops \ {d} : status'[o] = status[o],
               \A o \in Decisions \ {d} : work'[o] = work[o] /\ ref'[o] = ref[o] /\ ans'[o] = ans[o],
               DecisionMoves(d)
        PROVE  \A o \in Decisions : DecisionMoves(o)
    BY <1>0, <2>0 DEF DecisionMoves
  <2>1. CASE \E b \in Blockers(ledger), a \in Answer : ValidateDecision(d, b, a)
    <3>1. PICK b \in Blockers(ledger), a \in Answer : ValidateDecision(d, b, a)
      BY <2>1
    <3>2. /\ ledger' = ledger /\ work' = work /\ status[d] = "NONE"
          /\ status' = [status EXCEPT ![d] = "VALIDATING"] /\ ref' = [ref EXCEPT ![d] = b] /\ ans' = [ans EXCEPT ![d] = a]
      BY <3>1 DEF ValidateDecision, runVars
    <3>3. DecisionMoves(d)
      BY <1>0, <3>2 DEF DecisionMoves
    <3>4. QED
      BY <1>0, <2>0, <3>2, <3>3
  <2>2. CASE ReceiveDecision(d, FALSE) \/ ReceiveDecision(d, TRUE) \/ RefuseDecision(d) \/ ReplayDecision(d) \/ Enqueue(d)
    <3>1. /\ ledger' = ledger /\ ref' = ref /\ ans' = ans
          /\ work' \in {work, [work EXCEPT ![d] = "queued"]}
          /\ \/ status' = status
             \/ /\ status[d] \in {"VALIDATING", "RESERVED"}
                /\ \E s \in {"RECEIVED", "RESERVED", "REFUSED"} : status' = [status EXCEPT ![d] = s]
      BY <2>2 DEF ReceiveDecision, RefuseDecision, ReplayDecision, Enqueue, decisionVars, runVars, boxVars
    <3>2. DecisionMoves(d)
      BY <1>0, <3>1 DEF DecisionMoves
    <3>3. QED
      BY <1>0, <2>0, <3>1, <3>2
  <2>3. CASE ClaimDecision(d)
    <3>1. /\ ledger' = ledger /\ ref' = ref /\ ans' = ans /\ status[d] = "RECEIVED"
          /\ \/ status' = [status EXCEPT ![d] = "CLAIMED"] /\ work' = [work EXCEPT ![d] = "claimed"]
             \/ status' = [status EXCEPT ![d] = "REJECTED"] /\ work' = [work EXCEPT ![d] = "none"]
      BY <2>3 DEF ClaimDecision, SetStatus, SetWork, ServiceOnly, runVars
    <3>2. DecisionMoves(d)
      BY <1>0, <3>1 DEF DecisionMoves
    <3>3. QED
      BY <1>0, <2>0, <3>1, <3>2
  <2>4. CASE Record(d) \/ RecordFails(d, FALSE) \/ RecordFails(d, TRUE)
    <3>1. /\ work[d] = "claimed" /\ ref' = ref /\ ans' = ans
          /\ \/ status' = status /\ work' = [work EXCEPT ![d] = "recorded"] /\ OpenBlocker(ref[d])
                /\ ledger' = Append(ledger, DecisionEvent(d, ref[d], ans[d]))
             \/ /\ status' = [status EXCEPT ![d] = "RECONCILIATION_REQUIRED"] /\ work' = [work EXCEPT ![d] = "queued"]
                /\ ledger' = ledger \/ (OpenBlocker(ref[d]) /\ ledger' = Append(ledger, DecisionEvent(d, ref[d], ans[d])))
      BY <2>4 DEF Record, RecordFails, SetStatus, SetWork, ServiceOnly
    <3>2. status[d] = "CLAIMED"
      BY <3>1 DEF WorkSane
    <3>3. status'[d] \in {"CLAIMED", "RECONCILIATION_REQUIRED"}
      BY <1>0, <3>1, <3>2
    <3>4. ledger' = ledger \/ Answers(d)
      BY <3>1, <3>2, <3>3, AnswerFacts DEF Answers
    <3>5. DecisionMoves(d)
      BY <1>0, <3>1, <3>2, <3>3, AnswerFacts DEF DecisionMoves, Answers
    <3>6. QED
      BY <1>0, <2>0, <3>1, <3>4, <3>5
  <2>5. CASE GiveUp(d) \/ ResumeBeyondBound(d) \/ ResumeRun(d)
    <3>1. ledger' = ledger /\ ref' = ref /\ ans' = ans /\ status' = status /\ work' = [work EXCEPT ![d] = "none"]
      BY <2>5 DEF GiveUp, ResumeBeyondBound, ResumeRun, SetWork, ServiceOnly, runVars, boxVars
    <3>2. DecisionMoves(d)
      BY <1>0, <3>1 DEF DecisionMoves
    <3>3. QED
      BY <1>0, <2>0, <3>1, <3>2
  <2>6. CASE Settle(d)
    <3>1. /\ ledger' = ledger /\ ref' = ref /\ ans' = ans /\ work[d] = "recorded"
          /\ status' = [status EXCEPT ![d] = "APPLIED"] /\ work' = [work EXCEPT ![d] = "resuming"]
      BY <2>6 DEF Settle, SetStatus, SetWork, ServiceOnly, runVars
    <3>2. DecisionMoves(d)
      BY <1>0, <3>1 DEF DecisionMoves
    <3>3. QED
      BY <1>0, <2>0, <3>1, <3>2
  <2>7. CASE ReconcileDecision(d)
    <3> DEFINE v == IF \E i \in AnswersTo(ledger, ref[d]) : ledger[i].op = d THEN "RECONCILED_APPLIED" ELSE "RECONCILED_NOT_APPLIED"
    <3>1. /\ ledger' = ledger /\ ref' = ref /\ ans' = ans /\ work[d] = "queued"
          /\ \/ status[d] = "CLAIMED" /\ status' = [status EXCEPT ![d] = "RECONCILIATION_REQUIRED"] /\ work' = work
             \/ status[d] = "RECONCILIATION_REQUIRED" /\ status' = [status EXCEPT ![d] = v] /\ work' = [work EXCEPT ![d] = "none"]
      BY <2>7 DEF ReconcileDecision, SetStatus, SetWork, ServiceOnly, runVars
    <3> HIDE DEF v
    <3>2. \A o \in Ops \ {d} : status'[o] = status[o]
      BY <1>0, <3>1
    <3>3. \/ status[d] = "CLAIMED" /\ status'[d] = "RECONCILIATION_REQUIRED" /\ work'[d] = "queued"
          \/ status[d] = "RECONCILIATION_REQUIRED" /\ status'[d] = v /\ work'[d] = "none"
      BY <1>0, <3>1
    <3>4. DecisionMoves(d)
      BY <3>1, <3>3 DEF DecisionMoves, v
    <3>5. QED
      BY <1>0, <2>0, <3>1, <3>2, <3>4
  <2>8. QED
    BY <1>2, <2>1, <2>2, <2>3, <2>4, <2>5, <2>6, <2>7 DEF DecisionStep
<1>3. QED
  BY <1>1, <1>2

-----------------------------------------------------------------------------
(* Types, and the cancel action's invariant.                               *)

(* Workers, records, receipts and the ledger stay in their types.          *)
LEMMA DecisionTypes ==
  ASSUME DecisionTypeOK, Numbered, RunnerSane, (\E d \in Decisions : DecisionStep(d)) \/ ServeCrash
  PROVE  DecisionTypeOK' /\ Numbered'
<1>0. /\ RunTypeOK /\ BoxTypeOK /\ ledger \in Seq(Event) /\ Decisions \subseteq Ops /\ gen \in 1..MaxGen
      /\ ref \in [Decisions -> Nat] /\ ans \in [Decisions -> Answer] /\ work \in [Decisions -> Stage]
      /\ Len(ledger) \in Nat /\ faults \in 0..MaxFaults /\ MaxFaults \in Nat
  BY LedgerFacts, ProfileAssumption DEF DecisionTypeOK, CancelTypeOK, BoxTypeOK, RunTypeOK, Ops
<1> DEFINE MayFail == faults' = faults \/ (faults < MaxFaults /\ faults' = faults + 1)
<1>a. MayFail => faults' \in 0..MaxFaults
  BY <1>0
<1>b. /\ UNCHANGED <<profile, proc, resumed, at, pc, intent, retried, ctx, gen, owner, leaseOf, watcher, item, delivered, through>>
      /\ ledger' = ledger \/ \E e \in Event : ledger' = Append(ledger, e)
  BY StepsBesides DEF Besides, watcherVars
<1>c. ledger' \in Seq(Event) /\ Len(ledger') \in Nat /\ Len(ledger) <= Len(ledger')
  <2>1. ASSUME NEW e \in Event, ledger' = Append(ledger, e)
        PROVE  ledger' \in Seq(Event) /\ Len(ledger') = Len(ledger) + 1
    BY <1>0, <2>1, AppendFacts
  <2>2. QED
    BY <1>0, <1>b, <2>1
<1>d. ASSUME MayFail PROVE RunTypeOK'
  BY <1>0, <1>a, <1>b, <1>c, <1>d DEF RunTypeOK
<1>e. ASSUME MayFail, jseq' \in {jseq, jseq + 1}, status' \in [Ops -> Status], seq' \in [Ops -> Nat], admitted' \in [Ops -> Nat],
             \A o \in Ops : seq'[o] \in {seq[o], jseq'}, \A o \in Ops : admitted'[o] <= Len(ledger),
             ref' \in [Decisions -> Nat], ans' \in [Decisions -> Answer], work' \in [Decisions -> Stage]
      PROVE  DecisionTypeOK' /\ Numbered'
  <2>1. jseq \in Nat /\ owner \in Owner
    BY <1>0 DEF BoxTypeOK
  <2>2. jseq' \in Nat /\ jseq <= jseq' /\ owner.drain \in Nat
    BY <1>e, <2>1 DEF Owner
  <2>3. CancelTypeOK'
    BY <1>0, <1>b, <1>d, <1>e, <2>2 DEF CancelTypeOK, BoxTypeOK
  <2>4. DecisionTypeOK'
    BY <1>0, <1>b, <1>e, <2>3 DEF DecisionTypeOK
  <2>5. owner'.gen = gen' /\ owner'.drain <= jseq'
    BY <1>b, <2>1, <2>2 DEF Numbered
  <2>6. ASSUME NEW o \in Ops
        PROVE  seq'[o] <= jseq' /\ leaseOf'[o] <= gen' /\ admitted'[o] <= Len(ledger')
    <3>1. seq[o] \in Nat /\ seq[o] <= jseq /\ leaseOf[o] <= gen
      BY <1>0 DEF BoxTypeOK, Numbered
    <3>2. seq'[o] <= jseq'
      <4>1. seq'[o] \in {seq[o], jseq'}
        BY <1>e
      <4>2. QED
        BY <2>1, <2>2, <3>1, <4>1
    <3>3. admitted'[o] \in Nat /\ admitted'[o] <= Len(ledger)
      BY <1>e
    <3>4. admitted'[o] <= Len(ledger')
      BY <1>0, <1>c, <3>3
    <3>5. QED
      BY <1>b, <3>1, <3>2, <3>4
  <2>7. QED
    BY <2>4, <2>5, <2>6 DEF Numbered
<1>f. /\ jseq \in Nat /\ status \in [Ops -> Status] /\ seq \in [Ops -> Nat] /\ admitted \in [Ops -> Nat]
      /\ \A o \in Ops : admitted[o] <= Len(ledger)
  BY <1>0 DEF BoxTypeOK, Numbered
<1>1. CASE ServeCrash
  <2>1. /\ MayFail /\ UNCHANGED <<jseq, status, seq, admitted, ref, ans>> /\ work' = [d \in Decisions |-> "none"]
    BY <1>1 DEF ServeCrash, boxVars
  <2>2. work' \in [Decisions -> Stage]
    BY <2>1 DEF Stage
  <2>3. QED
    BY <1>0, <1>e, <1>f, <2>1, <2>2
<1>2. ASSUME NEW d \in Decisions, DecisionStep(d) PROVE DecisionTypeOK' /\ Numbered'
  <2>0. /\ \A s \in Status : [status EXCEPT ![d] = s] \in [Ops -> Status]
        /\ \A w \in Stage : [work EXCEPT ![d] = w] \in [Decisions -> Stage]
    BY <1>0, <1>f
  <2>1. ASSUME NEW b \in Blockers(ledger), NEW a \in Answer, ValidateDecision(d, b, a)
        PROVE  DecisionTypeOK' /\ Numbered'
    <3>1. /\ MayFail /\ UNCHANGED <<jseq, seq, work>> /\ status' = [status EXCEPT ![d] = "VALIDATING"]
          /\ admitted' = [admitted EXCEPT ![d] = b] /\ ref' = [ref EXCEPT ![d] = b] /\ ans' = [ans EXCEPT ![d] = a]
      BY <2>1 DEF ValidateDecision, runVars
    <3>2. b \in Nat /\ b <= Len(ledger)
      <4>1. b \in DOMAIN ledger
        BY DEF Blockers
      <4>2. QED
        BY <1>0, <4>1, LedgerFacts
    <3>3. admitted' \in [Ops -> Nat] /\ (\A o \in Ops : admitted'[o] <= Len(ledger)) /\ d \in Ops
      BY <1>0, <1>f, <3>1, <3>2
    <3>4. ref' \in [Decisions -> Nat] /\ ans' \in [Decisions -> Answer] /\ status' \in [Ops -> Status]
      BY <1>0, <1>f, <3>1, <3>2 DEF Status
    <3>5. QED
      BY <1>0, <1>e, <1>f, <3>1, <3>3, <3>4
  <2>2. CASE ReceiveDecision(d, FALSE) \/ ReceiveDecision(d, TRUE) \/ ReplayDecision(d)
    <3>1. /\ MayFail /\ UNCHANGED <<admitted, ref, ans>>
          /\ \E s \in {"RESERVED", "RECEIVED"} : status' = [status EXCEPT ![d] = s]
          /\ \/ UNCHANGED <<jseq, seq, work>>
             \/ jseq' = jseq + 1 /\ seq' = [seq EXCEPT ![d] = jseq + 1] /\ work' = [work EXCEPT ![d] = "queued"]
      BY <2>2 DEF ReceiveDecision, ReplayDecision, runVars
    <3>2. status' \in [Ops -> Status]
      BY <1>f, <3>1 DEF Status
    <3>3. seq' \in [Ops -> Nat] /\ (\A o \in Ops : seq'[o] \in {seq[o], jseq'}) /\ jseq' \in {jseq, jseq + 1}
      BY <1>0, <1>f, <3>1
    <3>4. work' \in [Decisions -> Stage]
      BY <1>0, <3>1 DEF Stage
    <3>5. QED
      BY <1>0, <1>e, <1>f, <3>1, <3>2, <3>3, <3>4
  <2>3. CASE RefuseDecision(d) \/ Enqueue(d) \/ ClaimDecision(d) \/ Record(d) \/ RecordFails(d, FALSE) \/ RecordFails(d, TRUE)
             \/ GiveUp(d) \/ Settle(d) \/ ReconcileDecision(d) \/ ResumeBeyondBound(d)
    <3>1. UNCHANGED <<jseq, seq, admitted, ref, ans>>
      BY <2>3 DEF RefuseDecision, Enqueue, ClaimDecision, Record, RecordFails, GiveUp, Settle, ReconcileDecision, ResumeBeyondBound,
                  ServiceOnly, journalVars, decisionVars, boxVars
    <3>2. MayFail
      BY <2>3 DEF RefuseDecision, Enqueue, ClaimDecision, Record, RecordFails, GiveUp, Settle, ReconcileDecision, ResumeBeyondBound,
                  runVars
    <3>3. status' = status \/ \E s \in Status : status' = [status EXCEPT ![d] = s]
      BY <2>3 DEF RefuseDecision, Enqueue, ClaimDecision, Record, RecordFails, GiveUp, Settle, ReconcileDecision, ResumeBeyondBound,
                  SetStatus, boxVars, Status
    <3>4. work' = work \/ \E w \in Stage : work' = [work EXCEPT ![d] = w]
      BY <2>3 DEF RefuseDecision, Enqueue, ClaimDecision, Record, RecordFails, GiveUp, Settle, ReconcileDecision, ResumeBeyondBound,
                  SetWork, decisionVars, Stage
    <3>5. status' \in [Ops -> Status] /\ work' \in [Decisions -> Stage]
      BY <1>0, <1>f, <2>0, <3>3, <3>4
    <3>6. QED
      BY <1>0, <1>e, <1>f, <3>1, <3>2, <3>5
  <2>4. QED
    BY <1>2, <2>1, <2>2, <2>3 DEF DecisionStep
<1>3. QED
  BY <1>1, <1>2

(* A resumed process starts with an empty watcher under a new lease, and   *)
(* the requests of its predecessors stay where they were.                  *)
LEMMA ResumeKeeps ==
  ASSUME CancelInv, DecisionTypeOK, NEW d \in Decisions, ResumeRun(d)
  PROVE  CancelInv' /\ DecisionTypeOK'
<1>0. /\ CancelTypeOK /\ Numbered /\ RunnerSane /\ Begun /\ DrainSane /\ RequestsSane
      /\ CancelOutcomesAreTrue /\ DeliveredInsideWindow /\ CauseDecides
  BY DEF CancelInv
<1>1. work' \in [Decisions -> Stage] /\ UNCHANGED <<ref, ans>>
  BY DEF ResumeRun, SetWork, DecisionTypeOK, Stage
<1>2. CASE ~(LaunchLockFree /\ MayInstall)
  <2>1. UNCHANGED cancelVars
    BY <1>2 DEF ResumeRun, cancelVars
  <2>2. gen' = gen
    BY <2>1 DEF cancelVars, boxVars
  <2>3. QED
    BY <1>1, <2>1, <2>2, CancelStutters DEF DecisionTypeOK, CancelInv
<1>3. CASE LaunchLockFree /\ MayInstall
  <2>1. /\ proc' = "running" /\ resumed' = TRUE /\ at' = "" /\ pc' = "choose" /\ intent' = NoIntent /\ retried' = FALSE /\ ctx' = Live
        /\ gen' = gen + 1 /\ owner' = [gen |-> gen + 1, state |-> "ACTIVE", drain |-> 0]
        /\ watcher' = "watching" /\ item' = NoOp /\ delivered' = {} /\ through' = FALSE
        /\ UNCHANGED <<ledger, profile, faults, jseq, seq, leaseOf, admitted, status>> /\ gen < MaxGen
    BY <1>3 DEF ResumeRun, journalVars
  <2>2. gen \in 1..MaxGen /\ MaxGen \in Nat /\ gen \in Nat /\ jseq \in Nat
    BY MaxGenAssumption DEF DecisionTypeOK, CancelTypeOK
  <2>a. gen < MaxGen
    BY <2>1
  <2>3. gen + 1 \in 1..MaxGen /\ gen + 1 \in Nat
    BY <2>2, <2>a
  <2>4. RunTypeOK'
    <3>1. NoIntent \in Intent
      BY DEF NoIntent, Intent, Source
    <3>2. QED
      BY <1>0, <2>1, <3>1 DEF CancelTypeOK, RunTypeOK
  <2>5. CancelTypeOK' /\ DecisionTypeOK'
    <3>1. CancelTypeOK'
      BY <1>0, <2>1, <2>3, <2>4 DEF CancelTypeOK, Owner
    <3>2. QED
      BY <1>1, <2>1, <2>3, <3>1 DEF DecisionTypeOK
  <2>6. Numbered'
    <3>1. \A o \in Ops : seq[o] <= jseq /\ leaseOf[o] <= gen /\ leaseOf[o] \in Nat /\ admitted[o] <= Len(ledger)
      BY <1>0 DEF Numbered, CancelTypeOK
    <3>2. \A o \in Ops : leaseOf[o] <= gen + 1
      BY <2>2, <3>1
    <3>a. 0 <= jseq
      BY <2>2
    <3>b. owner'.gen = gen' /\ owner'.drain = 0
      BY <2>1
    <3>3. owner'.gen = gen' /\ owner'.drain = 0 /\ 0 <= jseq
      BY <3>a, <3>b
    <3>4. \A o \in Ops : seq'[o] <= jseq' /\ leaseOf'[o] <= gen' /\ admitted'[o] <= Len(ledger')
      BY <2>1, <3>1, <3>2
    <3>5. QED
      BY <2>1, <3>3, <3>4 DEF Numbered
  <2>7. RunnerSane' /\ Begun' /\ DrainSane'
    BY <1>0, <2>1 DEF RunnerSane, Begun, DrainSane
  <2>8. RequestsSane' /\ CancelOutcomesAreTrue'
    BY <1>0, <2>1 DEF RequestsSane, CancelOutcomesAreTrue
  <2>9. DeliveredInsideWindow'
    <3>1. \A op \in Cancels : leaseOf[op] <= gen + 1
      BY <2>1, <2>6 DEF Numbered, Ops
    <3>2. QED
      BY <1>0, <2>1, <3>1 DEF DeliveredInsideWindow
  <2>10. CauseDecides'
    BY <2>1, OpsAssumption DEF CauseDecides, Ops
  <2>11. QED
    BY <2>5, <2>6, <2>7, <2>8, <2>9, <2>10 DEF CancelInv
<1>4. QED
  BY <1>2, <1>3

-----------------------------------------------------------------------------
(* What the ledger says of decisions, as it grows.                         *)

\* The ledger keeps its positions, and what they say.
Grown ==
  /\ \A i \in DOMAIN ledger : i \in DOMAIN ledger' /\ ledger'[i] = ledger[i]
  /\ \A i, j \in Nat : j <= Len(ledger) + 1 /\ NoMarkBetween(ledger, i, j) => NoMarkBetween(ledger', i, j)
  /\ Marks(ledger) \subseteq Marks(ledger') /\ \A i \in Marks(ledger') : i \in Marks(ledger) \/ i = Len(ledger) + 1
  /\ Blockers(ledger) \subseteq Blockers(ledger')
  /\ \A x : AnswersTo(ledger, x) \subseteq AnswersTo(ledger', x)

(* It does, whatever is appended.                                          *)
LEMMA GrownFacts ==
  ASSUME CancelTypeOK, ledger' = ledger \/ \E e \in Event : ledger' = Append(ledger, e)
  PROVE  Grown
<1>0. ledger \in Seq(Event)
  BY DEF CancelTypeOK, RunTypeOK
<1>1. CASE ledger' = ledger
  BY <1>1 DEF Grown
<1>2. CASE \E e \in Event : ledger' = Append(ledger, e)
  BY <1>0, <1>2, AppendStays DEF Grown
<1>3. QED
  BY <1>1, <1>2

(* The runner and the watcher append no answer, and pause a run only with  *)
(* a blocker.                                                              *)
LEMMA CancelAppends ==
  ASSUME CancelTypeOK, RunnerSane, CancelNext
  PROVE  /\ Grown
         /\ \A i \in DOMAIN ledger' :
              /\ ledger'[i].kind = "API_HUMAN_DECISION_RECORDED" => i \in DOMAIN ledger
              /\ ledger'[i].to = "HUMAN_DECISION_REQUIRED" /\ i \notin DOMAIN ledger => i \in Blockers(ledger')
<1>0. ledger \in Seq(Event) /\ Len(ledger) \in Nat /\ DOMAIN ledger = 1..Len(ledger) /\ item \in Cancels \cup {NoOp}
  BY LedgerFacts DEF CancelTypeOK, RunTypeOK
<1>1. Grown
  BY GrownFacts, LedgerGrows
<1>2. SUFFICES ASSUME NEW i \in DOMAIN ledger', i \notin DOMAIN ledger
               PROVE  /\ ledger'[i].kind # "API_HUMAN_DECISION_RECORDED"
                      /\ ledger'[i].to = "HUMAN_DECISION_REQUIRED" => i \in Blockers(ledger')
  BY <1>1
<1>3. ledger' # ledger
  BY <1>2
<1>4. ASSUME NEW e \in Event, ledger' = Append(ledger, e) PROVE ledger'[i] = e
  <2>1. DOMAIN ledger' = 1..(Len(ledger) + 1) /\ ledger'[Len(ledger) + 1] = e
    BY <1>0, <1>4, AppendFacts
  <2>2. i = Len(ledger) + 1
    BY <1>0, <1>2, <2>1
  <2>3. QED
    BY <2>1, <2>2
<1>5. CASE Create
  <2>1. CreatedEvent \in Event /\ ledger' = Append(ledger, CreatedEvent)
    BY <1>5, EventFacts DEF Create
  <2>2. ledger'[i] = CreatedEvent
    BY <1>4, <2>1
  <2>3. CreatedEvent.kind = "RUN_CREATED" /\ CreatedEvent.to = "RUN_CREATED"
    BY DEF CreatedEvent
  <2>4. QED
    BY <2>2, <2>3
<1>6. ASSUME NEW e \in Event, Selects(e)
      PROVE  /\ ledger'[i].kind # "API_HUMAN_DECISION_RECORDED"
             /\ ledger'[i].to = "HUMAN_DECISION_REQUIRED" => i \in Blockers(ledger')
  <2>1. ledger' = Append(ledger, e)
    BY <1>6 DEF Selects
  <2>2. ledger'[i] = e
    BY <1>4, <2>1
  <2>3. e.kind # "API_HUMAN_DECISION_RECORDED" /\ (e.to = "HUMAN_DECISION_REQUIRED" => e.kind = "BLOCKER_DECISION_RECORDED")
    BY <1>6 DEF Selects
  <2>4. QED
    BY <1>2, <2>2, <2>3 DEF Blockers
<1>7. CASE Requests
  <2>1. ledger' = Append(ledger, CancelRequestEvent(item)) /\ CancelRequestEvent(item) \in Event
    BY <1>0, <1>7, EventFacts DEF Requests, Delivering
  <2>2. ledger'[i] = CancelRequestEvent(item)
    BY <1>4, <2>1
  <2>3. CancelRequestEvent(item).kind = "API_CANCEL_REQUESTED" /\ CancelRequestEvent(item).to = ""
    BY DEF CancelRequestEvent
  <2>4. QED
    BY <2>2, <2>3
<1>8. QED
  BY <1>3, <1>5, <1>6, <1>7, LedgerSteps

(* So a cancel step keeps what decisions rest on.                          *)
LEMMA CancelKeepsAnswers ==
  ASSUME CancelTypeOK, RunnerSane, CancelNext, UNCHANGED decisionVars
  PROVE  /\ AnswersSane => AnswersSane'
         /\ WorkSane => WorkSane'
         /\ PausesSane => PausesSane'
         /\ OneAnswerPerBlocker => OneAnswerPerBlocker'
<1>1. /\ Grown
      /\ \A i \in DOMAIN ledger' :
           /\ ledger'[i].kind = "API_HUMAN_DECISION_RECORDED" => i \in DOMAIN ledger
           /\ ledger'[i].to = "HUMAN_DECISION_REQUIRED" /\ i \notin DOMAIN ledger => i \in Blockers(ledger')
  BY CancelAppends
<1>2. ref' = ref /\ ans' = ans /\ work' = work
  BY DEF decisionVars
<1>3. \A d \in Decisions : status'[d] = status[d]
  BY StatusSteps, OpsAssumption DEF Ops
<1>4. AnswersSane => AnswersSane'
  BY <1>1, <1>2, <1>3 DEF AnswersSane, Grown
<1>5. WorkSane => WorkSane'
  <2>1. ASSUME WorkSane, NEW d \in Decisions, work[d] = "recorded" \/ status[d] \in AppliedStatus
        PROVE  \E i \in AnswersTo(ledger', ref[d]) : ledger'[i].op = d /\ ledger'[i].ans = ans[d]
    <3>1. PICK i \in AnswersTo(ledger, ref[d]) : ledger[i].op = d /\ ledger[i].ans = ans[d]
      BY <2>1 DEF WorkSane
    <3>2. i \in DOMAIN ledger /\ i \in AnswersTo(ledger', ref[d])
      BY <1>1 DEF AnswersTo, Grown
    <3>3. QED
      BY <1>1, <3>1, <3>2 DEF Grown
  <2>2. QED
    BY <1>2, <1>3, <2>1 DEF WorkSane
<1>6. PausesSane => PausesSane'
  BY <1>1 DEF PausesSane, Grown
<1>7. OneAnswerPerBlocker => OneAnswerPerBlocker'
  BY <1>1 DEF OneAnswerPerBlocker, Grown
<1>8. QED
  BY <1>4, <1>5, <1>6, <1>7

(* The answer a worker appends is its own, for a pause before it that had  *)
(* none.                                                                   *)
LEMMA AnsweredFacts ==
  ASSUME CancelTypeOK, RunnerSane, DecisionTypeOK, NEW d \in Decisions, Answers(d)
  PROVE  /\ DOMAIN ledger' = DOMAIN ledger \cup {Len(ledger) + 1} /\ Len(ledger) + 1 \notin DOMAIN ledger
         /\ ledger'[Len(ledger) + 1] = DecisionEvent(d, ref[d], ans[d]) /\ ref[d] < Len(ledger) + 1
         /\ AnswersTo(ledger, ref[d]) = {} /\ Blockers(ledger') = Blockers(ledger) /\ Marks(ledger') = Marks(ledger)
         /\ Grown /\ Len(ledger) + 1 \in AnswersTo(ledger', ref[d])
<1>0. ledger \in Seq(Event) /\ HasLatest(ledger) /\ Len(ledger) \in Nat /\ DOMAIN ledger = 1..Len(ledger)
  BY LedgerFacts DEF CancelTypeOK, RunTypeOK, RunnerSane
<1> DEFINE e == DecisionEvent(d, ref[d], ans[d])
<1>1. e \in Event /\ e.kind = "API_HUMAN_DECISION_RECORDED" /\ e.to = "" /\ e.ref = ref[d]
  BY AnswerFacts
<1>2. ledger' = Append(ledger, e) /\ OpenBlocker(ref[d])
  BY DEF Answers
<1> HIDE DEF e
<1>3. DOMAIN Append(ledger, e) = 1..(Len(ledger) + 1) /\ Append(ledger, e)[Len(ledger) + 1] = e
  BY <1>0, <1>1, AppendFacts
<1>4. DOMAIN ledger' = DOMAIN ledger \cup {Len(ledger) + 1} /\ Len(ledger) + 1 \notin DOMAIN ledger
  BY <1>0, <1>2, <1>3
<1>5. ref[d] \in DOMAIN ledger /\ AnswersTo(ledger, ref[d]) = {}
  BY <1>2 DEF OpenBlocker, Blockers
<1>6. ref[d] < Len(ledger) + 1
  BY <1>0, <1>5
<1>7. Blockers(Append(ledger, e)) = Blockers(ledger) /\ Marks(Append(ledger, e)) = Marks(ledger)
  BY <1>0, <1>1, AnswerLedger
<1>8. Grown
  BY <1>1, <1>2, GrownFacts
<1>9. ledger'[Len(ledger) + 1] = e
  BY <1>2, <1>3
<1>10. Len(ledger) + 1 \in AnswersTo(ledger', ref[d])
  BY <1>1, <1>4, <1>9 DEF AnswersTo
<1>11. QED
  BY <1>2, <1>4, <1>5, <1>6, <1>7, <1>8, <1>9, <1>10 DEF e

(* The steps of the workers keep what decisions rest on.                   *)
LEMMA StepsKeepAnswers ==
  ASSUME CancelTypeOK, RunnerSane, DecisionTypeOK, AnswersSane, WorkSane, PausesSane, OneAnswerPerBlocker,
         (\E d \in Decisions : DecisionStep(d) \/ ResumeRun(d)) \/ ServeCrash
  PROVE  AnswersSane' /\ WorkSane' /\ PausesSane' /\ OneAnswerPerBlocker' /\ Grown
<1>1. /\ \A d \in Decisions : DecisionMoves(d)
      /\ ledger' = ledger \/ \E d \in Decisions : Answers(d)
  BY DecisionSteps
<1>2. Grown
  <2>1. ASSUME NEW d \in Decisions, Answers(d) PROVE Grown
    BY <2>1, AnsweredFacts
  <2>2. QED
    BY <1>1, <2>1, GrownFacts
<1>3. ASSUME NEW i \in DOMAIN ledger, ledger[i].kind = "API_HUMAN_DECISION_RECORDED"
      PROVE  LET o == ledger[i].op
             IN  /\ o \in Decisions /\ ledger[i].ref = ref'[o] /\ ledger[i].ans = ans'[o] /\ ledger[i].ref < i
                 /\ status'[o] \in {"CLAIMED", "RECONCILIATION_REQUIRED", "APPLIED", "RECONCILED_APPLIED"}
  <2> DEFINE o == ledger[i].op
  <2>1. /\ o \in Decisions /\ ledger[i].ref = ref[o] /\ ledger[i].ans = ans[o] /\ ledger[i].ref < i
        /\ status[o] \in {"CLAIMED", "RECONCILIATION_REQUIRED", "APPLIED", "RECONCILED_APPLIED"}
    BY <1>3 DEF AnswersSane
  <2>2. i \in AnswersTo(ledger, ref[o]) /\ ledger[i].op = o
    BY <1>3, <2>1 DEF AnswersTo
  <2>3. DecisionMoves(o)
    BY <1>1, <2>1
  <2> HIDE DEF o
  <2>4. ref'[o] = ref[o] /\ ans'[o] = ans[o]
    BY <2>1, <2>3 DEF DecisionMoves
  <2>5. status'[o] \in {"CLAIMED", "RECONCILIATION_REQUIRED", "APPLIED", "RECONCILED_APPLIED"}
    BY <2>1, <2>2, <2>3 DEF DecisionMoves
  <2>6. QED
    BY <2>1, <2>4, <2>5 DEF o
<1>4. AnswersSane'
  <2>1. CASE ledger' = ledger
    BY <1>3, <2>1 DEF AnswersSane
  <2>2. ASSUME NEW d \in Decisions, Answers(d) PROVE AnswersSane'
    <3>1. /\ DOMAIN ledger' = DOMAIN ledger \cup {Len(ledger) + 1}
          /\ ledger'[Len(ledger) + 1] = DecisionEvent(d, ref[d], ans[d]) /\ ref[d] < Len(ledger) + 1
      BY <2>2, AnsweredFacts
    <3>2. DecisionEvent(d, ref[d], ans[d]).op = d /\ DecisionEvent(d, ref[d], ans[d]).ref = ref[d]
          /\ DecisionEvent(d, ref[d], ans[d]).ans = ans[d]
      BY AnswerFacts
    <3>3. ref' = ref /\ ans' = ans /\ status'[d] \in {"CLAIMED", "RECONCILIATION_REQUIRED"}
      BY <2>2 DEF Answers
    <3>4. \A i \in DOMAIN ledger : ledger'[i] = ledger[i]
      BY <1>2 DEF Grown
    <3>5. QED
      BY <1>3, <3>1, <3>2, <3>3, <3>4 DEF AnswersSane
  <2>3. QED
    BY <1>1, <2>1, <2>2
<1>5. WorkSane'
  <2>1. SUFFICES ASSUME NEW d \in Decisions
                 PROVE  /\ work'[d] \in {"claimed", "recorded"} => status'[d] = "CLAIMED"
                        /\ work'[d] = "recorded" \/ status'[d] \in AppliedStatus =>
                             \E i \in AnswersTo(ledger', ref'[d]) : ledger'[i].op = d /\ ledger'[i].ans = ans'[d]
    BY DEF WorkSane
  <2>2. DecisionMoves(d)
    BY <1>1
  <2>3. work'[d] \in {"claimed", "recorded"} => status'[d] = "CLAIMED"
    BY <2>2 DEF DecisionMoves, WorkSane
  <2>4. ASSUME work'[d] = "recorded" \/ status'[d] \in AppliedStatus
        PROVE  \E i \in AnswersTo(ledger', ref'[d]) : ledger'[i].op = d /\ ledger'[i].ans = ans'[d]
    <3>1. ref'[d] = ref[d] /\ ans'[d] = ans[d]
      BY <2>2, <2>4 DEF DecisionMoves, WorkSane, AppliedStatus
    <3>2. CASE Answers(d)
      <4>1. Len(ledger) + 1 \in AnswersTo(ledger', ref[d]) /\ ledger'[Len(ledger) + 1] = DecisionEvent(d, ref[d], ans[d])
        BY <3>2, AnsweredFacts
      <4>2. DecisionEvent(d, ref[d], ans[d]).op = d /\ DecisionEvent(d, ref[d], ans[d]).ans = ans[d]
        BY AnswerFacts
      <4>3. QED
        BY <3>1, <4>1, <4>2
    <3>3. CASE ~Answers(d)
      <4>1. \E i \in AnswersTo(ledger, ref[d]) : ledger[i].op = d
        BY <2>2, <2>4, <3>3 DEF DecisionMoves, WorkSane, AppliedStatus
      <4>2. PICK i \in AnswersTo(ledger, ref[d]) : ledger[i].op = d
        BY <4>1
      <4>3. i \in DOMAIN ledger /\ ledger[i].kind = "API_HUMAN_DECISION_RECORDED"
        BY <4>2 DEF AnswersTo
      <4>4. ledger[i].ans = ans[d]
        BY <4>2, <4>3 DEF AnswersSane
      <4>5. i \in AnswersTo(ledger', ref[d]) /\ ledger'[i] = ledger[i]
        BY <1>2, <4>2, <4>3 DEF Grown
      <4>6. QED
        BY <3>1, <4>2, <4>4, <4>5
    <3>4. QED
      BY <3>2, <3>3
  <2>5. QED
    BY <2>3, <2>4
<1>6. PausesSane'
  <2>1. CASE ledger' = ledger
    BY <2>1 DEF PausesSane
  <2>2. ASSUME NEW d \in Decisions, Answers(d) PROVE PausesSane'
    <3>1. DOMAIN ledger' = DOMAIN ledger \cup {Len(ledger) + 1} /\ ledger'[Len(ledger) + 1] = DecisionEvent(d, ref[d], ans[d])
      BY <2>2, AnsweredFacts
    <3>2. DecisionEvent(d, ref[d], ans[d]).to = ""
      BY AnswerFacts
    <3>3. QED
      BY <1>2, <3>1, <3>2 DEF PausesSane, Grown
  <2>3. QED
    BY <1>1, <2>1, <2>2
<1>7. OneAnswerPerBlocker'
  <2>1. CASE ledger' = ledger
    BY <2>1 DEF OneAnswerPerBlocker
  <2>2. ASSUME NEW d \in Decisions, Answers(d) PROVE OneAnswerPerBlocker'
    <3>1. /\ DOMAIN ledger' = DOMAIN ledger \cup {Len(ledger) + 1} /\ ledger'[Len(ledger) + 1] = DecisionEvent(d, ref[d], ans[d])
          /\ AnswersTo(ledger, ref[d]) = {}
      BY <2>2, AnsweredFacts
    <3>2. DecisionEvent(d, ref[d], ans[d]).ref = ref[d]
      BY AnswerFacts
    <3>3. \A i \in DOMAIN ledger : ledger'[i] = ledger[i]
      BY <1>2 DEF Grown
    <3>4. \A i \in DOMAIN ledger : ledger[i].kind = "API_HUMAN_DECISION_RECORDED" => ledger[i].ref # ref[d]
      BY <3>1 DEF AnswersTo
    <3>5. QED
      BY <3>1, <3>2, <3>3, <3>4 DEF OneAnswerPerBlocker
  <2>3. QED
    BY <1>1, <2>1, <2>2
<1>8. QED
  BY <1>2, <1>4, <1>5, <1>6, <1>7

-----------------------------------------------------------------------------
(* The resumed runner.                                                     *)

\* What a resumed runner decided, the answer it read still being there.
Resuming(how, to, l) ==
  /\ how = "plain"
  /\ \E b \in Blockers(l) : \E i \in AnswersTo(l, b) :
       /\ Blockers(l) = {b}
       /\ to = (IF l[i].ans = "proceed" THEN "AUTHORITY_VALIDATED" ELSE "FAILED")

(* What it read stays, as long as no blocker is appended.                  *)
LEMMA ResumingStays ==
  ASSUME Grown, Blockers(ledger') = Blockers(ledger), NEW how, NEW to, Resuming(how, to, ledger)
  PROVE  Resuming(how, to, ledger')
<1>1. PICK b \in Blockers(ledger) : \E i \in AnswersTo(ledger, b) :
        Blockers(ledger) = {b} /\ to = (IF ledger[i].ans = "proceed" THEN "AUTHORITY_VALIDATED" ELSE "FAILED")
  BY DEF Resuming
<1>2. PICK i \in AnswersTo(ledger, b) :
        Blockers(ledger) = {b} /\ to = (IF ledger[i].ans = "proceed" THEN "AUTHORITY_VALIDATED" ELSE "FAILED")
  BY <1>1
<1>3. i \in DOMAIN ledger
  BY DEF AnswersTo
<1>4. i \in AnswersTo(ledger', b) /\ ledger'[i] = ledger[i]
  BY <1>3 DEF Grown
<1>5. QED
  BY <1>1, <1>2, <1>4 DEF Resuming

(* A resumed runner decides what its one answer says, and keeps to it.     *)
LEMMA CancelKeepsResume ==
  ASSUME CancelTypeOK, RunnerSane, ResumeSane, CancelNext
  PROVE  ResumeSane'
<1>0. item \in Cancels \cup {NoOp} /\ ledger \in Seq(Event) /\ Grown
  BY CancelAppends DEF CancelTypeOK, RunTypeOK
<1>1. SUFFICES ASSUME at' = "HUMAN_DECISION_REQUIRED", pc' \in {"commit", "frozen"}
               PROVE  Resuming(intent'.how, intent'.to, ledger')
  BY DEF ResumeSane, Resuming
<1>2. at = "HUMAN_DECISION_REQUIRED" /\ pc \in {"commit", "frozen"} => Resuming(intent.how, intent.to, ledger)
  BY DEF ResumeSane, Resuming
<1>3. ASSUME NEW i \in Intents, Choose(i) PROVE Resuming(intent'.how, intent'.to, ledger')
  <2>1. at = "HUMAN_DECISION_REQUIRED" /\ intent' = i /\ ledger' = ledger
    BY <1>1, <1>3 DEF Choose
  <2>2. i \in ResumeIntents
    BY <1>3, <2>1 DEF Intents
  <2>3. PICK a \in PendingAnswer : i = Step(IF a = "proceed" THEN "AUTHORITY_VALIDATED" ELSE "FAILED", "resume-controller")
    BY <2>2 DEF ResumeIntents
  <2>4. PICK j \in DOMAIN ledger : a = ledger[j].ans /\ \E b \in Blockers(ledger) : Blockers(ledger) = {b} /\ j \in AnswersTo(ledger, b)
    BY <2>3 DEF PendingAnswer
  <2>5. i.how = "plain" /\ i.to = (IF a = "proceed" THEN "AUTHORITY_VALIDATED" ELSE "FAILED")
    BY <2>3 DEF Step
  <2>6. Resuming(i.how, i.to, ledger)
    BY <2>4, <2>5 DEF Resuming
  <2>7. QED
    BY <2>1, <2>6
<1>4. CASE UNCHANGED <<at, pc, intent>> /\ (ledger' = ledger \/ Requests)
  <2>1. Blockers(ledger') = Blockers(ledger)
    <3>1. ASSUME Requests PROVE Blockers(ledger') = Blockers(ledger)
      <4>1. ledger' = Append(ledger, CancelRequestEvent(item)) /\ CancelRequestEvent(item) \in Event
        BY <1>0, <3>1, EventFacts DEF Requests, Delivering
      <4>2. CancelRequestEvent(item).kind = "API_CANCEL_REQUESTED"
        BY DEF CancelRequestEvent
      <4>3. \A x : Blockers(Append(ledger, CancelRequestEvent(item))) = Blockers(ledger) \cup
                (IF CancelRequestEvent(item).kind = "BLOCKER_DECISION_RECORDED" THEN {Len(ledger) + 1} ELSE {})
        BY <1>0, <4>1, KindsOfAppend, Zenon
      <4>4. QED
        BY <4>1, <4>2, <4>3
    <3>2. QED
      BY <1>4, <3>1
  <2>2. Resuming(intent.how, intent.to, ledger)
    BY <1>1, <1>2, <1>4
  <2>3. Resuming(intent.how, intent.to, ledger')
    BY <1>0, <2>1, <2>2, ResumingStays
  <2>4. QED
    BY <1>4, <2>3
<1>5. CASE Create \/ ReadPausedRun
  BY <1>1, <1>5 DEF Create, ReadPausedRun
<1>6. CASE Commit \/ CommitFrozen
  BY <1>1, <1>6 DEF Commit, CommitFrozen, MoveTo
<1>7. ASSUME CommitRefused \/ \E d \in BOOLEAN : CommitFails(d) PROVE FALSE
  <2>1. at = "HUMAN_DECISION_REQUIRED" /\ pc \in {"commit", "frozen"}
    BY <1>1, <1>7 DEF CommitRefused, CommitFails
  <2>2. intent.how = "plain"
    BY <1>2, <2>1 DEF Resuming
  <2>3. QED
    BY <1>1, <1>7, <2>2 DEF CommitRefused, CommitFails
<1>8. ASSUME FreezeOwner PROVE FALSE
  <2>1. at = "HUMAN_DECISION_REQUIRED" /\ pc = "commit" /\ intent.how = "final"
    BY <1>1, <1>8 DEF FreezeOwner, Freeze, MaySelect, ClosesOwner
  <2>2. QED
    BY <1>2, <2>1 DEF Resuming
<1>9. CASE Signal \/ Crash
  BY <1>4, <1>9 DEF Signal, Crash
<1>10. CASE \E op \in Cancels : ServiceStep(op)
  <2>1. UNCHANGED <<at, pc, intent, ledger>>
    BY <1>10 DEF ServiceStep, Validate, Receive, Refuse, Replay, RejectOutsideWindow, ReconcileAbandoned, runVars
  <2>2. QED
    BY <1>4, <2>1
<1>11. CASE WatcherStep \/ \E d, m \in BOOLEAN : DeliverAmbiguous(d, m)
  <2>1. UNCHANGED <<at, pc, intent>>
    BY <1>11 DEF WatcherStep, PickUp, Observe, Reconcile, Claim, Deliver, DeliverIneligible, ReadWatermark, Drained,
                 DeliverAmbiguous, runVars
  <2>2. ledger' = ledger \/ Requests
    <3>1. CASE Deliver
      BY <3>1 DEF Deliver, Requests
    <3>2. ASSUME NEW d \in BOOLEAN, NEW m \in BOOLEAN, DeliverAmbiguous(d, m) PROVE ledger' = ledger \/ Requests
      BY <3>2 DEF DeliverAmbiguous, Requests
    <3>3. QED
      BY <1>11, <3>1, <3>2 DEF WatcherStep, PickUp, Observe, Reconcile, Claim, DeliverIneligible, ReadWatermark, Drained, runVars
  <2>3. QED
    BY <1>4, <2>1, <2>2
<1>12. CASE MainStep \/ CloseTimesOut
  <2>1. UNCHANGED <<at, pc, intent, ledger>>
    BY <1>12 DEF MainStep, BeginClose, Retire, CloseFails, CloseTimesOut, runVars
  <2>2. QED
    BY <1>4, <2>1
<1>13. QED
  BY <1>3, <1>5, <1>6, <1>7, <1>8, <1>9, <1>10, <1>11, <1>12 DEF CancelNext, RunnerAlone, RunnerStep

(* An answer recorded later, or a re-launched process, does not disturb it.*)
LEMMA StepsKeepResume ==
  ASSUME CancelTypeOK, RunnerSane, DecisionTypeOK, WorkSane, ResumeSane,
         (\E d \in Decisions : DecisionStep(d)) \/ ServeCrash
  PROVE  ResumeSane'
<1>1. UNCHANGED <<at, pc, intent>>
  BY StepsBesides DEF Besides
<1>2. ledger' = ledger \/ \E d \in Decisions : Answers(d)
  BY DecisionSteps
<1>3. Grown /\ Blockers(ledger') = Blockers(ledger)
  <2>1. ASSUME NEW d \in Decisions, Answers(d) PROVE Grown /\ Blockers(ledger') = Blockers(ledger)
    BY <2>1, AnsweredFacts
  <2>2. QED
    BY <1>2, <2>1, GrownFacts
<1>4. Resuming(intent.how, intent.to, ledger) => Resuming(intent.how, intent.to, ledger')
  BY <1>3, ResumingStays
<1>5. QED
  BY <1>1, <1>4 DEF ResumeSane, Resuming

\* ResumeFollowsTheAnswer of one transition.
Follows(l, t) ==
  \E b \in Blockers(l) : \E i \in AnswersTo(l, b) :
    /\ b < i /\ i < t /\ NoMarkBetween(l, b, t)
    /\ l[t].to = (IF l[i].ans = "proceed" THEN "AUTHORITY_VALIDATED" ELSE "FAILED")

(* A transition that followed an answer goes on to, as the ledger grows.   *)
LEMMA FollowsStays ==
  ASSUME CancelTypeOK, Grown, NEW t \in Marks(ledger), Follows(ledger, t)
  PROVE  Follows(ledger', t) /\ ledger'[t] = ledger[t]
<1>0. /\ ledger \in Seq(Event) /\ Len(ledger) \in Nat /\ DOMAIN ledger = 1..Len(ledger)
      /\ t \in DOMAIN ledger /\ t \in Nat /\ t <= Len(ledger) + 1
  <2>1. ledger \in Seq(Event)
    BY DEF CancelTypeOK, RunTypeOK
  <2>2. t \in DOMAIN ledger
    BY DEF Marks
  <2>3. Len(ledger) \in Nat /\ DOMAIN ledger = 1..Len(ledger)
    BY <2>1, LedgerFacts
  <2>4. QED
    BY <2>1, <2>2, <2>3
<1>a. PICK b \in Blockers(ledger) : \E i \in AnswersTo(ledger, b) :
        /\ b < i /\ i < t /\ NoMarkBetween(ledger, b, t)
        /\ ledger[t].to = (IF ledger[i].ans = "proceed" THEN "AUTHORITY_VALIDATED" ELSE "FAILED")
  BY DEF Follows
<1>1. PICK i \in AnswersTo(ledger, b) :
        /\ b < i /\ i < t /\ NoMarkBetween(ledger, b, t)
        /\ ledger[t].to = (IF ledger[i].ans = "proceed" THEN "AUTHORITY_VALIDATED" ELSE "FAILED")
  BY <1>a
<1>2. b \in DOMAIN ledger /\ i \in DOMAIN ledger
  BY DEF Blockers, AnswersTo
<1>3. b \in Nat
  BY <1>0, <1>2
<1>4. NoMarkBetween(ledger', b, t)
  BY <1>0, <1>1, <1>3 DEF Grown
<1>5. b \in Blockers(ledger') /\ i \in AnswersTo(ledger', b) /\ ledger'[i] = ledger[i] /\ ledger'[t] = ledger[t]
  BY <1>0, <1>2 DEF Grown
<1>6. QED
  BY <1>1, <1>4, <1>5 DEF Follows

(* A paused run moves on with the answer to its one pause, which is its    *)
(* newest transition.                                                      *)
LEMMA ResumedFollows ==
  ASSUME CancelTypeOK, RunnerSane, AnswersSane, PausesSane, ResumeSane, Grown, NEW e \in Event, Selects(e),
         e.from = "HUMAN_DECISION_REQUIRED", e.op = NoOp
  PROVE  Follows(ledger', Len(ledger) + 1)
<1>0. /\ ledger \in Seq(Event) /\ Len(ledger) \in Nat /\ DOMAIN ledger = 1..Len(ledger) /\ HasLatest(ledger)
      /\ NoOp \notin Cancels
  BY LedgerFacts, OpsAssumption DEF CancelTypeOK, RunTypeOK, RunnerSane, Ops
<1>1. /\ at = "HUMAN_DECISION_REQUIRED" /\ CurrentState(ledger) = "HUMAN_DECISION_REQUIRED" /\ e.to = intent.to
      /\ pc \in {"commit", "frozen"} /\ ledger' = Append(ledger, e)
  BY <1>0 DEF Selects, ValidateTransition
<1>a. PICK b \in Blockers(ledger) : \E i \in AnswersTo(ledger, b) :
        /\ Blockers(ledger) = {b}
        /\ intent.to = (IF ledger[i].ans = "proceed" THEN "AUTHORITY_VALIDATED" ELSE "FAILED")
  BY <1>1 DEF ResumeSane
<1>2. PICK i \in AnswersTo(ledger, b) :
        /\ Blockers(ledger) = {b}
        /\ intent.to = (IF ledger[i].ans = "proceed" THEN "AUTHORITY_VALIDATED" ELSE "FAILED")
  BY <1>a
<1>3. b \in DOMAIN ledger /\ i \in DOMAIN ledger /\ ledger[i].kind = "API_HUMAN_DECISION_RECORDED" /\ ledger[i].ref = b
  BY DEF Blockers, AnswersTo
<1>4. b \in Nat /\ i \in Nat /\ b < i /\ i < Len(ledger) + 1
  <2>1. b < i
    BY <1>3 DEF AnswersSane
  <2>2. QED
    BY <1>0, <1>3, <2>1
<1>5. LatestTransition(ledger) = b
  <2>1. Marks(ledger) # {} /\ ledger[LatestTransition(ledger)].to = "HUMAN_DECISION_REQUIRED"
    BY <1>1 DEF CurrentState
  <2>2. LatestTransition(ledger) \in Marks(ledger)
    BY <1>0, <2>1, LatestFacts
  <2>3. LatestTransition(ledger) \in DOMAIN ledger
    BY <2>2 DEF Marks
  <2>4. QED
    BY <1>2, <2>1, <2>3 DEF PausesSane
<1>6. NoMarkBetween(ledger', b, Len(ledger) + 1)
  <2>1. \A k \in Marks(ledger) : k <= b /\ k \in Nat
    BY <1>0, <1>5, LatestFacts, LedgerFacts
  <2>2. \A k \in Marks(ledger) : ~(b < k)
    BY <1>4, <2>1
  <2>3. ~(Len(ledger) + 1 < Len(ledger) + 1)
    BY <1>0
  <2>4. QED
    BY <2>2, <2>3 DEF NoMarkBetween, Grown
<1>7. b \in Blockers(ledger') /\ i \in AnswersTo(ledger', b) /\ ledger'[i] = ledger[i]
  BY <1>3 DEF Grown
<1>8. ledger'[Len(ledger) + 1].to = intent.to
  <2>1. Append(ledger, e)[Len(ledger) + 1] = e
    BY <1>0, AppendFacts
  <2>2. QED
    BY <1>1, <2>1
<1>9. QED
  BY <1>2, <1>4, <1>6, <1>7, <1>8 DEF Follows

(* Every step keeps ResumeFollowsTheAnswer.                                *)
LEMMA CancelKeepsFollows ==
  ASSUME CancelTypeOK, RunnerSane, AnswersSane, PausesSane, ResumeSane, ResumeFollowsTheAnswer, CancelNext
  PROVE  ResumeFollowsTheAnswer'
<1>0. /\ ledger \in Seq(Event) /\ Len(ledger) \in Nat /\ DOMAIN ledger = 1..Len(ledger) /\ Grown
      /\ item \in Cancels \cup {NoOp}
  BY LedgerFacts, CancelAppends DEF CancelTypeOK, RunTypeOK
<1>1. SUFFICES ASSUME NEW t \in Marks(ledger'), ledger'[t].from = "HUMAN_DECISION_REQUIRED", ledger'[t].op = NoOp
               PROVE  Follows(ledger', t)
  BY DEF ResumeFollowsTheAnswer, Follows
<1>2. CASE t \in Marks(ledger)
  <2>1. t \in DOMAIN ledger
    BY <1>2 DEF Marks
  <2>2. ledger'[t] = ledger[t]
    BY <1>0, <2>1 DEF Grown
  <2>3. Follows(ledger, t)
    BY <1>1, <1>2, <2>2 DEF ResumeFollowsTheAnswer, Follows
  <2>4. QED
    BY <1>0, <1>2, <2>3, FollowsStays
<1>3. CASE t \notin Marks(ledger)
  <2>1. t = Len(ledger) + 1 /\ ledger' # ledger
    BY <1>0, <1>1, <1>3 DEF Grown
  <2>a. ASSUME NEW e \in Event, ledger' = Append(ledger, e) PROVE ledger'[t] = e
    BY <1>0, <2>1, <2>a, AppendFacts
  <2>b. ledger'[t].to # ""
    BY <1>1 DEF Marks
  <2>2. ~Create
    <3>1. SUFFICES ASSUME Create PROVE FALSE
      OBVIOUS
    <3>2. ledger' = Append(ledger, CreatedEvent) /\ CreatedEvent \in Event /\ CreatedEvent.from = ""
      BY <3>1, EventFacts DEF Create, CreatedEvent
    <3>3. QED
      BY <1>1, <2>a, <3>2
  <2>3. ~Requests
    <3>1. SUFFICES ASSUME Requests PROVE FALSE
      OBVIOUS
    <3>2. ledger' = Append(ledger, CancelRequestEvent(item)) /\ CancelRequestEvent(item) \in Event /\ CancelRequestEvent(item).to = ""
      BY <1>0, <3>1, EventFacts DEF Requests, Delivering, CancelRequestEvent
    <3>3. QED
      BY <2>a, <2>b, <3>2
  <2>4. PICK e \in Event : Selects(e)
    BY <2>1, <2>2, <2>3, LedgerSteps
  <2>5. ledger' = Append(ledger, e)
    BY <2>4 DEF Selects
  <2>6. e.from = "HUMAN_DECISION_REQUIRED" /\ e.op = NoOp
    BY <1>1, <2>a, <2>5
  <2>7. QED
    BY <1>0, <2>1, <2>4, <2>6, ResumedFollows
<1>4. QED
  BY <1>2, <1>3

(* The steps of the decision service set no state.                         *)
LEMMA StepsKeepFollows ==
  ASSUME CancelTypeOK, RunnerSane, DecisionTypeOK, WorkSane, ResumeFollowsTheAnswer,
         (\E d \in Decisions : DecisionStep(d) \/ ResumeRun(d)) \/ ServeCrash
  PROVE  ResumeFollowsTheAnswer'
<1>1. Grown /\ Marks(ledger') = Marks(ledger)
  <2>1. ASSUME NEW d \in Decisions, Answers(d) PROVE Grown /\ Marks(ledger') = Marks(ledger)
    BY <2>1, AnsweredFacts
  <2>2. ledger' = ledger \/ \E d \in Decisions : Answers(d)
    BY DecisionSteps
  <2>3. QED
    BY <2>1, <2>2, GrownFacts
<1>2. SUFFICES ASSUME NEW t \in Marks(ledger), ledger'[t].from = "HUMAN_DECISION_REQUIRED", ledger'[t].op = NoOp
               PROVE  Follows(ledger', t)
  BY <1>1 DEF ResumeFollowsTheAnswer, Follows
<1>3. t \in DOMAIN ledger
  BY <1>2 DEF Marks
<1>4. ledger'[t] = ledger[t]
  BY <1>1, <1>3 DEF Grown
<1>5. Follows(ledger, t)
  BY <1>2, <1>4 DEF ResumeFollowsTheAnswer, Follows
<1>6. QED
  BY <1>1, <1>2, <1>5, FollowsStays

-----------------------------------------------------------------------------
(* The invariant, and what follows from it.                                *)

(* Nothing has been asked, answered or recorded.                           *)
LEMMA DecisionStarts ==
  ASSUME DecisionInit
  PROVE  DecisionInv
<1>1. CancelInv
  BY CancelStarts DEF DecisionInit
<1>2. ledger = <<>> /\ pc = "choose" /\ gen = 1 /\ status = [o \in Ops |-> "NONE"]
  BY DEF DecisionInit, CancelInit, RunInit, BoxInit
<1>3. DOMAIN ledger = {}
  <2>1. DOMAIN <<>> = {}
    OBVIOUS
  <2>2. QED
    BY <1>2, <2>1, Zenon
<1>4. gen \in 1..MaxGen
  <2>1. 1 \in 1..MaxGen
    BY MaxGenAssumption
  <2>2. QED
    BY <1>2, <2>1
<1>5. DecisionTypeOK
  BY <1>1, <1>4 DEF CancelInv, DecisionInit, DecisionTypeOK, Stage, Answer
<1>6. AnswersSane /\ PausesSane /\ OneAnswerPerBlocker
  BY <1>3 DEF AnswersSane, PausesSane, OneAnswerPerBlocker
<1>7. WorkSane
  BY <1>2 DEF DecisionInit, WorkSane, AppliedStatus, Ops
<1>8. ResumeSane
  BY <1>2 DEF ResumeSane
<1>9. ResumeFollowsTheAnswer
  <2>1. Marks(ledger) = {}
    BY <1>3, Zenon DEF Marks
  <2>2. QED
    BY <2>1 DEF ResumeFollowsTheAnswer
<1>10. QED
  BY <1>1, <1>5, <1>6, <1>7, <1>8, <1>9 DEF DecisionInv

(* Every step of every process keeps it.                                   *)
LEMMA DecisionStepKeeps ==
  ASSUME DecisionInv, DecisionNext
  PROVE  DecisionInv'
<1>0. /\ CancelInv /\ DecisionTypeOK /\ AnswersSane /\ WorkSane /\ PausesSane /\ ResumeSane
      /\ OneAnswerPerBlocker /\ ResumeFollowsTheAnswer
  BY DEF DecisionInv
<1>1. CancelTypeOK /\ RunnerSane /\ Numbered
  BY <1>0 DEF CancelInv
<1>2. CASE CancelNext /\ UNCHANGED decisionVars
  <2>1. CancelInv'
    BY <1>0, <1>2, CancelStep
  <2>2. gen' = gen /\ ref' = ref /\ ans' = ans /\ work' = work
    <3>1. gen' = gen
      BY <1>2 DEF CancelNext, RunnerAlone, FreezeOwner, ServiceStep, Validate, Receive, Refuse, Replay, RejectOutsideWindow,
             ReconcileAbandoned, WatcherStep, PickUp, Observe, Reconcile, Claim, Deliver, DeliverIneligible,
             ReadWatermark, Drained, DeliverAmbiguous, MainStep, BeginClose, Retire, CloseFails, CloseTimesOut, boxVars
    <3>2. QED
      BY <1>2, <3>1 DEF decisionVars
  <2>3. DecisionTypeOK'
    BY <1>0, <2>1, <2>2 DEF DecisionTypeOK, CancelInv
  <2>4. AnswersSane' /\ WorkSane' /\ PausesSane' /\ OneAnswerPerBlocker'
    BY <1>0, <1>1, <1>2, CancelKeepsAnswers
  <2>5. ResumeSane' /\ ResumeFollowsTheAnswer'
    BY <1>0, <1>1, <1>2, CancelKeepsResume, CancelKeepsFollows
  <2>6. QED
    BY <2>1, <2>3, <2>4, <2>5 DEF DecisionInv
<1>3. CASE (\E d \in Decisions : DecisionStep(d)) \/ ServeCrash
  <2>1. DecisionTypeOK' /\ Numbered' /\ Besides
    BY <1>0, <1>1, <1>3, DecisionTypes, StepsBesides
  <2>2. CancelInv'
    BY <1>0, <2>1, BesidesKeeps DEF DecisionTypeOK
  <2>3. AnswersSane' /\ WorkSane' /\ PausesSane' /\ OneAnswerPerBlocker'
    BY <1>0, <1>1, <1>3, StepsKeepAnswers
  <2>4. ResumeSane' /\ ResumeFollowsTheAnswer'
    BY <1>0, <1>1, <1>3, StepsKeepResume, StepsKeepFollows
  <2>5. QED
    BY <2>1, <2>2, <2>3, <2>4 DEF DecisionInv
<1>4. ASSUME NEW d \in Decisions, ResumeRun(d) PROVE DecisionInv'
  <2>1. CancelInv' /\ DecisionTypeOK'
    BY <1>0, <1>4, ResumeKeeps
  <2>2. AnswersSane' /\ WorkSane' /\ PausesSane' /\ OneAnswerPerBlocker' /\ ResumeFollowsTheAnswer'
    BY <1>0, <1>1, <1>4, StepsKeepAnswers, StepsKeepFollows
  <2>3. ResumeSane'
    <3>1. pc' = "choose" \/ UNCHANGED <<ledger, at, pc, intent>>
      BY <1>4 DEF ResumeRun, runVars
    <3>2. QED
      BY <1>0, <3>1 DEF ResumeSane
  <2>4. QED
    BY <2>1, <2>2, <2>3 DEF DecisionInv
<1>5. QED
  BY <1>2, <1>3, <1>4 DEF DecisionNext, DecisionStep, WorkerStep

(* And so does a step that changes nothing.                                *)
LEMMA DecisionStutters ==
  ASSUME DecisionInv, UNCHANGED allVars
  PROVE  DecisionInv'
<1>1. CancelInv'
  BY CancelStutters DEF DecisionInv, allVars, cancelVars
<1>2. UNCHANGED <<ledger, at, pc, intent, gen, status, ref, ans, work>>
  BY DEF allVars, runVars, boxVars, decisionVars
<1>3. DecisionTypeOK'
  BY <1>1, <1>2 DEF DecisionInv, DecisionTypeOK, CancelInv
<1>4. AnswersSane' /\ WorkSane' /\ PausesSane'
  BY <1>2 DEF DecisionInv, AnswersSane, WorkSane, PausesSane
<1>5. ResumeSane' /\ OneAnswerPerBlocker' /\ ResumeFollowsTheAnswer'
  BY <1>2 DEF DecisionInv, ResumeSane, OneAnswerPerBlocker, ResumeFollowsTheAnswer
<1>6. QED
  BY <1>1, <1>3, <1>4, <1>5 DEF DecisionInv

(* DecisionInv holds in every reachable state of the decision action, and  *)
(* with it the invariant of the cancel action under resumed runs.          *)
THEOREM DecisionInvariant == DecisionSpec => []DecisionInv
<1>1. DecisionInit => DecisionInv
  BY DecisionStarts
<1>2. DecisionInv /\ [DecisionNext]_allVars => DecisionInv'
  BY DecisionStepKeeps, DecisionStutters
<1>3. QED
  BY <1>1, <1>2, PTL DEF DecisionSpec

(* applyDecision checks the blocker once more under the run-transition     *)
(* lease: one pause gets at most one answer, whoever races or crashes.     *)
THEOREM PauseIsAnsweredOnce == DecisionSpec => []OneAnswerPerBlocker
<1>1. DecisionInv => OneAnswerPerBlocker
  BY DEF DecisionInv
<1>2. QED
  BY <1>1, DecisionInvariant, PTL

(* The journal's outcome of a decision is what the ledger shows, whether   *)
(* the worker settled it or a later one reconciled it.                     *)
THEOREM SettledDecisionsAreTrue == DecisionSpec => []DecisionOutcomesAreTrue
<1>1. DecisionInv => DecisionOutcomesAreTrue
  <2>1. SUFFICES ASSUME DecisionInv, NEW d \in Decisions
                 PROVE  LET recorded == \E i \in AnswersTo(ledger, ref[d]) : ledger[i].op = d /\ ledger[i].ans = ans[d]
                        IN  /\ status[d] \in AppliedStatus => recorded
                            /\ status[d] \in {"REJECTED", "REFUSED", "RESERVED", "RECEIVED", "RECONCILED_NOT_APPLIED"} => ~recorded
    BY DEF DecisionOutcomesAreTrue
  <2>2. AnswersSane /\ WorkSane
    BY <2>1 DEF DecisionInv
  <2>3. ASSUME NEW i \in AnswersTo(ledger, ref[d]), ledger[i].op = d
        PROVE  status[d] \in {"CLAIMED", "RECONCILIATION_REQUIRED", "APPLIED", "RECONCILED_APPLIED"}
    <3>1. i \in DOMAIN ledger /\ ledger[i].kind = "API_HUMAN_DECISION_RECORDED"
      BY DEF AnswersTo
    <3>2. QED
      BY <2>2, <2>3, <3>1 DEF AnswersSane
  <2>4. QED
    BY <2>2, <2>3 DEF WorkSane
<1>2. QED
  BY <1>1, DecisionInvariant, PTL

(* resumeFromHumanDecision moves a paused run on only as the answer to     *)
(* that pause says.                                                        *)
THEOREM AnswerDecidesTheResume == DecisionSpec => []ResumeFollowsTheAnswer
<1>1. DecisionInv => ResumeFollowsTheAnswer
  BY DEF DecisionInv
<1>2. QED
  BY <1>1, DecisionInvariant, PTL

(* Resumed runs keep what the cancel action promises: outcomes that are    *)
(* true, requests inside their window, a typed cause that decides.         *)
THEOREM ResumedRunsKeepCancels == DecisionSpec => [](CancelOutcomesAreTrue /\ DeliveredInsideWindow /\ CauseDecides)
<1>1. DecisionInv => CancelOutcomesAreTrue /\ DeliveredInsideWindow /\ CauseDecides
  BY DEF DecisionInv, CancelInv
<1>2. QED
  BY <1>1, DecisionInvariant, PTL
=============================================================================
