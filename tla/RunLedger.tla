------------------------------ MODULE RunLedger ------------------------------
(***************************************************************************)
(* The events of one run's JSONL ledger, as far as the runner, the cancel  *)
(* watcher and the decision controller tell them apart.  An event is       *)
(* identified by its position; the deterministic identifiers of the two    *)
(* API events are the operation that owns them.                            *)
(***************************************************************************)
EXTENDS RunStates, Naturals, Sequences

CONSTANTS Cancels,     \* operations of the cancel action
          Decisions    \* operations of the human-decision action

Ops == Cancels \cup Decisions

NoOp == "no-operation"
Live == "live"               \* a context that is not cancelled
Signalled == "signalled"     \* a context cancelled by SIGINT or SIGTERM

ASSUME OpsAssumption ==
  /\ Cancels \cap Decisions = {}
  /\ {NoOp, Live, Signalled} \cap Ops = {}

Answer == {"proceed", "abort"}

Kind == {"RUN_CREATED", "STATE_TRANSITION", "BLOCKER_DECISION_RECORDED",
         "API_CANCEL_REQUESTED", "API_HUMAN_DECISION_RECORDED"}

Source == {"authority-validator", "governed-runner", "ralphex-adapter",
           "governance-controller", "acceptance-controller", "exact-edit",
           "build-wall", "open-model-engine", "resume-controller",
           "service-action-watcher", "service-action-controller"}

\* from and to are empty for the two API events; op is the operation the
\* event carries; ref is the event it points at: the request of a cancelled
\* transition, the blocker an answer is for.
Event == [kind : Kind, from : State \cup {""}, to : State \cup {""}, src : Source,
          op : Ops \cup {NoOp}, ref : Nat, ans : Answer \cup {""}]

CreatedEvent ==
  [kind |-> "RUN_CREATED", from |-> "", to |-> "RUN_CREATED", src |-> "governed-runner",
   op |-> NoOp, ref |-> 0, ans |-> ""]

TransitionEvent(from, to, src, op, ref) ==
  [kind |-> "STATE_TRANSITION", from |-> from, to |-> to, src |-> src,
   op |-> op, ref |-> ref, ans |-> ""]

BlockerEvent(from, to, src) ==
  [kind |-> "BLOCKER_DECISION_RECORDED", from |-> from, to |-> to, src |-> src,
   op |-> NoOp, ref |-> 0, ans |-> ""]

CancelRequestEvent(op) ==
  [kind |-> "API_CANCEL_REQUESTED", from |-> "", to |-> "", src |-> "service-action-watcher",
   op |-> op, ref |-> 0, ans |-> ""]

DecisionEvent(op, ref, ans) ==
  [kind |-> "API_HUMAN_DECISION_RECORDED", from |-> "", to |-> "", src |-> "service-action-controller",
   op |-> op, ref |-> ref, ans |-> ans]

-----------------------------------------------------------------------------
\* The events that set the run's state.
Marks(l) == {i \in DOMAIN l : l[i].to # ""}

\* latestTransition: the newest of them, 0 when there is none.
LatestTransition(l) ==
  IF Marks(l) = {} THEN 0 ELSE CHOOSE i \in Marks(l) : \A j \in Marks(l) : j <= i

\* currentStateUnderTransitionLease, and the projection's CurrentState.
CurrentState(l) == IF Marks(l) = {} THEN "" ELSE l[LatestTransition(l)].to

\* The positions of op's request event, and of the transitions that carry op.
RequestsOf(l, op) == {i \in DOMAIN l : l[i].kind = "API_CANCEL_REQUESTED" /\ l[i].op = op}
TransitionsOf(l, op) == {i \in DOMAIN l : l[i].kind = "STATE_TRANSITION" /\ l[i].op = op}

\* No state was set strictly between positions i and j.
NoMarkBetween(l, i, j) == \A k \in Marks(l) : ~(i < k /\ k < j)

Blockers(l) == {i \in DOMAIN l : l[i].kind = "BLOCKER_DECISION_RECORDED"}

\* The answers recorded for the blocker at position b.
AnswersTo(l, b) == {i \in DOMAIN l : l[i].kind = "API_HUMAN_DECISION_RECORDED" /\ l[i].ref = b}

\* The ledger is a path of the lifecycle table: it begins with RUN_CREATED,
\* and each transition starts where the one before it ended.
ValidPath(l) ==
  /\ Len(l) > 0 => l[1] = CreatedEvent
  /\ \A i \in Marks(l) : i > 1 =>
       \E h \in Marks(l) : /\ h < i
                           /\ NoMarkBetween(l, h, i)
                           /\ l[i].from = l[h].to
                           /\ ValidateTransition(l[i].from, l[i].to)
=============================================================================
