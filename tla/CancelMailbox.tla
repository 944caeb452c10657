---------------------------- MODULE CancelMailbox ----------------------------
(***************************************************************************)
(* The cancel action across processes: the service admits a cancel into    *)
(* the action journal bound to the live owner lease, the watcher of that   *)
(* owner generation claims it, delivers it to the runner's context under   *)
(* the run-transition lease and records what the ledger proves, and the    *)
(* owner is closed at a frozen watermark, drained and retired.  Modelled   *)
(* from internal/actioncontrol (watcher and journal transactions),         *)
(* internal/actionapi (admission and reads), internal/runtimecatalog (the  *)
(* owner lease) and cmd/abcp (the order in which a run process shuts down).*)
(***************************************************************************)
EXTENDS RunProcess

VARIABLES
  gen,         \* generation of the run process
  owner,       \* ActiveOwnerLeaseV1: generation, state and drain watermark
  jseq,        \* receipts in the action journal so far
  status,      \* per operation: where its journal record stands
  seq,         \* per operation: the journal sequence of its receipt
  leaseOf,     \* per operation: the owner generation its receipt is bound to
  admitted,    \* per operation: the transition it was admitted against
  watcher,     \* "watching", "done" (drained) or "failed"
  item,        \* the received operation the watcher is working on
  delivered,   \* the operations this watcher delivered and has yet to prove
  through      \* the watcher has read the frozen watermark

boxVars == <<gen, owner, jseq, status, seq, leaseOf, admitted, watcher, item, delivered, through>>
journalVars == <<jseq, seq, leaseOf, admitted>>
watcherVars == <<watcher, item, delivered, through>>

\* NONE, VALIDATING, REFUSED and RESERVED are not journal statuses: no
\* request yet; a handler between its checks and its receipt; a request
\* answered 409; a request identity whose receipt is missing.
Status == {"NONE", "VALIDATING", "REFUSED", "RESERVED", "RECEIVED", "CLAIMED", "REJECTED", "APPLIED",
           "RECONCILIATION_REQUIRED", "RECONCILED_APPLIED", "RECONCILED_NOT_APPLIED"}
AppliedStatus == {"APPLIED", "RECONCILED_APPLIED"}
SettledStatus == {"REJECTED", "RECONCILED_NOT_APPLIED"} \cup AppliedStatus

Owner == [gen : Nat, state : {"ACTIVE", "CLOSING", "RETIRED"}, drain : Nat]

BoxInit ==
  /\ gen = 1 /\ owner = [gen |-> 1, state |-> "ACTIVE", drain |-> 0] /\ jseq = 0
  /\ status = [o \in Ops |-> "NONE"] /\ seq = [o \in Ops |-> 0]
  /\ leaseOf = [o \in Ops |-> 0] /\ admitted = [o \in Ops |-> 0]
  /\ watcher = "watching" /\ item = NoOp /\ delivered = {} /\ through = FALSE

-----------------------------------------------------------------------------
\* VerifyLiveOwner: the exact process that installed the lease still runs.
OwnerLives == owner.gen = gen /\ proc = "running"

\* Mutant of InWindow: the drain watermark is not looked at.
InLease(op) == OwnerLives /\ leaseOf[op] = owner.gen /\ owner.state \in {"ACTIVE", "CLOSING"}

\* A lease may still deliver a receipt: the watcher's deliveryEligible and
\* the service's owner window.
InWindow(op) ==
  /\ OwnerLives /\ leaseOf[op] = owner.gen
  /\ \/ owner.state = "ACTIVE"
     \/ owner.state = "CLOSING" /\ seq[op] <= owner.drain

\* Mutant of SnapshotMatches: the state may have advanced since admission.
AnySnapshot(op) == TRUE

\* cancelSnapshotMatches: no transition since the operation was admitted.
SnapshotMatches(op) == LatestTransition(ledger) = admitted[op]

\* The sources a cancelled transition is accepted from.
CancelSources == {"authority-validator", "governed-runner", "ralphex-adapter",
                  "governance-controller", "acceptance-controller"}

MatchesCancelled(op, e, request) ==
  /\ e.from = ledger[admitted[op]].to /\ e.to = "CANCELLED"
  /\ e.src \in CancelSources /\ e.ref = request

\* Mutant of CancelProof: any cancellation after the request is taken for it.
CreditAnyCancelled(op) ==
  IF RequestsOf(ledger, op) = {} THEN "not_applied"
  ELSE IF CurrentState(ledger) = "CANCELLED" THEN "applied"
  ELSE IF CurrentState(ledger) \in Terminal THEN "not_applied" ELSE "unresolved"

\* Mutant of CancelProof: a request is waited for on a run that has ended.
ProofOnlyByExit(op) ==
  IF TransitionsOf(ledger, op) # {} THEN "applied"
  ELSE IF RequestsOf(ledger, op) = {} THEN "not_applied" ELSE "unresolved"

\* ReconcileCancelHistory: what the ledger proves about a claimed operation.
CancelProof(op) ==
  LET requests == RequestsOf(ledger, op)
      exits == TransitionsOf(ledger, op)
      Sound(r, t) == /\ r < t /\ NoMarkBetween(ledger, r, t)
                     /\ MatchesCancelled(op, ledger[t], r)
  IN  IF \/ \E r \in requests : ~(admitted[op] < r /\ NoMarkBetween(ledger, admitted[op], r))
         \/ exits # {} /\ ~ \E r \in requests : \A t \in exits : Sound(r, t)
      THEN "integrity"
      ELSE IF exits # {} THEN "applied"
      ELSE IF requests = {} \/ CurrentState(ledger) \in Terminal THEN "not_applied"
      ELSE "unresolved"

-----------------------------------------------------------------------------
(* The service.                                                            *)

\* AdmitAction up to validateCommon: a snapshot, taken under no lock.
Validate(op) ==
  /\ status[op] = "NONE" /\ ledger # <<>>
  /\ status' = [status EXCEPT ![op] = "VALIDATING"]
  /\ admitted' = [admitted EXCEPT ![op] = LatestTransition(ledger)]
  /\ UNCHANGED <<runVars, gen, owner, jseq, seq, leaseOf, watcherVars>>

\* CreateReceipt under journal -> catalog order, bound to an ACTIVE live
\* owner.  The identity becomes durable before the receipt: a handler that
\* dies in between (torn) leaves the request reserved.
Receive(op, torn) ==
  /\ status[op] = "VALIDATING" /\ OwnerLives /\ owner.state = "ACTIVE"
  /\ leaseOf' = [leaseOf EXCEPT ![op] = owner.gen]
  /\ IF torn
     THEN /\ faults < MaxFaults /\ faults' = faults + 1
          /\ status' = [status EXCEPT ![op] = "RESERVED"]
          /\ UNCHANGED <<jseq, seq>>
     ELSE /\ jseq' = jseq + 1 /\ seq' = [seq EXCEPT ![op] = jseq + 1]
          /\ status' = [status EXCEPT ![op] = "RECEIVED"]
          /\ UNCHANGED faults
  /\ UNCHANGED <<ledger, profile, proc, resumed, at, pc, intent, retried, ctx, gen, owner, admitted, watcherVars>>

\* 409 action_target_not_active.
Refuse(op) ==
  /\ status[op] = "VALIDATING" /\ ~(OwnerLives /\ owner.state = "ACTIVE")
  /\ status' = [status EXCEPT ![op] = "REFUSED"]
  /\ UNCHANGED <<runVars, gen, owner, journalVars, watcherVars>>

\* ReplayReceipt of an exact retry: the missing receipt is materialised from
\* the frozen identity, whatever became of the owner meanwhile.
Replay(op) ==
  /\ status[op] = "RESERVED"
  /\ jseq' = jseq + 1 /\ seq' = [seq EXCEPT ![op] = jseq + 1]
  /\ status' = [status EXCEPT ![op] = "RECEIVED"]
  /\ UNCHANGED <<runVars, gen, owner, leaseOf, admitted, watcherVars>>

\* Mutant of RejectOutsideWindow: a claimed or settled record is rejected too.
RejectAnyOutsideWindow(op) ==
  /\ seq[op] > 0 /\ ~InWindow(op)
  /\ status' = [status EXCEPT ![op] = "REJECTED"]
  /\ UNCHANGED <<runVars, gen, owner, journalVars, watcherVars>>

\* rejectCancelOutsideOwnerWindow, on a retry that finds the receipt.
RejectOutsideWindow(op) ==
  /\ status[op] = "RECEIVED" /\ ~InWindow(op)
  /\ status' = [status EXCEPT ![op] = "REJECTED"]
  /\ UNCHANGED <<runVars, gen, owner, journalVars, watcherVars>>

\* reconcileAbandonedCancel, on a status read once no live owner holds the
\* operation's lease: mark it, then record what the ledger proves.
Abandoned(op) == ~(OwnerLives /\ leaseOf[op] = owner.gen /\ owner.state \in {"ACTIVE", "CLOSING"})

Verdict(op) == IF CancelProof(op) = "applied" THEN "RECONCILED_APPLIED" ELSE "RECONCILED_NOT_APPLIED"

ReconcileAbandoned(op) ==
  /\ Abandoned(op)
  /\ \/ /\ status[op] = "CLAIMED"
        /\ status' = [status EXCEPT ![op] = "RECONCILIATION_REQUIRED"]
     \/ /\ status[op] = "RECONCILIATION_REQUIRED"
        /\ CancelProof(op) \in {"applied", "not_applied"}
        /\ status' = [status EXCEPT ![op] = Verdict(op)]
  /\ UNCHANGED <<runVars, gen, owner, journalVars, watcherVars>>

ServiceStep(op) ==
  \/ Validate(op) \/ Receive(op, FALSE) \/ Receive(op, TRUE) \/ Refuse(op)
  \/ Replay(op) \/ RejectOutsideWindow(op) \/ ReconcileAbandoned(op)

-----------------------------------------------------------------------------
(* The watcher of the live generation.                                     *)

Polling == proc = "running" /\ watcher = "watching"

\* OperationsForLease: an operation of this lease, up to the watermark once
\* the watcher knows it.
Mine(op) == leaseOf[op] = gen /\ (through => seq[op] <= owner.drain)

\* Mutant of PickUp: a closing owner takes nothing up.
PickUpWhileActive(op) ==
  /\ Polling /\ item = NoOp /\ status[op] = "RECEIVED" /\ Mine(op) /\ owner.state = "ACTIVE"
  /\ item' = op
  /\ UNCHANGED <<runVars, gen, owner, journalVars, status, watcher, delivered, through>>

\* poll finds a received operation, in journal order, and takes it up.
PickUp(op) ==
  /\ Polling /\ item = NoOp /\ status[op] = "RECEIVED" /\ Mine(op)
  /\ \A o \in Cancels : status[o] = "RECEIVED" /\ Mine(o) => seq[op] <= seq[o]
  /\ item' = op
  /\ UNCHANGED <<runVars, gen, owner, journalVars, status, watcher, delivered, through>>

\* claimAndDeliver up to the claim.  An operation the service settled since
\* the poll is a journal conflict, which ends the watcher.
Claim ==
  /\ Polling /\ item # NoOp /\ status[item] # "CLAIMED"
  /\ IF status[item] # "RECEIVED"
     THEN watcher' = "failed" /\ item' = NoOp /\ UNCHANGED status
     ELSE IF SnapshotMatches(item)
     THEN status' = [status EXCEPT ![item] = "CLAIMED"] /\ UNCHANGED <<watcher, item>>
     ELSE status' = [status EXCEPT ![item] = "REJECTED"] /\ item' = NoOp /\ UNCHANGED watcher
  /\ UNCHANGED <<runVars, gen, owner, journalVars, delivered, through>>

Delivering == Polling /\ item # NoOp /\ status[item] = "CLAIMED" /\ pc # "frozen"
Deliverable == InWindow(item) /\ SnapshotMatches(item)

\* deliver: under the run-transition lease the request event becomes durable
\* and the runner's context is cancelled with the typed cause.
Deliver ==
  /\ Delivering /\ Deliverable
  /\ ledger' = Append(ledger, CancelRequestEvent(item))
  /\ ctx' = CauseAfter(item)
  /\ delivered' = delivered \cup {item} /\ item' = NoOp
  /\ UNCHANGED <<profile, proc, resumed, at, pc, intent, retried, faults,
                 gen, owner, journalVars, status, watcher, through>>

\* deliver finds the owner closed past the receipt or the state advanced: the
\* marker; the outcome it records next, in a transaction of its own, is the one
\* Reconcile finds.
DeliverIneligible ==
  /\ Delivering /\ ~Deliverable
  /\ status' = [status EXCEPT ![item] = "RECONCILIATION_REQUIRED"] /\ item' = NoOp
  /\ UNCHANGED <<runVars, gen, owner, journalVars, watcher, delivered, through>>

\* The append reports an error: the request may be durable or not, the cause
\* is not set, and the marker itself may be lost.  The bounded reconciliation
\* that follows the marker is Reconcile.
DeliverAmbiguous(durable, marked) ==
  /\ Delivering /\ Deliverable /\ faults < MaxFaults
  /\ faults' = faults + 1
  /\ ledger' = IF durable THEN Append(ledger, CancelRequestEvent(item)) ELSE ledger
  /\ status' = IF marked THEN [status EXCEPT ![item] = "RECONCILIATION_REQUIRED"] ELSE status
  /\ item' = NoOp
  /\ UNCHANGED <<profile, proc, resumed, at, pc, intent, retried, ctx,
                 gen, owner, journalVars, watcher, delivered, through>>

\* observeDelivered: wait for the ledger's proof.
Observe(op) ==
  /\ Polling /\ item = NoOp /\ op \in delivered /\ status[op] = "CLAIMED" /\ Mine(op)
  /\ LET proof == CancelProof(op) IN
       /\ proof # "unresolved"
       /\ watcher' = IF proof = "integrity" THEN "failed" ELSE watcher
       /\ status' = CASE proof = "applied"     -> [status EXCEPT ![op] = "APPLIED"]
                      [] proof = "not_applied" -> [status EXCEPT ![op] = "RECONCILIATION_REQUIRED"]
                      [] OTHER                 -> status
       /\ delivered' = IF proof = "integrity" THEN delivered ELSE delivered \ {op}
  /\ UNCHANGED <<runVars, gen, owner, journalVars, item, through>>

\* reconcileLostClaim and reconcileCancel.
Reconcile(op) ==
  /\ Polling /\ item = NoOp /\ Mine(op)
  /\ \/ /\ status[op] = "CLAIMED" /\ op \notin delivered
        /\ status' = [status EXCEPT ![op] = "RECONCILIATION_REQUIRED"] /\ UNCHANGED watcher
     \/ /\ status[op] = "RECONCILIATION_REQUIRED" /\ CancelProof(op) = "integrity"
        /\ watcher' = "failed" /\ UNCHANGED status
     \/ /\ status[op] = "RECONCILIATION_REQUIRED" /\ CancelProof(op) \in {"applied", "not_applied"}
        /\ status' = [status EXCEPT ![op] = Verdict(op)] /\ UNCHANGED watcher
  /\ UNCHANGED <<runVars, gen, owner, journalVars, item, delivered, through>>

\* watch receives the watermark from BeginClose.
ReadWatermark ==
  /\ Polling /\ item = NoOp /\ ~through /\ owner.gen = gen /\ owner.state = "CLOSING"
  /\ through' = TRUE
  /\ UNCHANGED <<runVars, gen, owner, journalVars, status, watcher, item, delivered>>

\* drained: nothing received or claimed is left under the watermark.
Undrained(op) == leaseOf[op] = gen /\ seq[op] <= owner.drain /\ status[op] \in {"RECEIVED", "CLAIMED"}

\* Mutant of Drained: the watcher ends as soon as it knows the watermark.
DrainedAtWatermark ==
  /\ Polling /\ item = NoOp /\ through
  /\ watcher' = "done"
  /\ UNCHANGED <<runVars, gen, owner, journalVars, status, item, delivered, through>>

Drained ==
  /\ Polling /\ item = NoOp /\ through
  /\ \A op \in Cancels : ~Undrained(op)
  /\ watcher' = "done"
  /\ UNCHANGED <<runVars, gen, owner, journalVars, status, item, delivered, through>>

WatcherStep ==
  \/ \E op \in Cancels : PickUp(op) \/ Observe(op) \/ Reconcile(op)
  \/ Claim \/ Deliver \/ DeliverIneligible \/ ReadWatermark \/ Drained

-----------------------------------------------------------------------------
(* Closing the owner.                                                      *)

\* freeze: journal -> catalog order, the watermark is the journal's sequence.
\* A lease that is already closing keeps its watermark.
CloseOwner == owner' = IF owner.state = "ACTIVE" THEN [owner EXCEPT !.state = "CLOSING", !.drain = jseq] ELSE owner

\* BeginClose called by a successful final transition, the lease held.
FreezeOwner ==
  /\ Freeze /\ owner.gen = gen /\ CloseOwner
  /\ UNCHANGED <<gen, journalVars, status, watcherVars>>

\* BeginClose called by watcher.Close once Run has returned.
BeginClose ==
  /\ proc = "running" /\ pc = "returned" /\ owner.gen = gen /\ owner.state = "ACTIVE"
  /\ CloseOwner
  /\ UNCHANGED <<runVars, gen, journalVars, status, watcherVars>>

\* Close completes: the drained owner is retired and the process exits.
Retire ==
  /\ proc = "running" /\ pc = "returned" /\ owner.gen = gen /\ owner.state = "CLOSING" /\ watcher = "done"
  /\ owner' = [owner EXCEPT !.state = "RETIRED"]
  /\ proc' = "exited"
  /\ UNCHANGED <<ledger, profile, resumed, at, pc, intent, retried, ctx, faults,
                 gen, journalVars, status, watcherVars>>

\* All that is left to drain was delivered and the ledger does not decide it:
\* the drain waits for it until the deadline.
Stuck ==
  /\ item = NoOp /\ through
  /\ \E op \in Cancels : Undrained(op)
  /\ \A op \in Cancels : Undrained(op) => op \in delivered /\ CancelProof(op) = "unresolved"

\* Close returns an error (a failed watcher, or the five-second deadline):
\* the process exits and the lease stays CLOSING.
CloseFails ==
  /\ proc = "running" /\ pc = "returned" /\ owner.gen = gen /\ owner.state = "CLOSING"
  /\ watcher = "failed" \/ (watcher = "watching" /\ Stuck)
  /\ proc' = "exited"
  /\ UNCHANGED <<ledger, profile, resumed, at, pc, intent, retried, ctx, faults, boxVars>>

\* The five-second deadline of a healthy but slow drain.
CloseTimesOut ==
  /\ proc = "running" /\ pc = "returned" /\ owner.gen = gen /\ owner.state = "CLOSING"
  /\ watcher = "watching" /\ faults < MaxFaults
  /\ proc' = "exited" /\ faults' = faults + 1
  /\ UNCHANGED <<ledger, profile, resumed, at, pc, intent, retried, ctx, boxVars>>

MainStep == BeginClose \/ Retire \/ CloseFails

-----------------------------------------------------------------------------
RunnerAlone ==
  /\ RunnerStep \/ Signal \/ Crash \/ \E d \in BOOLEAN : CommitFails(d)
  /\ UNCHANGED boxVars

CancelInit == RunInit /\ BoxInit

CancelNext ==
  \/ RunnerAlone \/ FreezeOwner
  \/ \E op \in Cancels : ServiceStep(op)
  \/ WatcherStep \/ \E d, m \in BOOLEAN : DeliverAmbiguous(d, m)
  \/ MainStep \/ CloseTimesOut

cancelVars == <<runVars, boxVars>>

CancelSpec == CancelInit /\ [][CancelNext]_cancelVars

\* The runner, the watcher and main keep running while their process does;
\* nothing is assumed of clients, signals and failures.
CancelFairness ==
  /\ WF_cancelVars((RunnerStep /\ UNCHANGED boxVars) \/ FreezeOwner)
  /\ WF_cancelVars(WatcherStep)
  /\ WF_cancelVars(MainStep)

CancelFairSpec == CancelSpec /\ CancelFairness

-----------------------------------------------------------------------------
\* The type of the cancel mailbox: the records of the journal, of the owner
\* lease and of the runner have only the values the code writes.
CancelTypeOK ==
  /\ RunTypeOK
  /\ gen \in Nat /\ owner \in Owner /\ jseq \in Nat
  /\ status \in [Ops -> Status] /\ seq \in [Ops -> Nat]
  /\ leaseOf \in [Ops -> Nat] /\ admitted \in [Ops -> Nat]
  /\ watcher \in {"watching", "done", "failed"} /\ item \in Cancels \cup {NoOp}
  /\ delivered \subseteq Cancels /\ through \in BOOLEAN

(* The ledger of a run is always a path of the lifecycle table that begins *)
(* with RUN_CREATED, whatever failed, was cancelled or was appended twice. *)
LedgerIsAPath == ValidPath(ledger)

(* The run as its ledger shows it implements the abstract run history: it  *)
(* is created once and moves only along the lifecycle table, step by step. *)
History == INSTANCE RunHistory WITH
  state <- CurrentState(ledger),
  milestones <- {ledger[i].to : i \in Marks(ledger)} \cap
                {"AUTHORITY_VALIDATED", "IMPLEMENTATION_COMPLETED", "BRANCH_ACCEPTED", "INTEGRATION_ACCEPTED",
                 "READY_FOR_MERGE", "MERGED", "PRODUCTION_ACCEPTED"}

ImplementsHistory == History!Spec

(* What the journal tells the client of a cancel is what the ledger shows, *)
(* now and for ever after (settled records never change): an operation     *)
(* recorded applied has its request and, with no transition in between,    *)
(* the CANCELLED transition that names it and its request; one recorded    *)
(* rejected never had a request; one recorded not applied has no           *)
(* transition that names it.                                               *)
CancelOutcomesAreTrue ==
  \A op \in Cancels :
    /\ status[op] \in AppliedStatus =>
         \E r \in RequestsOf(ledger, op), t \in TransitionsOf(ledger, op) :
           r < t /\ NoMarkBetween(ledger, r, t) /\ ledger[t].to = "CANCELLED" /\ ledger[t].ref = r
    /\ status[op] \in {"REJECTED", "REFUSED"} => RequestsOf(ledger, op) = {} /\ TransitionsOf(ledger, op) = {}
    /\ status[op] = "RECONCILED_NOT_APPLIED" => TransitionsOf(ledger, op) = {}

(* A request becomes durable only inside the window of the owner it was    *)
(* admitted to: bound to the generation that delivered it, and at or below *)
(* the frozen watermark once that owner is closing; and it follows the     *)
(* transition it was admitted against with no other in between.            *)
DeliveredInsideWindow ==
  \A op \in Cancels : \A r \in RequestsOf(ledger, op) :
    /\ leaseOf[op] <= owner.gen
    /\ leaseOf[op] = owner.gen /\ owner.state # "ACTIVE" => seq[op] <= owner.drain
    /\ admitted[op] < r /\ NoMarkBetween(ledger, admitted[op], r)

(* EP006 section 3: when the lease becomes RETIRED, every receipt bound to *)
(* it at or below the watermark is settled or awaits reconciliation; and   *)
(* no operation bound to a retired owner is delivered to a later runner.   *)
RetiredOwnerIsDrained ==
  owner.state = "RETIRED" =>
    \A op \in Cancels : leaseOf[op] = owner.gen /\ status[op] \in {"RECEIVED", "CLAIMED"} => seq[op] > owner.drain

(* Success is frozen out of the reach of a cancel: once BRANCH_ACCEPTED or *)
(* another successful final transition closed the owner, no request is     *)
(* appended after it, so no operation is left waiting on a finished run.   *)
NoRequestAfterSuccess ==
  \A i \in DOMAIN ledger : ledger[i].to = "BRANCH_ACCEPTED" =>
    \A j \in DOMAIN ledger : ledger[j].kind = "API_CANCEL_REQUESTED" => j < i

(* Once a typed cancellation is the cause of the runner's context, the run *)
(* either stays where the request found it, is cancelled by that very      *)
(* operation, or had already classified a human-decision failure.          *)
CauseDecides ==
  ctx \in Cancels =>
    \A r \in RequestsOf(ledger, ctx) : \A t \in Marks(ledger) : t > r =>
      \/ ledger[t].to = "CANCELLED" /\ ledger[t].op = ctx
      \/ ledger[t].kind = "BLOCKER_DECISION_RECORDED"

(* Journal records are append-only progress: a settled operation never     *)
(* changes again, and only a received operation can be claimed, whichever  *)
(* of the watcher, a retry and a status read comes last.                   *)
SettledIsFinal ==
  [][\A op \in Ops : /\ status[op] \in SettledStatus => status'[op] = status[op]
                     /\ status'[op] = "CLAIMED" => status[op] \in {"RECEIVED", "CLAIMED"}]_cancelVars

(* A received cancel does not linger while its process lives: the watcher  *)
(* claims it or rejects it, through slow drains, lost markers and races    *)
(* with the closing owner.                                                 *)
ReceivedIsTakenUp ==
  \A op \in Cancels :
    (status[op] = "RECEIVED") ~> (status[op] # "RECEIVED" \/ watcher = "failed" \/ proc # "running")

(* A run that ended FAILED or CANCELLED with a source the watcher knows,   *)
(* and that met no failure, is drained and its owner lease retired, so     *)
(* that the next generation may be installed: nothing delivered to it      *)
(* stays undecided.                                                        *)
EndedRunRetires ==
  (CurrentState(ledger) \in Terminal /\ ledger[LatestTransition(ledger)].src \in CancelSources)
     ~> (owner.state = "RETIRED" \/ watcher = "failed" \/ faults > 0)
=============================================================================
