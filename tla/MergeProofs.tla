------------------------------ MODULE MergeProofs -----------------------------
(***************************************************************************)
(* The merge controller's safety, proved for every budget of calls and     *)
(* rounds and any number of crashes and events of other runs.              *)
(*                                                                         *)
(* None of the properties is inductive: whether a FAILED selection is      *)
(* honest depends on what the records say of the submission, that on the   *)
(* order the records are published in, and all of it on where the          *)
(* invocation is.  MergeInv puts these together, one named part for each   *)
(* concern.                                                                *)
(***************************************************************************)
EXTENDS MergeLifecycle, TLAPS

\* The positions of the terminal protocol, and those behind the barrier.
Ending == {"idle", "select", "event", "final", "resolve"}
Fenced == {"submission", "reserve", "submit", "transport", "response", "outcome", "settle", "postmerge",
           "observing-merge", "recover", "reconcile", "reconciling", "reconciled", "boundary"}
Fencing == {"install", "link", "unlink"}

\* A selection is made and carried out by one invocation at a time.
Selecting ==
  /\ pc \notin Ending => cores = {}
  /\ pc \notin {"idle", "final", "resolve"} => ledger = "READY_FOR_MERGE"
  /\ pc = "select" => cores \subseteq {sel} /\ sel \in Cores
  /\ pc \in {"event", "final"} => sel \in cores
  /\ pc = "final" => ledger = sel.dest
  /\ pc = "resolve" => ledger # "READY_FOR_MERGE"

\* The barrier stands from before the submission to the terminal event.
Barred ==
  /\ pc \in Fenced => BarrierFound
  /\ UnresolvedKeepsBarrier

\* Each record is published after the ones it rests on.
Chained ==
  /\ "preparation" \in records => "admission" \in records
  /\ "seal" \in records => "preparation" \in records
  /\ "sealed" \in records => "seal" \in records
  /\ "submission" \in records => "sealed" \in records
  /\ "post-merge" \in records => "merge-result" \in records
  /\ boundary \in Submitted => "sealed" \in records

\* What the position of the invocation says of the records.
Placed ==
  /\ pc = "observing-initial" => "admission" \notin records
  /\ pc \in {"create", "creating", "reading-commit"} => "preparation" \notin records
  /\ pc \in {"observing-final", "revalidated", "publish-seal"} => "seal" \notin records
  /\ pc \in {"prepare", "create", "creating", "reading-commit"} => "admission" \in records
  /\ pc \in {"create", "creating"} => "marker" \in records
  /\ pc \in {"seal", "observing-final", "revalidated", "publish-seal"} => "preparation" \in records
  /\ pc = "publish-sealed" => "seal" \in records
  /\ pc \in Fencing \cup Fenced => "sealed" \in records
  /\ pc \in {"reserve", "submit", "transport"} => "submission" \in records
  /\ pc \in {"postmerge", "observing-merge"} => "merge-result" \in records
  /\ pc = "index" => boundary # ""

\* The target reservation comes before the one request, the marker before the
\* one commit.
Counted ==
  /\ http = 1 => "submission" \in records
  /\ pc \in {"reserve", "submit"} => http = 0
  /\ pc = "transport" => http = 1 /\ sent = 0
  /\ sent <= http
  /\ remote = "unsent" <=> sent = 0
  /\ created <= 1
  /\ "marker" \notin records => created = 0
  /\ pc = "create" => created = 0

\* The provider's dispositions are true, and so is the applied result.
Told ==
  /\ pc \in {"outcome", "settle", "reconciled"} =>
       /\ disp = "APPLIED" => remote = "applied"
       /\ disp = "NOT_APPLIED" => remote \in {"unsent", "refused"}
  /\ "merge-result" \in records => remote = "applied"

\* What a selection says of the target.
Honest(c) ==
  /\ c.dest = "MERGED" => remote = "applied" /\ {"merge-result", "post-merge"} \subseteq records
  /\ c.dest = "FAILED" =>
       /\ c.reason \in {"before", "authority", "exhausted"} => remote = "unsent"
       /\ c.reason = "not-applied" => remote \in {"unsent", "refused"}
       /\ c.reason = "post-merge" => remote = "applied" /\ "merge-result" \in records

AllHonest == (\A c \in cores : Honest(c)) /\ (pc = "select" => Honest(sel))

MergeInv ==
  MergeTypeOK /\ OneSelection /\ Selecting /\ Barred /\ Chained /\ Placed /\ Counted /\ Told /\ AllHonest

(* The bounds are natural numbers.                                         *)
LEMMA Bounds == MaxCalls \in Nat /\ MaxRounds \in Nat /\ MaxCrashes \in Nat /\ MaxNoise \in Nat
BY MergeAssumption

(* What a terminal core's fields are.                                      *)
LEMMA CoreFields == \A a, b : Core(a, b).dest = a /\ Core(a, b).reason = b
BY DEF Core

(* The cores the controller selects are terminal cores.                    *)
LEMMA CoreKinds ==
  /\ Core("MERGED", "accepted") \in Cores
  /\ \A r \in {"before", "authority", "exhausted", "not-applied", "post-merge"} : Core("FAILED", r) \in Cores
  /\ \A b \in Boundary : Core("CANCELLED", b) \in Cores
BY DEF Cores

(* A terminal core has one of the three destinations.                      *)
LEMMA CoreDest == \A c \in Cores : c.dest \in {"MERGED", "FAILED", "CANCELLED"}
BY CoreFields DEF Cores

(* Where the submission record or the HTTP reservation is missing, or the  *)
(* run is still READY with no barrier, no target request was ever sent.    *)
LEMMA NothingSent ==
  ASSUME MergeInv,
         "submission" \notin records \/ http = 0 \/ (ledger = "READY_FOR_MERGE" /\ ~BarrierFound)
  PROVE  remote = "unsent"
<1>1. http \in {0, 1} /\ sent \in Nat
  BY DEF MergeInv, MergeTypeOK, CountersOK, WorldOK
<1>2. http = 0
  BY <1>1 DEF MergeInv, Counted, Barred, UnresolvedKeepsBarrier, TargetReserved
<1>3. sent = 0
  BY <1>1, <1>2 DEF MergeInv, Counted
<1> QED
  BY <1>3 DEF MergeInv, Counted

(* Submission and reconciliation answer APPLIED or NOT_APPLIED only when   *)
(* the target is.                                                          *)
LEMMA AnswersAreTrue ==
  ASSUME NEW r \in {"unsent", "inflight", "applied", "refused"},
         NEW dd \in SubmitAnswers(r) \cup ReconcileAnswers(r)
  PROVE  /\ dd \in Disposition
         /\ dd = "APPLIED" => r = "applied"
         /\ dd = "NOT_APPLIED" => r \in {"unsent", "refused"}
<1>1. CASE r = "applied"
  BY <1>1 DEF SubmitAnswers, ReconcileAnswers, Disposition
<1>2. CASE r = "inflight"
  BY <1>2 DEF SubmitAnswers, ReconcileAnswers, Disposition
<1>3. CASE r = "refused"
  BY <1>3 DEF SubmitAnswers, ReconcileAnswers, Disposition
<1>4. CASE r = "unsent"
  BY <1>4 DEF SubmitAnswers, ReconcileAnswers, Disposition
<1> QED
  BY <1>1, <1>2, <1>3, <1>4

(* A draft has seen no event that is not in the ledger.                    *)
LEMMA NoiseIsNat == MergeInv => noise \in Nat /\ seen \in Nat /\ seen <= noise
BY DEF MergeInv, MergeTypeOK, WorldOK

(* A CANCELLED core claims nothing of the target.                          *)
LEMMA CancelledIsHonest == \A b : Honest(Core("CANCELLED", b)) /\ Honest(Core("CANCELLED", b))'
BY CoreFields DEF Honest

(* A new draft sees the ledger as it is, an old one what it saw.           *)
LEMMA SeenStays ==
  ASSUME noise \in Nat /\ seen \in Nat /\ seen <= noise, noise' = noise /\ seen' \in {seen, noise}
  PROVE  (seen \in Nat /\ seen <= noise)'
OBVIOUS

(* recoverTerminal takes up the selection whose event is in the ledger.    *)
LEMMA RecoverTerminalKeeps ==
  ASSUME MergeInv, NEW c \in cores, RecoverTerminal(c)
  PROVE  MergeInv'
<1> USE DEF MergeInv, RecoverTerminal, memVars, storeVars, counterVars, draftVars, worldVars, envVars
<1>1. MemoryOK'
  BY CoreKinds DEF MergeTypeOK, MemoryOK, LedgerOK, CancelOK, Boundary, Placed, Position, Phase, Disposition
<1>2. (LedgerOK /\ StoreOK)'
  BY CoreDest DEF MergeTypeOK, MemoryOK, LedgerOK, StoreOK, BarrierFile, Record, Channel, Disposition,
         Selecting
<1>3. CountersOK'
  BY Bounds DEF MergeTypeOK, CountersOK
<1>4. CancelOK'
  BY Bounds DEF MergeTypeOK, StoreOK, CancelOK, WorldOK, Boundary, Disposition
<1>5. WorldOK'
  BY Bounds DEF MergeTypeOK, WorldOK
<1>6. (OneSelection /\ Selecting /\ Barred)'
  BY CoreFields, CoreKinds, CoreDest DEF MergeTypeOK, OneSelection, Selecting, Ending, Barred, Fenced,
         UnresolvedKeepsBarrier, LedgerOK, BarrierFound, BarrierUnreadable, TargetReserved
<1>7. (Chained /\ Placed)'
  BY DEF Chained, Placed, Fenced, Fencing, Submitted
<1>8. (Counted /\ Told)'
  BY DEF MergeTypeOK, Counted, Told, CountersOK, WorldOK, TargetReserved, Placed, Fenced
<1>9. AllHonest'
  BY CoreFields DEF AllHonest, Honest, Told, Placed, Chained, Selecting, Ending
<1> QED
  BY <1>1, <1>2, <1>3, <1>4, <1>5, <1>6, <1>7, <1>8, <1>9 DEF MergeTypeOK

(* finishSelectedTerminal takes up the one durable selection.              *)
LEMMA FinishSelectedKeeps ==
  ASSUME MergeInv, NEW c \in cores, FinishSelected(c)
  PROVE  MergeInv'
<1> USE DEF MergeInv, FinishSelected, memVars, storeVars, counterVars, draftVars, worldVars, envVars
<1>1. MemoryOK'
  BY CoreKinds DEF MergeTypeOK, MemoryOK, LedgerOK, CancelOK, Boundary, Placed, Position, Phase, Disposition
<1>2. (LedgerOK /\ StoreOK)'
  BY CoreDest DEF MergeTypeOK, MemoryOK, LedgerOK, StoreOK, BarrierFile, Record, Channel, Disposition,
         Selecting
<1>3. CountersOK'
  BY Bounds DEF MergeTypeOK, CountersOK
<1>4. CancelOK'
  BY Bounds DEF MergeTypeOK, StoreOK, CancelOK, WorldOK, Boundary, Disposition
<1>5. WorldOK'
  BY Bounds DEF MergeTypeOK, WorldOK
<1>6. (OneSelection /\ Selecting /\ Barred)'
  BY CoreFields, CoreKinds, CoreDest DEF MergeTypeOK, OneSelection, Selecting, Ending, Barred, Fenced,
         UnresolvedKeepsBarrier, LedgerOK, BarrierFound, BarrierUnreadable, TargetReserved
<1>7. (Chained /\ Placed)'
  BY DEF Chained, Placed, Fenced, Fencing, Submitted
<1>8. (Counted /\ Told)'
  BY DEF MergeTypeOK, Counted, Told, CountersOK, WorldOK, TargetReserved, Placed, Fenced
<1>9. AllHonest'
  BY CoreFields DEF AllHonest, Honest, Told, Placed, Chained, Selecting, Ending
<1> QED
  BY <1>1, <1>2, <1>3, <1>4, <1>5, <1>6, <1>7, <1>8, <1>9 DEF MergeTypeOK

(* recoverIndexedCancellation selects CANCELLED, or presents it and goes   *)
(* on.                                                                     *)
LEMMA RecoverIndexedKeeps ==
  ASSUME MergeInv, pc = "idle", ledger = "READY_FOR_MERGE", cores = {}, RecoverIndexed
  PROVE  MergeInv'
<1> USE DEF MergeInv, RecoverIndexed, Indexed, IndexedValid, LatestOutcome, memVars, storeVars,
       counterVars, draftVars, worldVars, envVars
<1>b. Core("CANCELLED", boundary) \in Cores
  BY CoreKinds DEF IndexedValid, Boundary
<1>c. Honest(Core("CANCELLED", boundary))'
  BY CancelledIsHonest
<1>d. pc' = "select" => sel' = Core("CANCELLED", boundary)'
  OBVIOUS
<1>1. MemoryOK'
  BY <1>b DEF MergeTypeOK, MemoryOK, Position, Phase
<1>2. (LedgerOK /\ StoreOK)'
  BY CoreDest DEF MergeTypeOK, MemoryOK, LedgerOK, StoreOK, BarrierFile, Record, Channel, Disposition,
         Selecting
<1>3. CountersOK'
  BY Bounds DEF MergeTypeOK, CountersOK
<1>4. CancelOK'
  BY Bounds DEF MergeTypeOK, StoreOK, CancelOK, WorldOK, Boundary, Disposition
<1>5. WorldOK'
  BY Bounds DEF MergeTypeOK, WorldOK
<1>6. (OneSelection /\ Selecting /\ Barred)'
  BY <1>b DEF OneSelection, Selecting, Ending, Barred, Fenced, UnresolvedKeepsBarrier, BarrierFound,
         TargetReserved
<1>7. (Chained /\ Placed)'
  BY DEF Chained, Placed, Fenced, Fencing, Submitted
<1>8. (Counted /\ Told)'
  BY DEF MergeTypeOK, Counted, Told, CountersOK, WorldOK, TargetReserved, Placed, Fenced
<1>9. AllHonest'
  BY <1>c, <1>d DEF AllHonest
<1> QED
  BY <1>1, <1>2, <1>3, <1>4, <1>5, <1>6, <1>7, <1>8, <1>9 DEF MergeTypeOK

(* executeAttempt starts only with nothing selected.                       *)
LEMMA StartAttemptKeeps ==
  ASSUME MergeInv, pc = "idle", ledger = "READY_FOR_MERGE", cores = {}, StartAttempt
  PROVE  MergeInv'
<1> USE DEF MergeInv, StartAttempt, memVars, storeVars, counterVars, draftVars, worldVars, envVars
<1>1. MemoryOK'
  BY CoreKinds DEF MergeTypeOK, MemoryOK, LedgerOK, CancelOK, Boundary, Placed, Position, Phase, Disposition
<1>2. (LedgerOK /\ StoreOK)'
  BY CoreDest DEF MergeTypeOK, MemoryOK, LedgerOK, StoreOK, BarrierFile, Record, Channel, Disposition,
         Selecting
<1>3. CountersOK'
  BY Bounds DEF MergeTypeOK, CountersOK
<1>4. CancelOK'
  BY Bounds DEF MergeTypeOK, StoreOK, CancelOK, WorldOK, Boundary, Disposition
<1>5. WorldOK'
  BY Bounds DEF MergeTypeOK, WorldOK
<1>6. (OneSelection /\ Selecting /\ Barred)'
  BY CoreFields, CoreKinds, CoreDest DEF MergeTypeOK, OneSelection, Selecting, Ending, Barred, Fenced,
         UnresolvedKeepsBarrier, LedgerOK, BarrierFound, BarrierUnreadable, TargetReserved
<1>7. (Chained /\ Placed)'
  BY DEF Chained, Placed, Fenced, Fencing, Submitted
<1>8. (Counted /\ Told)'
  BY DEF MergeTypeOK, Counted, Told, CountersOK, WorldOK, TargetReserved, Placed, Fenced
<1>9. AllHonest'
  BY CoreFields DEF AllHonest, Honest, Told, Placed, Chained, Selecting, Ending
<1> QED
  BY <1>1, <1>2, <1>3, <1>4, <1>5, <1>6, <1>7, <1>8, <1>9 DEF MergeTypeOK

(* buildCancellation drafts before the barrier, or fences first.           *)
LEMMA BuildCancellationKeeps ==
  ASSUME MergeInv, pc = "idle", ledger = "READY_FOR_MERGE", cores = {}, BuildCancellation
  PROVE  MergeInv'
<1> USE DEF MergeInv, BuildCancellation, PublishDraft, CancelGoes, memVars, storeVars, counterVars,
       draftVars, worldVars, envVars
<1>c. noise \in Nat /\ seen \in Nat /\ seen <= noise
  BY NoiseIsNat
<1>s. noise' = noise /\ seen' \in {seen, noise}
  OBVIOUS
<1>e. (seen \in Nat /\ seen <= noise)'
  BY <1>c, <1>s, SeenStays
<1>1. MemoryOK'
  BY CoreKinds DEF MergeTypeOK, MemoryOK, LedgerOK, CancelOK, Boundary, Placed, Position, Phase, Disposition
<1>2. (LedgerOK /\ StoreOK)'
  BY CoreDest DEF MergeTypeOK, MemoryOK, LedgerOK, StoreOK, BarrierFile, Record, Channel, Disposition,
         Selecting
<1>3. CountersOK'
  BY Bounds DEF MergeTypeOK, CountersOK
<1>4. CancelOK'
  BY Bounds DEF MergeTypeOK, StoreOK, CancelOK, WorldOK, Boundary, Disposition
<1>5. WorldOK'
  BY <1>e DEF MergeTypeOK, WorldOK
<1>6. (OneSelection /\ Selecting /\ Barred)'
  BY CoreFields, CoreKinds, CoreDest DEF MergeTypeOK, OneSelection, Selecting, Ending, Barred, Fenced,
         UnresolvedKeepsBarrier, LedgerOK, BarrierFound, BarrierUnreadable, TargetReserved
<1>7. (Chained /\ Placed)'
  BY DEF Chained, Placed, Fenced, Fencing, Submitted
<1>8. (Counted /\ Told)'
  BY DEF MergeTypeOK, Counted, Told, CountersOK, WorldOK, TargetReserved, Placed, Fenced
<1>9. AllHonest'
  BY CoreFields DEF AllHonest, Honest, Told, Placed, Chained, Selecting, Ending
<1> QED
  BY <1>1, <1>2, <1>3, <1>4, <1>5, <1>6, <1>7, <1>8, <1>9 DEF MergeTypeOK

(* With no barrier nothing was sent, so FAILED is honest.                  *)
LEMMA AuthorityFailsKeeps ==
  ASSUME MergeInv, AuthorityFails
  PROVE  MergeInv'
<1> USE DEF MergeInv, AuthorityFails, Select, memVars, storeVars, counterVars, draftVars, worldVars, envVars
<1>a. remote = "unsent"
  BY NothingSent
<1>1. MemoryOK'
  BY CoreKinds DEF MergeTypeOK, MemoryOK, LedgerOK, CancelOK, Boundary, Placed, Position, Phase, Disposition
<1>2. (LedgerOK /\ StoreOK)'
  BY CoreDest DEF MergeTypeOK, MemoryOK, LedgerOK, StoreOK, BarrierFile, Record, Channel, Disposition,
         Selecting
<1>3. CountersOK'
  BY Bounds DEF MergeTypeOK, CountersOK
<1>4. CancelOK'
  BY Bounds DEF MergeTypeOK, StoreOK, CancelOK, WorldOK, Boundary, Disposition
<1>5. WorldOK'
  BY Bounds DEF MergeTypeOK, WorldOK
<1>6. (OneSelection /\ Selecting /\ Barred)'
  BY CoreFields, CoreKinds, CoreDest DEF MergeTypeOK, OneSelection, Selecting, Ending, Barred, Fenced,
         UnresolvedKeepsBarrier, LedgerOK, BarrierFound, BarrierUnreadable, TargetReserved
<1>7. (Chained /\ Placed)'
  BY DEF Chained, Placed, Fenced, Fencing, Submitted
<1>8. (Counted /\ Told)'
  BY DEF MergeTypeOK, Counted, Told, CountersOK, WorldOK, TargetReserved, Placed, Fenced
<1>9. AllHonest'
  BY <1>a, CoreFields DEF AllHonest, Honest
<1> QED
  BY <1>1, <1>2, <1>3, <1>4, <1>5, <1>6, <1>7, <1>8, <1>9 DEF MergeTypeOK

(* The selection point: nothing else was selected.                         *)
LEMMA AppendIntentKeeps ==
  ASSUME MergeInv, AppendIntent
  PROVE  MergeInv'
<1> USE DEF MergeInv, AppendIntent, memVars, storeVars, counterVars, draftVars, worldVars, envVars
<1>1. MemoryOK'
  BY CoreKinds DEF MergeTypeOK, MemoryOK, LedgerOK, CancelOK, Boundary, Placed, Position, Phase, Disposition
<1>2. (LedgerOK /\ StoreOK)'
  BY CoreDest DEF MergeTypeOK, MemoryOK, LedgerOK, StoreOK, BarrierFile, Record, Channel, Disposition,
         Selecting
<1>3. CountersOK'
  BY Bounds DEF MergeTypeOK, CountersOK
<1>4. CancelOK'
  BY Bounds DEF MergeTypeOK, StoreOK, CancelOK, WorldOK, Boundary, Disposition
<1>5. WorldOK'
  BY Bounds DEF MergeTypeOK, WorldOK
<1>6. (OneSelection /\ Selecting /\ Barred)'
  BY CoreFields, CoreKinds, CoreDest DEF MergeTypeOK, OneSelection, Selecting, Ending, Barred, Fenced,
         UnresolvedKeepsBarrier, LedgerOK, BarrierFound, BarrierUnreadable, TargetReserved
<1>7. (Chained /\ Placed)'
  BY DEF Chained, Placed, Fenced, Fencing, Submitted
<1>8. (Counted /\ Told)'
  BY DEF MergeTypeOK, Counted, Told, CountersOK, WorldOK, TargetReserved, Placed, Fenced
<1>9. AllHonest'
  BY CoreFields DEF AllHonest, Honest, Told, Placed, Chained, Selecting, Ending
<1> QED
  BY <1>1, <1>2, <1>3, <1>4, <1>5, <1>6, <1>7, <1>8, <1>9 DEF MergeTypeOK

(* The event is the one selected.                                          *)
LEMMA AppendEventKeeps ==
  ASSUME MergeInv, AppendEvent
  PROVE  MergeInv'
<1> USE DEF MergeInv, AppendEvent, AppendOrVerify, authorizeTransition, ledgerVars, memVars, storeVars,
       counterVars, draftVars, worldVars, envVars
<1>1. MemoryOK'
  BY CoreKinds DEF MergeTypeOK, MemoryOK, LedgerOK, CancelOK, Boundary, Placed, Position, Phase, Disposition
<1>2. (LedgerOK /\ StoreOK)'
  BY CoreDest DEF MergeTypeOK, MemoryOK, LedgerOK, StoreOK, BarrierFile, Record, Channel, Disposition,
         Selecting
<1>3. CountersOK'
  BY Bounds DEF MergeTypeOK, CountersOK
<1>4. CancelOK'
  BY Bounds DEF MergeTypeOK, StoreOK, CancelOK, WorldOK, Boundary, Disposition
<1>5. WorldOK'
  BY Bounds DEF MergeTypeOK, WorldOK
<1>6. (OneSelection /\ Selecting /\ Barred)'
  BY CoreFields, CoreKinds, CoreDest DEF MergeTypeOK, OneSelection, Selecting, Ending, Barred, Fenced,
         UnresolvedKeepsBarrier, LedgerOK, BarrierFound, BarrierUnreadable, TargetReserved
<1>7. (Chained /\ Placed)'
  BY DEF Chained, Placed, Fenced, Fencing, Submitted
<1>8. (Counted /\ Told)'
  BY DEF MergeTypeOK, Counted, Told, CountersOK, WorldOK, TargetReserved, Placed, Fenced
<1>9. AllHonest'
  BY CoreFields DEF AllHonest, Honest, Told, Placed, Chained, Selecting, Ending
<1> QED
  BY <1>1, <1>2, <1>3, <1>4, <1>5, <1>6, <1>7, <1>8, <1>9 DEF MergeTypeOK

(* The final-terminals entry follows the event.                            *)
LEMMA AppendFinalKeeps ==
  ASSUME MergeInv, AppendFinal
  PROVE  MergeInv'
<1> USE DEF MergeInv, AppendFinal, memVars, storeVars, counterVars, draftVars, worldVars, envVars
<1>a. ledger # "READY_FOR_MERGE"
  BY CoreDest DEF MergeTypeOK, LedgerOK, Selecting
<1>1. MemoryOK'
  BY CoreKinds DEF MergeTypeOK, MemoryOK, LedgerOK, CancelOK, Boundary, Placed, Position, Phase, Disposition
<1>2. (LedgerOK /\ StoreOK)'
  BY CoreDest DEF MergeTypeOK, MemoryOK, LedgerOK, StoreOK, BarrierFile, Record, Channel, Disposition,
         Selecting
<1>3. CountersOK'
  BY Bounds DEF MergeTypeOK, CountersOK
<1>4. CancelOK'
  BY Bounds DEF MergeTypeOK, StoreOK, CancelOK, WorldOK, Boundary, Disposition
<1>5. WorldOK'
  BY Bounds DEF MergeTypeOK, WorldOK
<1>6. (OneSelection /\ Selecting /\ Barred)'
  BY <1>a DEF OneSelection, Selecting, Ending, Barred, Fenced, UnresolvedKeepsBarrier, BarrierFound,
         TargetReserved
<1>7. (Chained /\ Placed)'
  BY DEF Chained, Placed, Fenced, Fencing, Submitted
<1>8. (Counted /\ Told)'
  BY DEF MergeTypeOK, Counted, Told, CountersOK, WorldOK, TargetReserved, Placed, Fenced
<1>9. AllHonest'
  BY CoreFields DEF AllHonest, Honest, Told, Placed, Chained, Selecting, Ending
<1> QED
  BY <1>1, <1>2, <1>3, <1>4, <1>5, <1>6, <1>7, <1>8, <1>9 DEF MergeTypeOK

(* The barrier is resolved only after the terminal event.                  *)
LEMMA ResolveBarrierKeeps ==
  ASSUME MergeInv, ResolveBarrier
  PROVE  MergeInv'
<1> USE DEF MergeInv, ResolveBarrier, ResolveTransitionBarrier, memVars, storeVars, counterVars,
       draftVars, worldVars, envVars
<1>1. MemoryOK'
  BY CoreKinds DEF MergeTypeOK, MemoryOK, LedgerOK, CancelOK, Boundary, Placed, Position, Phase, Disposition
<1>2. (LedgerOK /\ StoreOK)'
  BY CoreDest DEF MergeTypeOK, MemoryOK, LedgerOK, StoreOK, BarrierFile, Record, Channel, Disposition,
         Selecting
<1>3. CountersOK'
  BY Bounds DEF MergeTypeOK, CountersOK
<1>4. CancelOK'
  BY Bounds DEF MergeTypeOK, StoreOK, CancelOK, WorldOK, Boundary, Disposition
<1>5. WorldOK'
  BY Bounds DEF MergeTypeOK, WorldOK
<1>6. (OneSelection /\ Selecting /\ Barred)'
  BY CoreFields, CoreKinds, CoreDest DEF MergeTypeOK, OneSelection, Selecting, Ending, Barred, Fenced,
         UnresolvedKeepsBarrier, LedgerOK, BarrierFound, BarrierUnreadable, TargetReserved
<1>7. (Chained /\ Placed)'
  BY DEF Chained, Placed, Fenced, Fencing, Submitted
<1>8. (Counted /\ Told)'
  BY DEF MergeTypeOK, Counted, Told, CountersOK, WorldOK, TargetReserved, Placed, Fenced
<1>9. AllHonest'
  BY CoreFields DEF AllHonest, Honest, Told, Placed, Chained, Selecting, Ending
<1> QED
  BY <1>1, <1>2, <1>3, <1>4, <1>5, <1>6, <1>7, <1>8, <1>9 DEF MergeTypeOK

(* A phase is skipped only when its record is there.                       *)
LEMMA SkipPhaseKeeps ==
  ASSUME MergeInv, SkipPhase
  PROVE  MergeInv'
<1> USE DEF MergeInv, SkipPhase, Goto, Phase, Done, After, memVars, storeVars, counterVars, draftVars,
       worldVars, envVars
<1>1. MemoryOK'
  BY CoreKinds DEF MergeTypeOK, MemoryOK, LedgerOK, CancelOK, Boundary, Placed, Position, Phase, Disposition
<1>2. (LedgerOK /\ StoreOK)'
  BY CoreDest DEF MergeTypeOK, MemoryOK, LedgerOK, StoreOK, BarrierFile, Record, Channel, Disposition,
         Selecting
<1>3. CountersOK'
  BY Bounds DEF MergeTypeOK, CountersOK
<1>4. CancelOK'
  BY Bounds DEF MergeTypeOK, StoreOK, CancelOK, WorldOK, Boundary, Disposition
<1>5. WorldOK'
  BY Bounds DEF MergeTypeOK, WorldOK
<1>6. (OneSelection /\ Selecting /\ Barred)'
  BY CoreFields, CoreKinds, CoreDest DEF MergeTypeOK, OneSelection, Selecting, Ending, Barred, Fenced,
         UnresolvedKeepsBarrier, LedgerOK, BarrierFound, BarrierUnreadable, TargetReserved
<1>7. (Chained /\ Placed)'
  BY DEF Chained, Placed, Fenced, Fencing, Submitted
<1>8. (Counted /\ Told)'
  BY DEF MergeTypeOK, Counted, Told, CountersOK, WorldOK, TargetReserved, Placed, Fenced
<1>9. AllHonest'
  BY CoreFields DEF AllHonest, Honest, Told, Placed, Chained, Selecting, Ending
<1> QED
  BY <1>1, <1>2, <1>3, <1>4, <1>5, <1>6, <1>7, <1>8, <1>9 DEF MergeTypeOK

(* Before the submission record a failure is honest.                       *)
LEMMA ReadPhaseKeeps ==
  ASSUME MergeInv, ReadPhase
  PROVE  MergeInv'
<1> USE DEF MergeInv, ReadPhase, Phase, Done, Call, FailBeforeSubmission, Select, ReserveCall,
       Unaccounted, Exhausted, memVars, storeVars, counterVars, draftVars, worldVars, envVars
<1>a. "submission" \notin records /\ cores = {}
  BY DEF Chained, Placed, Selecting, Ending
<1>b. remote = "unsent"
  BY <1>a, NothingSent
<1>1. MemoryOK'
  BY CoreKinds DEF MergeTypeOK, MemoryOK, LedgerOK, CancelOK, Boundary, Placed, Position, Phase, Disposition
<1>2. (LedgerOK /\ StoreOK)'
  BY CoreDest DEF MergeTypeOK, MemoryOK, LedgerOK, StoreOK, BarrierFile, Record, Channel, Disposition,
         Selecting
<1>3. CountersOK'
  BY Bounds DEF MergeTypeOK, CountersOK
<1>4. CancelOK'
  BY Bounds DEF MergeTypeOK, StoreOK, CancelOK, WorldOK, Boundary, Disposition
<1>5. WorldOK'
  BY Bounds DEF MergeTypeOK, WorldOK
<1>6. (OneSelection /\ Selecting /\ Barred)'
  BY CoreFields, CoreKinds, CoreDest DEF MergeTypeOK, OneSelection, Selecting, Ending, Barred, Fenced,
         UnresolvedKeepsBarrier, LedgerOK, BarrierFound, BarrierUnreadable, TargetReserved
<1>7. (Chained /\ Placed)'
  BY DEF Chained, Placed, Fenced, Fencing, Submitted
<1>8. (Counted /\ Told)'
  BY DEF MergeTypeOK, Counted, Told, CountersOK, WorldOK, TargetReserved, Placed, Fenced
<1>9. AllHonest'
  BY <1>a, <1>b, CoreFields DEF AllHonest, Honest, Told
<1> QED
  BY <1>1, <1>2, <1>3, <1>4, <1>5, <1>6, <1>7, <1>8, <1>9 DEF MergeTypeOK

(* The creation marker comes before the commit.                            *)
LEMMA PublishMarkerKeeps ==
  ASSUME MergeInv, PublishMarker
  PROVE  MergeInv'
<1> USE DEF MergeInv, PublishMarker, Publish, memVars, storeVars, counterVars, draftVars, worldVars, envVars
<1>a. cores = {}
  BY DEF Selecting, Ending
<1>1. MemoryOK'
  BY CoreKinds DEF MergeTypeOK, MemoryOK, LedgerOK, CancelOK, Boundary, Placed, Position, Phase, Disposition
<1>2. (LedgerOK /\ StoreOK)'
  BY CoreDest DEF MergeTypeOK, MemoryOK, LedgerOK, StoreOK, BarrierFile, Record, Channel, Disposition,
         Selecting
<1>3. CountersOK'
  BY Bounds DEF MergeTypeOK, CountersOK
<1>4. CancelOK'
  BY Bounds DEF MergeTypeOK, StoreOK, CancelOK, WorldOK, Boundary, Disposition
<1>5. WorldOK'
  BY Bounds DEF MergeTypeOK, WorldOK
<1>6. (OneSelection /\ Selecting /\ Barred)'
  BY CoreFields, CoreKinds, CoreDest DEF MergeTypeOK, OneSelection, Selecting, Ending, Barred, Fenced,
         UnresolvedKeepsBarrier, LedgerOK, BarrierFound, BarrierUnreadable, TargetReserved
<1>7. (Chained /\ Placed)'
  BY DEF Chained, Placed, Fenced, Fencing, Submitted
<1>8. (Counted /\ Told)'
  BY DEF MergeTypeOK, Counted, Told, CountersOK, WorldOK, TargetReserved, Placed, Fenced
<1>9. AllHonest'
  BY <1>a DEF AllHonest
<1> QED
  BY <1>1, <1>2, <1>3, <1>4, <1>5, <1>6, <1>7, <1>8, <1>9 DEF MergeTypeOK

(* Behind a fresh marker no commit was created yet.                        *)
LEMMA CreateCommitKeeps ==
  ASSUME MergeInv, CreateCommit
  PROVE  MergeInv'
<1> USE DEF MergeInv, CreateCommit, FailBeforeSubmission, Select, ReserveCall, Unaccounted, Exhausted,
       memVars, storeVars, counterVars, draftVars, worldVars, envVars
<1>a. "submission" \notin records /\ cores = {}
  BY DEF Chained, Placed, Selecting, Ending
<1>b. remote = "unsent"
  BY <1>a, NothingSent
<1>1. MemoryOK'
  BY CoreKinds DEF MergeTypeOK, MemoryOK, LedgerOK, CancelOK, Boundary, Placed, Position, Phase, Disposition
<1>2. (LedgerOK /\ StoreOK)'
  BY CoreDest DEF MergeTypeOK, MemoryOK, LedgerOK, StoreOK, BarrierFile, Record, Channel, Disposition,
         Selecting
<1>3. CountersOK'
  BY Bounds DEF MergeTypeOK, CountersOK
<1>4. CancelOK'
  BY Bounds DEF MergeTypeOK, StoreOK, CancelOK, WorldOK, Boundary, Disposition
<1>5. WorldOK'
  BY Bounds DEF MergeTypeOK, WorldOK
<1>6. (OneSelection /\ Selecting /\ Barred)'
  BY CoreFields, CoreKinds, CoreDest DEF MergeTypeOK, OneSelection, Selecting, Ending, Barred, Fenced,
         UnresolvedKeepsBarrier, LedgerOK, BarrierFound, BarrierUnreadable, TargetReserved
<1>7. (Chained /\ Placed)'
  BY DEF Chained, Placed, Fenced, Fencing, Submitted
<1>8. (Counted /\ Told)'
  BY DEF MergeTypeOK, Counted, Told, CountersOK, WorldOK, TargetReserved, Placed, Fenced
<1>9. AllHonest'
  BY <1>a, <1>b, CoreFields DEF AllHonest, Honest, Told
<1> QED
  BY <1>1, <1>2, <1>3, <1>4, <1>5, <1>6, <1>7, <1>8, <1>9 DEF MergeTypeOK

(* Each answered phase adds the record the next one rests on.              *)
LEMMA AnswerPhaseKeeps ==
  ASSUME MergeInv, AnswerPhase
  PROVE  MergeInv'
<1> USE DEF MergeInv, AnswerPhase, Phase, Done, After, Call, Accounted, memVars, storeVars, counterVars,
       draftVars, worldVars, envVars
<1>a. "submission" \notin records /\ cores = {}
  BY DEF Chained, Placed, Selecting, Ending
<1>b. remote = "unsent"
  BY <1>a, NothingSent
<1>1. MemoryOK'
  BY CoreKinds DEF MergeTypeOK, MemoryOK, LedgerOK, CancelOK, Boundary, Placed, Position, Phase, Disposition
<1>2. (LedgerOK /\ StoreOK)'
  BY CoreDest DEF MergeTypeOK, MemoryOK, LedgerOK, StoreOK, BarrierFile, Record, Channel, Disposition,
         Selecting
<1>3. CountersOK'
  BY Bounds DEF MergeTypeOK, CountersOK
<1>4. CancelOK'
  BY Bounds DEF MergeTypeOK, StoreOK, CancelOK, WorldOK, Boundary, Disposition
<1>5. WorldOK'
  BY Bounds DEF MergeTypeOK, WorldOK
<1>6. (OneSelection /\ Selecting /\ Barred)'
  BY CoreFields, CoreKinds, CoreDest DEF MergeTypeOK, OneSelection, Selecting, Ending, Barred, Fenced,
         UnresolvedKeepsBarrier, LedgerOK, BarrierFound, BarrierUnreadable, TargetReserved
<1>7. (Chained /\ Placed)'
  BY DEF Chained, Placed, Fenced, Fencing, Submitted
<1>8. (Counted /\ Told)'
  BY DEF MergeTypeOK, Counted, Told, CountersOK, WorldOK, TargetReserved, Placed, Fenced
<1>9. AllHonest'
  BY <1>a, <1>b, CoreFields DEF AllHonest, Honest, Told
<1> QED
  BY <1>1, <1>2, <1>3, <1>4, <1>5, <1>6, <1>7, <1>8, <1>9 DEF MergeTypeOK

(* The revalidation is published before the seal.                          *)
LEMMA PublishRevalidationKeeps ==
  ASSUME MergeInv, PublishRevalidation
  PROVE  MergeInv'
<1> USE DEF MergeInv, PublishRevalidation, Publish, FailBeforeSubmission, Select, memVars, storeVars,
       counterVars, draftVars, worldVars, envVars
<1>a. "submission" \notin records /\ cores = {}
  BY DEF Chained, Placed, Selecting, Ending
<1>b. remote = "unsent"
  BY <1>a, NothingSent
<1>1. MemoryOK'
  BY CoreKinds DEF MergeTypeOK, MemoryOK, LedgerOK, CancelOK, Boundary, Placed, Position, Phase, Disposition
<1>2. (LedgerOK /\ StoreOK)'
  BY CoreDest DEF MergeTypeOK, MemoryOK, LedgerOK, StoreOK, BarrierFile, Record, Channel, Disposition,
         Selecting
<1>3. CountersOK'
  BY Bounds DEF MergeTypeOK, CountersOK
<1>4. CancelOK'
  BY Bounds DEF MergeTypeOK, StoreOK, CancelOK, WorldOK, Boundary, Disposition
<1>5. WorldOK'
  BY Bounds DEF MergeTypeOK, WorldOK
<1>6. (OneSelection /\ Selecting /\ Barred)'
  BY CoreFields, CoreKinds, CoreDest DEF MergeTypeOK, OneSelection, Selecting, Ending, Barred, Fenced,
         UnresolvedKeepsBarrier, LedgerOK, BarrierFound, BarrierUnreadable, TargetReserved
<1>7. (Chained /\ Placed)'
  BY DEF Chained, Placed, Fenced, Fencing, Submitted
<1>8. (Counted /\ Told)'
  BY DEF MergeTypeOK, Counted, Told, CountersOK, WorldOK, TargetReserved, Placed, Fenced
<1>9. AllHonest'
  BY <1>a, <1>b, CoreFields DEF AllHonest, Honest, Told
<1> QED
  BY <1>1, <1>2, <1>3, <1>4, <1>5, <1>6, <1>7, <1>8, <1>9 DEF MergeTypeOK

(* The seal rests on the preparation.                                      *)
LEMMA PublishSealKeeps ==
  ASSUME MergeInv, PublishSeal
  PROVE  MergeInv'
<1> USE DEF MergeInv, PublishSeal, Publish, memVars, storeVars, counterVars, draftVars, worldVars, envVars
<1>1. MemoryOK'
  BY CoreKinds DEF MergeTypeOK, MemoryOK, LedgerOK, CancelOK, Boundary, Placed, Position, Phase, Disposition
<1>2. (LedgerOK /\ StoreOK)'
  BY CoreDest DEF MergeTypeOK, MemoryOK, LedgerOK, StoreOK, BarrierFile, Record, Channel, Disposition,
         Selecting
<1>3. CountersOK'
  BY Bounds DEF MergeTypeOK, CountersOK
<1>4. CancelOK'
  BY Bounds DEF MergeTypeOK, StoreOK, CancelOK, WorldOK, Boundary, Disposition
<1>5. WorldOK'
  BY Bounds DEF MergeTypeOK, WorldOK
<1>6. (OneSelection /\ Selecting /\ Barred)'
  BY CoreFields, CoreKinds, CoreDest DEF MergeTypeOK, OneSelection, Selecting, Ending, Barred, Fenced,
         UnresolvedKeepsBarrier, LedgerOK, BarrierFound, BarrierUnreadable, TargetReserved
<1>7. (Chained /\ Placed)'
  BY DEF Chained, Placed, Fenced, Fencing, Submitted
<1>8. (Counted /\ Told)'
  BY DEF MergeTypeOK, Counted, Told, CountersOK, WorldOK, TargetReserved, Placed, Fenced
<1>9. AllHonest'
  BY CoreFields DEF AllHonest, Honest, Told, Placed, Chained, Selecting, Ending
<1> QED
  BY <1>1, <1>2, <1>3, <1>4, <1>5, <1>6, <1>7, <1>8, <1>9 DEF MergeTypeOK

(* The sealed submission rests on the seal.                                *)
LEMMA PublishSealedKeeps ==
  ASSUME MergeInv, PublishSealed
  PROVE  MergeInv'
<1> USE DEF MergeInv, PublishSealed, Publish, memVars, storeVars, counterVars, draftVars, worldVars, envVars
<1>1. MemoryOK'
  BY CoreKinds DEF MergeTypeOK, MemoryOK, LedgerOK, CancelOK, Boundary, Placed, Position, Phase, Disposition
<1>2. (LedgerOK /\ StoreOK)'
  BY CoreDest DEF MergeTypeOK, MemoryOK, LedgerOK, StoreOK, BarrierFile, Record, Channel, Disposition,
         Selecting
<1>3. CountersOK'
  BY Bounds DEF MergeTypeOK, CountersOK
<1>4. CancelOK'
  BY Bounds DEF MergeTypeOK, StoreOK, CancelOK, WorldOK, Boundary, Disposition
<1>5. WorldOK'
  BY Bounds DEF MergeTypeOK, WorldOK
<1>6. (OneSelection /\ Selecting /\ Barred)'
  BY CoreFields, CoreKinds, CoreDest DEF MergeTypeOK, OneSelection, Selecting, Ending, Barred, Fenced,
         UnresolvedKeepsBarrier, LedgerOK, BarrierFound, BarrierUnreadable, TargetReserved
<1>7. (Chained /\ Placed)'
  BY DEF Chained, Placed, Fenced, Fencing, Submitted
<1>8. (Counted /\ Told)'
  BY DEF MergeTypeOK, Counted, Told, CountersOK, WorldOK, TargetReserved, Placed, Fenced
<1>9. AllHonest'
  BY CoreFields DEF AllHonest, Honest, Told, Placed, Chained, Selecting, Ending
<1> QED
  BY <1>1, <1>2, <1>3, <1>4, <1>5, <1>6, <1>7, <1>8, <1>9 DEF MergeTypeOK

(* The barrier is published behind the sealed submission; a torn stage     *)
(* means that nothing was sent.                                            *)
LEMMA InstallBarrierKeeps ==
  ASSUME MergeInv, InstallBarrier
  PROVE  MergeInv'
<1> USE DEF MergeInv, InstallBarrier, Goto, AfterInstall, FailBeforeSubmission, Select, StageBarrier,
       LinkBarrier, UnlinkStage, barrierFrame, memVars, storeVars, counterVars, draftVars, worldVars,
       envVars
<1>a. cores = {} /\ ledger = "READY_FOR_MERGE"
  BY DEF Selecting, Ending
<1>b. barrier = "torn" => remote = "unsent"
  BY <1>a, NothingSent DEF BarrierFound
<1>1. MemoryOK'
  BY CoreKinds DEF MergeTypeOK, MemoryOK, LedgerOK, CancelOK, Boundary, Placed, Position, Phase, Disposition
<1>2. (LedgerOK /\ StoreOK)'
  BY CoreDest DEF MergeTypeOK, MemoryOK, LedgerOK, StoreOK, BarrierFile, Record, Channel, Disposition,
         Selecting
<1>3. CountersOK'
  BY Bounds DEF MergeTypeOK, CountersOK
<1>4. CancelOK'
  BY Bounds DEF MergeTypeOK, StoreOK, CancelOK, WorldOK, Boundary, Disposition
<1>5. WorldOK'
  BY Bounds DEF MergeTypeOK, WorldOK
<1>6. (OneSelection /\ Selecting /\ Barred)'
  BY CoreFields, CoreKinds, CoreDest DEF MergeTypeOK, OneSelection, Selecting, Ending, Barred, Fenced,
         UnresolvedKeepsBarrier, LedgerOK, BarrierFound, BarrierUnreadable, TargetReserved
<1>7. (Chained /\ Placed)'
  BY DEF Chained, Placed, Fenced, Fencing, Submitted
<1>8. (Counted /\ Told)'
  BY DEF MergeTypeOK, Counted, Told, CountersOK, WorldOK, TargetReserved, Placed, Fenced
<1>9. AllHonest'
  BY <1>a, <1>b, CoreFields DEF AllHonest, Honest
<1> QED
  BY <1>1, <1>2, <1>3, <1>4, <1>5, <1>6, <1>7, <1>8, <1>9 DEF MergeTypeOK

(* Without an HTTP reservation the submission is still to be made.         *)
LEMMA EnsureSubmissionKeeps ==
  ASSUME MergeInv, EnsureSubmission
  PROVE  MergeInv'
<1> USE DEF MergeInv, EnsureSubmission, Publish, Goto, memVars, storeVars, counterVars, draftVars,
       worldVars, envVars
<1>a. http \in {0, 1}
  BY DEF MergeTypeOK, CountersOK
<1>1. MemoryOK'
  BY CoreKinds DEF MergeTypeOK, MemoryOK, LedgerOK, CancelOK, Boundary, Placed, Position, Phase, Disposition
<1>2. (LedgerOK /\ StoreOK)'
  BY CoreDest DEF MergeTypeOK, MemoryOK, LedgerOK, StoreOK, BarrierFile, Record, Channel, Disposition,
         Selecting
<1>3. CountersOK'
  BY Bounds DEF MergeTypeOK, CountersOK
<1>4. CancelOK'
  BY Bounds DEF MergeTypeOK, StoreOK, CancelOK, WorldOK, Boundary, Disposition
<1>5. WorldOK'
  BY Bounds DEF MergeTypeOK, WorldOK
<1>6. (OneSelection /\ Selecting /\ Barred)'
  BY CoreFields, CoreKinds, CoreDest DEF MergeTypeOK, OneSelection, Selecting, Ending, Barred, Fenced,
         UnresolvedKeepsBarrier, LedgerOK, BarrierFound, BarrierUnreadable, TargetReserved
<1>7. (Chained /\ Placed)'
  BY DEF Chained, Placed, Fenced, Fencing, Submitted
<1>8. (Counted /\ Told)'
  BY <1>a DEF Counted, Told, TargetReserved, Placed, Fenced
<1>9. AllHonest'
  BY CoreFields DEF AllHonest, Honest, Told, Placed, Chained, Selecting, Ending
<1> QED
  BY <1>1, <1>2, <1>3, <1>4, <1>5, <1>6, <1>7, <1>8, <1>9 DEF MergeTypeOK

(* A failed reservation fails a run that has sent nothing.                 *)
LEMMA ReserveSubmissionKeeps ==
  ASSUME MergeInv, ReserveSubmission
  PROVE  MergeInv'
<1> USE DEF MergeInv, ReserveSubmission, FailBeforeSubmission, Select, memVars, storeVars, counterVars,
       draftVars, worldVars, envVars
<1>a. http = 0 /\ cores = {}
  BY DEF Counted, Selecting, Ending
<1>b. remote = "unsent"
  BY <1>a, NothingSent
<1>1. MemoryOK'
  BY CoreKinds DEF MergeTypeOK, MemoryOK, LedgerOK, CancelOK, Boundary, Placed, Position, Phase, Disposition
<1>2. (LedgerOK /\ StoreOK)'
  BY CoreDest DEF MergeTypeOK, MemoryOK, LedgerOK, StoreOK, BarrierFile, Record, Channel, Disposition,
         Selecting
<1>3. CountersOK'
  BY Bounds DEF MergeTypeOK, CountersOK
<1>4. CancelOK'
  BY Bounds DEF MergeTypeOK, StoreOK, CancelOK, WorldOK, Boundary, Disposition
<1>5. WorldOK'
  BY Bounds DEF MergeTypeOK, WorldOK
<1>6. (OneSelection /\ Selecting /\ Barred)'
  BY CoreFields, CoreKinds, CoreDest DEF MergeTypeOK, OneSelection, Selecting, Ending, Barred, Fenced,
         UnresolvedKeepsBarrier, LedgerOK, BarrierFound, BarrierUnreadable, TargetReserved
<1>7. (Chained /\ Placed)'
  BY DEF Chained, Placed, Fenced, Fencing, Submitted
<1>8. (Counted /\ Told)'
  BY DEF MergeTypeOK, Counted, Told, CountersOK, WorldOK, TargetReserved, Placed, Fenced
<1>9. AllHonest'
  BY <1>a, <1>b, CoreFields DEF AllHonest, Honest, Told
<1> QED
  BY <1>1, <1>2, <1>3, <1>4, <1>5, <1>6, <1>7, <1>8, <1>9 DEF MergeTypeOK

(* The HTTP reservation is made once, before the transport.                *)
LEMMA SubmitTargetKeeps ==
  ASSUME MergeInv, SubmitTarget
  PROVE  MergeInv'
<1> USE DEF MergeInv, SubmitTarget, Goto, Select, Answered, Accounted, Unaccounted, Exhausted, memVars,
       storeVars, counterVars, draftVars, worldVars, envVars
<1>a. http = 0 /\ cores = {}
  BY DEF Counted, Selecting, Ending
<1>b. remote = "unsent"
  BY <1>a, NothingSent
<1>1. MemoryOK'
  BY CoreKinds DEF MergeTypeOK, MemoryOK, LedgerOK, CancelOK, Boundary, Placed, Position, Phase, Disposition
<1>2. (LedgerOK /\ StoreOK)'
  BY CoreDest DEF MergeTypeOK, MemoryOK, LedgerOK, StoreOK, BarrierFile, Record, Channel, Disposition,
         Selecting
<1>3. CountersOK'
  BY Bounds DEF MergeTypeOK, CountersOK
<1>4. CancelOK'
  BY Bounds DEF MergeTypeOK, StoreOK, CancelOK, WorldOK, Boundary, Disposition
<1>5. WorldOK'
  BY Bounds DEF MergeTypeOK, WorldOK
<1>6. (OneSelection /\ Selecting /\ Barred)'
  BY CoreFields, CoreKinds, CoreDest DEF MergeTypeOK, OneSelection, Selecting, Ending, Barred, Fenced,
         UnresolvedKeepsBarrier, LedgerOK, BarrierFound, BarrierUnreadable, TargetReserved
<1>7. (Chained /\ Placed)'
  BY DEF Chained, Placed, Fenced, Fencing, Submitted
<1>8. (Counted /\ Told)'
  BY <1>a, <1>b DEF MergeTypeOK, Counted, Told, CountersOK, WorldOK, TargetReserved, Placed, Fenced
<1>9. AllHonest'
  BY <1>a, <1>b, CoreFields DEF AllHonest, Honest, Told
<1> QED
  BY <1>1, <1>2, <1>3, <1>4, <1>5, <1>6, <1>7, <1>8, <1>9 DEF MergeTypeOK

(* The one request.                                                        *)
LEMMA TransportKeeps ==
  ASSUME MergeInv, Transport
  PROVE  MergeInv'
<1> USE DEF MergeInv, Transport, memVars, storeVars, counterVars, draftVars, worldVars, envVars
<1>1. MemoryOK'
  BY CoreKinds DEF MergeTypeOK, MemoryOK, LedgerOK, CancelOK, Boundary, Placed, Position, Phase, Disposition
<1>2. (LedgerOK /\ StoreOK)'
  BY CoreDest DEF MergeTypeOK, MemoryOK, LedgerOK, StoreOK, BarrierFile, Record, Channel, Disposition,
         Selecting
<1>3. CountersOK'
  BY Bounds DEF MergeTypeOK, CountersOK
<1>4. CancelOK'
  BY Bounds DEF MergeTypeOK, StoreOK, CancelOK, WorldOK, Boundary, Disposition
<1>5. WorldOK'
  BY Bounds DEF MergeTypeOK, WorldOK
<1>6. (OneSelection /\ Selecting /\ Barred)'
  BY CoreFields, CoreKinds, CoreDest DEF MergeTypeOK, OneSelection, Selecting, Ending, Barred, Fenced,
         UnresolvedKeepsBarrier, LedgerOK, BarrierFound, BarrierUnreadable, TargetReserved
<1>7. (Chained /\ Placed)'
  BY DEF Chained, Placed, Fenced, Fencing, Submitted
<1>8. (Counted /\ Told)'
  BY DEF MergeTypeOK, Counted, Told, CountersOK, WorldOK, TargetReserved, Placed, Fenced
<1>9. AllHonest'
  BY CoreFields DEF AllHonest, Honest, Told, Placed, Chained, Selecting, Ending
<1> QED
  BY <1>1, <1>2, <1>3, <1>4, <1>5, <1>6, <1>7, <1>8, <1>9 DEF MergeTypeOK

(* The provider decides an update in flight; no selection spoke of it.     *)
LEMMA RemoteDecidesKeeps ==
  ASSUME MergeInv, RemoteDecides
  PROVE  MergeInv'
<1> USE DEF MergeInv, RemoteDecides, memVars, storeVars, counterVars, draftVars, worldVars, envVars
<1>1. MemoryOK'
  BY CoreKinds DEF MergeTypeOK, MemoryOK, LedgerOK, CancelOK, Boundary, Placed, Position, Phase, Disposition
<1>2. (LedgerOK /\ StoreOK)'
  BY CoreDest DEF MergeTypeOK, MemoryOK, LedgerOK, StoreOK, BarrierFile, Record, Channel, Disposition,
         Selecting
<1>3. CountersOK'
  BY Bounds DEF MergeTypeOK, CountersOK
<1>4. CancelOK'
  BY Bounds DEF MergeTypeOK, StoreOK, CancelOK, WorldOK, Boundary, Disposition
<1>5. WorldOK'
  BY Bounds DEF MergeTypeOK, WorldOK
<1>6. (OneSelection /\ Selecting /\ Barred)'
  BY CoreFields, CoreKinds, CoreDest DEF MergeTypeOK, OneSelection, Selecting, Ending, Barred, Fenced,
         UnresolvedKeepsBarrier, LedgerOK, BarrierFound, BarrierUnreadable, TargetReserved
<1>7. (Chained /\ Placed)'
  BY DEF Chained, Placed, Fenced, Fencing, Submitted
<1>8. (Counted /\ Told)'
  BY DEF MergeTypeOK, Counted, Told, CountersOK, WorldOK, TargetReserved, Placed, Fenced
<1>9. AllHonest'
  BY CoreFields DEF AllHonest, Honest, Told, Placed, Chained, Selecting, Ending
<1> QED
  BY <1>1, <1>2, <1>3, <1>4, <1>5, <1>6, <1>7, <1>8, <1>9 DEF MergeTypeOK

(* The submission's answer is true.                                        *)
LEMMA ResponseKeeps ==
  ASSUME MergeInv, Response
  PROVE  MergeInv'
<1> USE DEF MergeInv, Response, Answered, Accounted, memVars, storeVars, counterVars, draftVars,
       worldVars, envVars
<1>a. /\ disp' \in Disposition /\ (disp' = "APPLIED" => remote = "applied")
      /\ (disp' = "NOT_APPLIED" => remote \in {"unsent", "refused"})
  BY AnswersAreTrue DEF MergeTypeOK, WorldOK
<1>1. MemoryOK'
  BY <1>a DEF MergeTypeOK, MemoryOK, Position, Phase
<1>2. (LedgerOK /\ StoreOK)'
  BY CoreDest DEF MergeTypeOK, MemoryOK, LedgerOK, StoreOK, BarrierFile, Record, Channel, Disposition,
         Selecting
<1>3. CountersOK'
  BY Bounds DEF MergeTypeOK, CountersOK
<1>4. CancelOK'
  BY Bounds DEF MergeTypeOK, StoreOK, CancelOK, WorldOK, Boundary, Disposition
<1>5. WorldOK'
  BY Bounds DEF MergeTypeOK, WorldOK
<1>6. (OneSelection /\ Selecting /\ Barred)'
  BY CoreFields, CoreKinds, CoreDest DEF MergeTypeOK, OneSelection, Selecting, Ending, Barred, Fenced,
         UnresolvedKeepsBarrier, LedgerOK, BarrierFound, BarrierUnreadable, TargetReserved
<1>7. (Chained /\ Placed)'
  BY DEF Chained, Placed, Fenced, Fencing, Submitted
<1>8. (Counted /\ Told)'
  BY <1>a DEF MergeTypeOK, Counted, Told, CountersOK, WorldOK, Placed, Fenced
<1>9. AllHonest'
  BY CoreFields DEF AllHonest, Honest, Told, Placed, Chained, Selecting, Ending
<1> QED
  BY <1>1, <1>2, <1>3, <1>4, <1>5, <1>6, <1>7, <1>8, <1>9 DEF MergeTypeOK

(* The outcome record leaves the barrier and the target alone.             *)
LEMMA PersistOutcomeKeeps ==
  ASSUME MergeInv, PersistOutcome
  PROVE  MergeInv'
<1> USE DEF MergeInv, PersistOutcome, Goto, memVars, storeVars, counterVars, draftVars, worldVars, envVars
<1>1. MemoryOK'
  BY CoreKinds DEF MergeTypeOK, MemoryOK, LedgerOK, CancelOK, Boundary, Placed, Position, Phase, Disposition
<1>2. (LedgerOK /\ StoreOK)'
  BY CoreDest DEF MergeTypeOK, MemoryOK, LedgerOK, StoreOK, BarrierFile, Record, Channel, Disposition,
         Selecting
<1>3. CountersOK'
  BY Bounds DEF MergeTypeOK, CountersOK
<1>4. CancelOK'
  BY Bounds DEF MergeTypeOK, StoreOK, CancelOK, WorldOK, Boundary, Disposition
<1>5. WorldOK'
  BY Bounds DEF MergeTypeOK, WorldOK
<1>6. (OneSelection /\ Selecting /\ Barred)'
  BY CoreFields, CoreKinds, CoreDest DEF MergeTypeOK, OneSelection, Selecting, Ending, Barred, Fenced,
         UnresolvedKeepsBarrier, LedgerOK, BarrierFound, BarrierUnreadable, TargetReserved
<1>7. (Chained /\ Placed)'
  BY DEF Chained, Placed, Fenced, Fencing, Submitted
<1>8. (Counted /\ Told)'
  BY DEF MergeTypeOK, Counted, Told, CountersOK, WorldOK, TargetReserved, Placed, Fenced
<1>9. AllHonest'
  BY CoreFields DEF AllHonest, Honest, Told, Placed, Chained, Selecting, Ending
<1> QED
  BY <1>1, <1>2, <1>3, <1>4, <1>5, <1>6, <1>7, <1>8, <1>9 DEF MergeTypeOK

(* An UNKNOWN submission keeps its barrier.                                *)
LEMMA UnresolvedKeeps ==
  ASSUME MergeInv, Unresolved
  PROVE  MergeInv'
<1> USE DEF MergeInv, Unresolved, Goto, memVars, storeVars, counterVars, draftVars, worldVars, envVars
<1>1. MemoryOK'
  BY CoreKinds DEF MergeTypeOK, MemoryOK, LedgerOK, CancelOK, Boundary, Placed, Position, Phase, Disposition
<1>2. (LedgerOK /\ StoreOK)'
  BY CoreDest DEF MergeTypeOK, MemoryOK, LedgerOK, StoreOK, BarrierFile, Record, Channel, Disposition,
         Selecting
<1>3. CountersOK'
  BY Bounds DEF MergeTypeOK, CountersOK
<1>4. CancelOK'
  BY Bounds DEF MergeTypeOK, StoreOK, CancelOK, WorldOK, Boundary, Disposition
<1>5. WorldOK'
  BY Bounds DEF MergeTypeOK, WorldOK
<1>6. (OneSelection /\ Selecting /\ Barred)'
  BY CoreFields, CoreKinds, CoreDest DEF MergeTypeOK, OneSelection, Selecting, Ending, Barred, Fenced,
         UnresolvedKeepsBarrier, LedgerOK, BarrierFound, BarrierUnreadable, TargetReserved
<1>7. (Chained /\ Placed)'
  BY DEF Chained, Placed, Fenced, Fencing, Submitted
<1>8. (Counted /\ Told)'
  BY DEF MergeTypeOK, Counted, Told, CountersOK, WorldOK, TargetReserved, Placed, Fenced
<1>9. AllHonest'
  BY CoreFields DEF AllHonest, Honest, Told, Placed, Chained, Selecting, Ending
<1> QED
  BY <1>1, <1>2, <1>3, <1>4, <1>5, <1>6, <1>7, <1>8, <1>9 DEF MergeTypeOK

(* The settled refusal is selected behind the barrier.                     *)
LEMMA SettleNotAppliedKeeps ==
  ASSUME MergeInv, SettleNotApplied
  PROVE  MergeInv'
<1> USE DEF MergeInv, SettleNotApplied, Select, Goto, Indexed, IndexedValid, memVars, storeVars,
       counterVars, draftVars, worldVars, envVars
<1>a. cores = {}
  BY DEF Selecting, Ending
<1>b. IndexedValid => Core("CANCELLED", boundary) \in Cores
  BY CoreKinds DEF IndexedValid, Boundary
<1>1. MemoryOK'
  BY CoreKinds DEF MergeTypeOK, MemoryOK, LedgerOK, CancelOK, Boundary, Placed, Position, Phase, Disposition
<1>2. (LedgerOK /\ StoreOK)'
  BY CoreDest DEF MergeTypeOK, MemoryOK, LedgerOK, StoreOK, BarrierFile, Record, Channel, Disposition,
         Selecting
<1>3. CountersOK'
  BY Bounds DEF MergeTypeOK, CountersOK
<1>4. CancelOK'
  BY Bounds DEF MergeTypeOK, StoreOK, CancelOK, WorldOK, Boundary, Disposition
<1>5. WorldOK'
  BY Bounds DEF MergeTypeOK, WorldOK
<1>6. (OneSelection /\ Selecting /\ Barred)'
  BY <1>a, <1>b, CoreKinds DEF OneSelection, Selecting, Ending, Barred, Fenced, UnresolvedKeepsBarrier,
         BarrierFound, TargetReserved
<1>7. (Chained /\ Placed)'
  BY DEF Chained, Placed, Fenced, Fencing, Submitted
<1>8. (Counted /\ Told)'
  BY DEF MergeTypeOK, Counted, Told, CountersOK, WorldOK, TargetReserved, Placed, Fenced
<1>9. AllHonest'
  BY CoreFields DEF AllHonest, Honest, Told, Placed, Chained, Selecting, Ending
<1> QED
  BY <1>1, <1>2, <1>3, <1>4, <1>5, <1>6, <1>7, <1>8, <1>9 DEF MergeTypeOK

(* The merge result records an applied update.                             *)
LEMMA SettleAppliedKeeps ==
  ASSUME MergeInv, SettleApplied
  PROVE  MergeInv'
<1> USE DEF MergeInv, SettleApplied, Publish, memVars, storeVars, counterVars, draftVars, worldVars, envVars
<1>1. MemoryOK'
  BY CoreKinds DEF MergeTypeOK, MemoryOK, LedgerOK, CancelOK, Boundary, Placed, Position, Phase, Disposition
<1>2. (LedgerOK /\ StoreOK)'
  BY CoreDest DEF MergeTypeOK, MemoryOK, LedgerOK, StoreOK, BarrierFile, Record, Channel, Disposition,
         Selecting
<1>3. CountersOK'
  BY Bounds DEF MergeTypeOK, CountersOK
<1>4. CancelOK'
  BY Bounds DEF MergeTypeOK, StoreOK, CancelOK, WorldOK, Boundary, Disposition
<1>5. WorldOK'
  BY Bounds DEF MergeTypeOK, WorldOK
<1>6. (OneSelection /\ Selecting /\ Barred)'
  BY CoreFields, CoreKinds, CoreDest DEF MergeTypeOK, OneSelection, Selecting, Ending, Barred, Fenced,
         UnresolvedKeepsBarrier, LedgerOK, BarrierFound, BarrierUnreadable, TargetReserved
<1>7. (Chained /\ Placed)'
  BY DEF Chained, Placed, Fenced, Fencing, Submitted
<1>8. (Counted /\ Told)'
  BY DEF MergeTypeOK, Counted, Told, CountersOK, WorldOK, TargetReserved, Placed, Fenced
<1>9. AllHonest'
  BY CoreFields DEF AllHonest, Honest, Told, Placed, Chained, Selecting, Ending
<1> QED
  BY <1>1, <1>2, <1>3, <1>4, <1>5, <1>6, <1>7, <1>8, <1>9 DEF MergeTypeOK

(* A post-merge failure keeps the applied result.                          *)
LEMMA PostMergeKeeps ==
  ASSUME MergeInv, PostMerge
  PROVE  MergeInv'
<1> USE DEF MergeInv, PostMerge, Goto, Select, ReserveCall, Unaccounted, Exhausted, memVars, storeVars,
       counterVars, draftVars, worldVars, envVars
<1>1. MemoryOK'
  BY CoreKinds DEF MergeTypeOK, MemoryOK, LedgerOK, CancelOK, Boundary, Placed, Position, Phase, Disposition
<1>2. (LedgerOK /\ StoreOK)'
  BY CoreDest DEF MergeTypeOK, MemoryOK, LedgerOK, StoreOK, BarrierFile, Record, Channel, Disposition,
         Selecting
<1>3. CountersOK'
  BY Bounds DEF MergeTypeOK, CountersOK
<1>4. CancelOK'
  BY Bounds DEF MergeTypeOK, StoreOK, CancelOK, WorldOK, Boundary, Disposition
<1>5. WorldOK'
  BY Bounds DEF MergeTypeOK, WorldOK
<1>6. (OneSelection /\ Selecting /\ Barred)'
  BY CoreFields, CoreKinds, CoreDest DEF MergeTypeOK, OneSelection, Selecting, Ending, Barred, Fenced,
         UnresolvedKeepsBarrier, LedgerOK, BarrierFound, BarrierUnreadable, TargetReserved
<1>7. (Chained /\ Placed)'
  BY DEF Chained, Placed, Fenced, Fencing, Submitted
<1>8. (Counted /\ Told)'
  BY DEF MergeTypeOK, Counted, Told, CountersOK, WorldOK, TargetReserved, Placed, Fenced
<1>9. AllHonest'
  BY CoreFields DEF AllHonest, Honest, Told, Placed, Chained, Selecting, Ending
<1> QED
  BY <1>1, <1>2, <1>3, <1>4, <1>5, <1>6, <1>7, <1>8, <1>9 DEF MergeTypeOK

(* MERGED is selected with its proof on record.                            *)
LEMMA ObservedMergeKeeps ==
  ASSUME MergeInv, ObservedMerge
  PROVE  MergeInv'
<1> USE DEF MergeInv, ObservedMerge, Accounted, memVars, storeVars, counterVars, draftVars, worldVars, envVars
<1>1. MemoryOK'
  BY CoreKinds DEF MergeTypeOK, MemoryOK, LedgerOK, CancelOK, Boundary, Placed, Position, Phase, Disposition
<1>2. (LedgerOK /\ StoreOK)'
  BY CoreDest DEF MergeTypeOK, MemoryOK, LedgerOK, StoreOK, BarrierFile, Record, Channel, Disposition,
         Selecting
<1>3. CountersOK'
  BY Bounds DEF MergeTypeOK, CountersOK
<1>4. CancelOK'
  BY Bounds DEF MergeTypeOK, StoreOK, CancelOK, WorldOK, Boundary, Disposition
<1>5. WorldOK'
  BY Bounds DEF MergeTypeOK, WorldOK
<1>6. (OneSelection /\ Selecting /\ Barred)'
  BY CoreFields, CoreKinds, CoreDest DEF MergeTypeOK, OneSelection, Selecting, Ending, Barred, Fenced,
         UnresolvedKeepsBarrier, LedgerOK, BarrierFound, BarrierUnreadable, TargetReserved
<1>7. (Chained /\ Placed)'
  BY DEF Chained, Placed, Fenced, Fencing, Submitted
<1>8. (Counted /\ Told)'
  BY DEF MergeTypeOK, Counted, Told, CountersOK, WorldOK, TargetReserved, Placed, Fenced
<1>9. AllHonest'
  BY CoreFields DEF AllHonest, Honest, Told, Placed, Chained, Selecting, Ending
<1> QED
  BY <1>1, <1>2, <1>3, <1>4, <1>5, <1>6, <1>7, <1>8, <1>9 DEF MergeTypeOK

(* Recovery goes by the records of the applied result.                     *)
LEMMA RecoverAppliedKeeps ==
  ASSUME MergeInv, RecoverApplied
  PROVE  MergeInv'
<1> USE DEF MergeInv, RecoverApplied, Select, Goto, memVars, storeVars, counterVars, draftVars,
       worldVars, envVars
<1>1. MemoryOK'
  BY CoreKinds DEF MergeTypeOK, MemoryOK, LedgerOK, CancelOK, Boundary, Placed, Position, Phase, Disposition
<1>2. (LedgerOK /\ StoreOK)'
  BY CoreDest DEF MergeTypeOK, MemoryOK, LedgerOK, StoreOK, BarrierFile, Record, Channel, Disposition,
         Selecting
<1>3. CountersOK'
  BY Bounds DEF MergeTypeOK, CountersOK
<1>4. CancelOK'
  BY Bounds DEF MergeTypeOK, StoreOK, CancelOK, WorldOK, Boundary, Disposition
<1>5. WorldOK'
  BY Bounds DEF MergeTypeOK, WorldOK
<1>6. (OneSelection /\ Selecting /\ Barred)'
  BY CoreFields, CoreKinds, CoreDest DEF MergeTypeOK, OneSelection, Selecting, Ending, Barred, Fenced,
         UnresolvedKeepsBarrier, LedgerOK, BarrierFound, BarrierUnreadable, TargetReserved
<1>7. (Chained /\ Placed)'
  BY DEF Chained, Placed, Fenced, Fencing, Submitted
<1>8. (Counted /\ Told)'
  BY DEF MergeTypeOK, Counted, Told, CountersOK, WorldOK, TargetReserved, Placed, Fenced
<1>9. AllHonest'
  BY CoreFields DEF AllHonest, Honest, Told, Placed, Chained, Selecting, Ending
<1> QED
  BY <1>1, <1>2, <1>3, <1>4, <1>5, <1>6, <1>7, <1>8, <1>9 DEF MergeTypeOK

(* A round is counted before the read.                                     *)
LEMMA ReconcileKeeps ==
  ASSUME MergeInv, Reconcile
  PROVE  MergeInv'
<1> USE DEF MergeInv, Reconcile, Goto, RoundsLeft, Unaccounted, Exhausted, memVars, storeVars,
       counterVars, draftVars, worldVars, envVars
<1>1. MemoryOK'
  BY CoreKinds DEF MergeTypeOK, MemoryOK, LedgerOK, CancelOK, Boundary, Placed, Position, Phase, Disposition
<1>2. (LedgerOK /\ StoreOK)'
  BY CoreDest DEF MergeTypeOK, MemoryOK, LedgerOK, StoreOK, BarrierFile, Record, Channel, Disposition,
         Selecting
<1>3. CountersOK'
  BY Bounds DEF MergeTypeOK, CountersOK
<1>4. CancelOK'
  BY Bounds DEF MergeTypeOK, StoreOK, CancelOK, WorldOK, Boundary, Disposition
<1>5. WorldOK'
  BY Bounds DEF MergeTypeOK, WorldOK
<1>6. (OneSelection /\ Selecting /\ Barred)'
  BY CoreFields, CoreKinds, CoreDest DEF MergeTypeOK, OneSelection, Selecting, Ending, Barred, Fenced,
         UnresolvedKeepsBarrier, LedgerOK, BarrierFound, BarrierUnreadable, TargetReserved
<1>7. (Chained /\ Placed)'
  BY DEF Chained, Placed, Fenced, Fencing, Submitted
<1>8. (Counted /\ Told)'
  BY DEF MergeTypeOK, Counted, Told, CountersOK, WorldOK, TargetReserved, Placed, Fenced
<1>9. AllHonest'
  BY CoreFields DEF AllHonest, Honest, Told, Placed, Chained, Selecting, Ending
<1> QED
  BY <1>1, <1>2, <1>3, <1>4, <1>5, <1>6, <1>7, <1>8, <1>9 DEF MergeTypeOK

(* The reconciliation's answer is true.                                    *)
LEMMA ReconciledKeeps ==
  ASSUME MergeInv, Reconciled
  PROVE  MergeInv'
<1> USE DEF MergeInv, Reconciled, Answered, Accounted, memVars, storeVars, counterVars, draftVars,
       worldVars, envVars
<1>a. /\ disp' \in Disposition /\ (disp' = "APPLIED" => remote = "applied")
      /\ (disp' = "NOT_APPLIED" => remote \in {"unsent", "refused"})
  BY AnswersAreTrue DEF MergeTypeOK, WorldOK
<1>1. MemoryOK'
  BY <1>a DEF MergeTypeOK, MemoryOK, Position, Phase
<1>2. (LedgerOK /\ StoreOK)'
  BY CoreDest DEF MergeTypeOK, MemoryOK, LedgerOK, StoreOK, BarrierFile, Record, Channel, Disposition,
         Selecting
<1>3. CountersOK'
  BY Bounds DEF MergeTypeOK, CountersOK
<1>4. CancelOK'
  BY Bounds DEF MergeTypeOK, StoreOK, CancelOK, WorldOK, Boundary, Disposition
<1>5. WorldOK'
  BY Bounds DEF MergeTypeOK, WorldOK
<1>6. (OneSelection /\ Selecting /\ Barred)'
  BY CoreFields, CoreKinds, CoreDest DEF MergeTypeOK, OneSelection, Selecting, Ending, Barred, Fenced,
         UnresolvedKeepsBarrier, LedgerOK, BarrierFound, BarrierUnreadable, TargetReserved
<1>7. (Chained /\ Placed)'
  BY DEF Chained, Placed, Fenced, Fencing, Submitted
<1>8. (Counted /\ Told)'
  BY <1>a DEF MergeTypeOK, Counted, Told, CountersOK, WorldOK, Placed, Fenced
<1>9. AllHonest'
  BY CoreFields DEF AllHonest, Honest, Told, Placed, Chained, Selecting, Ending
<1> QED
  BY <1>1, <1>2, <1>3, <1>4, <1>5, <1>6, <1>7, <1>8, <1>9 DEF MergeTypeOK

(* The reconciliation record leaves the barrier alone.                     *)
LEMMA PersistReconciliationKeeps ==
  ASSUME MergeInv, PersistReconciliation
  PROVE  MergeInv'
<1> USE DEF MergeInv, PersistReconciliation, Goto, memVars, storeVars, counterVars, draftVars,
       worldVars, envVars
<1>1. MemoryOK'
  BY CoreKinds DEF MergeTypeOK, MemoryOK, LedgerOK, CancelOK, Boundary, Placed, Position, Phase, Disposition
<1>2. (LedgerOK /\ StoreOK)'
  BY CoreDest DEF MergeTypeOK, MemoryOK, LedgerOK, StoreOK, BarrierFile, Record, Channel, Disposition,
         Selecting
<1>3. CountersOK'
  BY Bounds DEF MergeTypeOK, CountersOK
<1>4. CancelOK'
  BY Bounds DEF MergeTypeOK, StoreOK, CancelOK, WorldOK, Boundary, Disposition
<1>5. WorldOK'
  BY Bounds DEF MergeTypeOK, WorldOK
<1>6. (OneSelection /\ Selecting /\ Barred)'
  BY CoreFields, CoreKinds, CoreDest DEF MergeTypeOK, OneSelection, Selecting, Ending, Barred, Fenced,
         UnresolvedKeepsBarrier, LedgerOK, BarrierFound, BarrierUnreadable, TargetReserved
<1>7. (Chained /\ Placed)'
  BY DEF Chained, Placed, Fenced, Fencing, Submitted
<1>8. (Counted /\ Told)'
  BY DEF MergeTypeOK, Counted, Told, CountersOK, WorldOK, TargetReserved, Placed, Fenced
<1>9. AllHonest'
  BY CoreFields DEF AllHonest, Honest, Told, Placed, Chained, Selecting, Ending
<1> QED
  BY <1>1, <1>2, <1>3, <1>4, <1>5, <1>6, <1>7, <1>8, <1>9 DEF MergeTypeOK

(* Behind the barrier the draft rests on the sealed submission.            *)
LEMMA DraftSubmittedKeeps ==
  ASSUME MergeInv, DraftSubmitted
  PROVE  MergeInv'
<1> USE DEF MergeInv, DraftSubmitted, Goto, PublishDraft, SubmittedBoundary, LatestOutcome, memVars,
       storeVars, counterVars, draftVars, worldVars, envVars
<1>c. noise \in Nat /\ seen \in Nat /\ seen <= noise
  BY NoiseIsNat
<1>s. noise' = noise /\ seen' \in {seen, noise}
  OBVIOUS
<1>e. (seen \in Nat /\ seen <= noise)'
  BY <1>c, <1>s, SeenStays
<1>d. SubmittedBoundary \in Boundary \cup {""}
  BY DEF MergeTypeOK, StoreOK, Disposition, Boundary, SubmittedBoundary, LatestOutcome
<1>1. MemoryOK'
  BY CoreKinds DEF MergeTypeOK, MemoryOK, LedgerOK, CancelOK, Boundary, Placed, Position, Phase, Disposition
<1>2. (LedgerOK /\ StoreOK)'
  BY CoreDest DEF MergeTypeOK, MemoryOK, LedgerOK, StoreOK, BarrierFile, Record, Channel, Disposition,
         Selecting
<1>3. CountersOK'
  BY Bounds DEF MergeTypeOK, CountersOK
<1>4. CancelOK'
  BY <1>d DEF MergeTypeOK, CancelOK
<1>5. WorldOK'
  BY <1>e DEF MergeTypeOK, WorldOK
<1>6. (OneSelection /\ Selecting /\ Barred)'
  BY CoreFields, CoreKinds, CoreDest DEF MergeTypeOK, OneSelection, Selecting, Ending, Barred, Fenced,
         UnresolvedKeepsBarrier, LedgerOK, BarrierFound, BarrierUnreadable, TargetReserved
<1>7. (Chained /\ Placed)'
  BY DEF Chained, Placed, Fenced, Fencing, Submitted
<1>8. (Counted /\ Told)'
  BY DEF MergeTypeOK, Counted, Told, CountersOK, WorldOK, TargetReserved, Placed, Fenced
<1>9. AllHonest'
  BY CoreFields DEF AllHonest, Honest, Told, Placed, Chained, Selecting, Ending
<1> QED
  BY <1>1, <1>2, <1>3, <1>4, <1>5, <1>6, <1>7, <1>8, <1>9 DEF MergeTypeOK

(* An indexed cancellation selects CANCELLED, which claims nothing.        *)
LEMMA IndexCancellationKeeps ==
  ASSUME MergeInv, IndexCancellation
  PROVE  MergeInv'
<1> USE DEF MergeInv, IndexCancellation, memVars, storeVars, counterVars, draftVars, worldVars, envVars
<1>a. boundary \in Boundary /\ cores = {}
  BY DEF MergeTypeOK, CancelOK, Placed, Selecting, Ending
<1>b. Core("CANCELLED", boundary) \in Cores
  BY <1>a, CoreKinds
<1>1. MemoryOK'
  BY <1>b DEF MergeTypeOK, MemoryOK, Position, CancelVia
<1>2. (LedgerOK /\ StoreOK)'
  BY CoreDest DEF MergeTypeOK, MemoryOK, LedgerOK, StoreOK, BarrierFile, Record, Channel, Disposition,
         Selecting
<1>3. CountersOK'
  BY Bounds DEF MergeTypeOK, CountersOK
<1>4. CancelOK'
  BY Bounds DEF MergeTypeOK, StoreOK, CancelOK, WorldOK, Boundary, Disposition
<1>5. WorldOK'
  BY Bounds DEF MergeTypeOK, WorldOK
<1>6. (OneSelection /\ Selecting /\ Barred)'
  BY <1>a, <1>b DEF OneSelection, Selecting, Ending, Barred, Fenced, UnresolvedKeepsBarrier,
         BarrierFound, TargetReserved
<1>7. (Chained /\ Placed)'
  BY DEF Chained, Placed, Fenced, Fencing, Submitted
<1>8. (Counted /\ Told)'
  BY DEF MergeTypeOK, Counted, Told, CountersOK, WorldOK, TargetReserved, Placed, Fenced
<1>9. AllHonest'
  BY <1>a, CoreFields DEF AllHonest, Honest
<1> QED
  BY <1>1, <1>2, <1>3, <1>4, <1>5, <1>6, <1>7, <1>8, <1>9 DEF MergeTypeOK

(* The presented cancellation is a record like the others.                 *)
LEMMA PresentCancellationKeeps ==
  ASSUME MergeInv, PresentCancellation
  PROVE  MergeInv'
<1> USE DEF MergeInv, PresentCancellation, Publish, memVars, storeVars, counterVars, draftVars,
       worldVars, envVars
<1>1. MemoryOK'
  BY CoreKinds DEF MergeTypeOK, MemoryOK, LedgerOK, CancelOK, Boundary, Placed, Position, Phase, Disposition
<1>2. (LedgerOK /\ StoreOK)'
  BY CoreDest DEF MergeTypeOK, MemoryOK, LedgerOK, StoreOK, BarrierFile, Record, Channel, Disposition,
         Selecting
<1>3. CountersOK'
  BY Bounds DEF MergeTypeOK, CountersOK
<1>4. CancelOK'
  BY Bounds DEF MergeTypeOK, StoreOK, CancelOK, WorldOK, Boundary, Disposition
<1>5. WorldOK'
  BY Bounds DEF MergeTypeOK, WorldOK
<1>6. (OneSelection /\ Selecting /\ Barred)'
  BY CoreFields, CoreKinds, CoreDest DEF MergeTypeOK, OneSelection, Selecting, Ending, Barred, Fenced,
         UnresolvedKeepsBarrier, LedgerOK, BarrierFound, BarrierUnreadable, TargetReserved
<1>7. (Chained /\ Placed)'
  BY DEF Chained, Placed, Fenced, Fencing, Submitted
<1>8. (Counted /\ Told)'
  BY DEF MergeTypeOK, Counted, Told, CountersOK, WorldOK, TargetReserved, Placed, Fenced
<1>9. AllHonest'
  BY CoreFields DEF AllHonest, Honest, Told, Placed, Chained, Selecting, Ending
<1> QED
  BY <1>1, <1>2, <1>3, <1>4, <1>5, <1>6, <1>7, <1>8, <1>9 DEF MergeTypeOK

(* Events of other runs leave the attempt alone.                           *)
LEMMA NoiseKeeps ==
  ASSUME MergeInv, Noise
  PROVE  MergeInv'
<1> USE DEF MergeInv, Noise, memVars, storeVars, counterVars, draftVars, worldVars, envVars
<1>c. noise \in Nat /\ seen \in Nat /\ seen <= noise
  BY NoiseIsNat
<1>1. MemoryOK'
  BY CoreKinds DEF MergeTypeOK, MemoryOK, LedgerOK, CancelOK, Boundary, Placed, Position, Phase, Disposition
<1>2. (LedgerOK /\ StoreOK)'
  BY CoreDest DEF MergeTypeOK, MemoryOK, LedgerOK, StoreOK, BarrierFile, Record, Channel, Disposition,
         Selecting
<1>3. CountersOK'
  BY Bounds DEF MergeTypeOK, CountersOK
<1>4. CancelOK'
  BY Bounds DEF MergeTypeOK, StoreOK, CancelOK, WorldOK, Boundary, Disposition
<1>5. WorldOK'
  BY <1>c, Bounds DEF MergeTypeOK, WorldOK
<1>6. (OneSelection /\ Selecting /\ Barred)'
  BY CoreFields, CoreKinds, CoreDest DEF MergeTypeOK, OneSelection, Selecting, Ending, Barred, Fenced,
         UnresolvedKeepsBarrier, LedgerOK, BarrierFound, BarrierUnreadable, TargetReserved
<1>7. (Chained /\ Placed)'
  BY DEF Chained, Placed, Fenced, Fencing, Submitted
<1>8. (Counted /\ Told)'
  BY DEF MergeTypeOK, Counted, Told, CountersOK, WorldOK, TargetReserved, Placed, Fenced
<1>9. AllHonest'
  BY CoreFields DEF AllHonest, Honest, Told, Placed, Chained, Selecting, Ending
<1> QED
  BY <1>1, <1>2, <1>3, <1>4, <1>5, <1>6, <1>7, <1>8, <1>9 DEF MergeTypeOK

(* A crash forgets the invocation and nothing else.                        *)
LEMMA CrashKeeps ==
  ASSUME MergeInv, Crash
  PROVE  MergeInv'
<1> USE DEF MergeInv, Crash, Dies, Accounted, TearStage, memVars, storeVars, counterVars, draftVars,
       worldVars, envVars
<1>1. MemoryOK'
  BY CoreKinds DEF MergeTypeOK, MemoryOK, LedgerOK, CancelOK, Boundary, Placed, Position, Phase, Disposition
<1>2. (LedgerOK /\ StoreOK)'
  BY CoreDest DEF MergeTypeOK, MemoryOK, LedgerOK, StoreOK, BarrierFile, Record, Channel, Disposition,
         Selecting
<1>3. CountersOK'
  BY Bounds DEF MergeTypeOK, CountersOK
<1>4. CancelOK'
  BY Bounds DEF MergeTypeOK, StoreOK, CancelOK, WorldOK, Boundary, Disposition
<1>5. WorldOK'
  BY Bounds DEF MergeTypeOK, WorldOK
<1>6. (OneSelection /\ Selecting /\ Barred)'
  BY CoreFields, CoreKinds, CoreDest DEF MergeTypeOK, OneSelection, Selecting, Ending, Barred, Fenced,
         UnresolvedKeepsBarrier, LedgerOK, BarrierFound, BarrierUnreadable, TargetReserved
<1>7. (Chained /\ Placed)'
  BY DEF Chained, Placed, Fenced, Fencing, Submitted
<1>8. (Counted /\ Told)'
  BY DEF MergeTypeOK, Counted, Told, CountersOK, WorldOK, TargetReserved, Placed, Fenced
<1>9. AllHonest'
  BY CoreFields DEF AllHonest, Honest, Told, Placed, Chained, Selecting, Ending
<1> QED
  BY <1>1, <1>2, <1>3, <1>4, <1>5, <1>6, <1>7, <1>8, <1>9 DEF MergeTypeOK

(* Before the first invocation. *)
LEMMA MergeStarts == MergeInit => MergeInv
<1> SUFFICES ASSUME MergeInit PROVE MergeInv
  OBVIOUS
<1>1. MemoryOK /\ LedgerOK /\ StoreOK
  BY DEF MergeInit, MemoryOK, LedgerOK, StoreOK, Position, Phase, Disposition, BarrierFile
<1>2. /\ submissions = 0 /\ http = 0 /\ calls = 0 /\ rounds = 0 /\ pending = "none"
      /\ seen = 0 /\ noise = 0 /\ crashes = 0 /\ sent = 0 /\ created = 0 /\ remote = "unsent" /\ pc = "idle"
  BY DEF MergeInit
<1>3. CountersOK
  BY <1>2, Bounds DEF CountersOK
<1>4. CancelOK /\ WorldOK
  <2>1. CancelOK
    BY DEF MergeInit, CancelOK
  <2>2. WorldOK
    BY <1>2, Bounds DEF WorldOK
  <2> QED
    BY <2>1, <2>2
<1>5. OneSelection /\ Selecting /\ Chained /\ Placed /\ Told /\ AllHonest
  BY DEF MergeInit, OneSelection, Selecting, Ending, Chained, Placed, Fenced, Fencing, Submitted, Told,
         AllHonest
<1>6. Barred
  BY <1>2 DEF Barred, Fenced, UnresolvedKeepsBarrier, TargetReserved
<1>7. Counted
  BY <1>2 DEF Counted
<1> QED
  BY <1>1, <1>2, <1>3, <1>4, <1>5, <1>6, <1>7 DEF MergeInv, MergeTypeOK

(* Every step of the controller, of the provider and of the environment    *)
(* keeps the invariant.                                                    *)
LEMMA MergeStep == MergeInv /\ [Next]_mvars => MergeInv'
<1> SUFFICES ASSUME MergeInv, [Next]_mvars PROVE MergeInv'
  OBVIOUS
<1>1. CASE Execute
  BY <1>1, RecoverTerminalKeeps, FinishSelectedKeeps, RecoverIndexedKeeps, StartAttemptKeeps DEF Execute
<1>2. CASE Cancel
  BY <1>2, FinishSelectedKeeps, BuildCancellationKeeps DEF Cancel
<1>3. CASE AuthorityFails \/ RemoteDecides \/ Noise \/ Crash
  BY <1>3, AuthorityFailsKeeps, RemoteDecidesKeeps, NoiseKeeps, CrashKeeps
<1>4. CASE Terminalize
  BY <1>4, AppendIntentKeeps, AppendEventKeeps, AppendFinalKeeps, ResolveBarrierKeeps DEF Terminalize
<1>5. CASE Prepare
  BY <1>5, SkipPhaseKeeps, ReadPhaseKeeps, PublishMarkerKeeps, CreateCommitKeeps, AnswerPhaseKeeps,
     PublishRevalidationKeeps, PublishSealKeeps, PublishSealedKeeps DEF Prepare
<1>6. CASE Submit
  BY <1>6, InstallBarrierKeeps, EnsureSubmissionKeeps, ReserveSubmissionKeeps, SubmitTargetKeeps,
     TransportKeeps, ResponseKeeps, PersistOutcomeKeeps, UnresolvedKeeps,
     SettleNotAppliedKeeps, SettleAppliedKeeps, PostMergeKeeps, ObservedMergeKeeps,
     RecoverAppliedKeeps, ReconcileKeeps, ReconciledKeeps, PersistReconciliationKeeps DEF Submit
<1>7. CASE Cancelling
  BY <1>7, DraftSubmittedKeeps, IndexCancellationKeeps, PresentCancellationKeeps DEF Cancelling
<1>8. CASE UNCHANGED mvars
  <2> USE <1>8 DEF mvars, memVars, storeVars, counterVars, draftVars, worldVars, envVars
  <2>1. MergeTypeOK'
    <3>1. MemoryOK' /\ LedgerOK' /\ StoreOK' /\ CancelOK'
      BY DEF MergeInv, MergeTypeOK, MemoryOK, LedgerOK, StoreOK, CancelOK
    <3>2. CountersOK'
      BY DEF MergeInv, MergeTypeOK, CountersOK
    <3>3. WorldOK'
      BY DEF MergeInv, MergeTypeOK, WorldOK
    <3> QED
      BY <3>1, <3>2, <3>3 DEF MergeTypeOK
  <2>2. OneSelection' /\ Selecting'
    BY DEF MergeInv, OneSelection, Selecting
  <2>3. Barred'
    BY DEF MergeInv, Barred, BarrierFound, UnresolvedKeepsBarrier, TargetReserved
  <2>4. Chained' /\ Placed'
    BY DEF MergeInv, Chained, Placed
  <2>5. Counted' /\ Told' /\ AllHonest'
    BY DEF MergeInv, Counted, Told, AllHonest, Honest
  <2> QED
    BY <2>1, <2>2, <2>3, <2>4, <2>5 DEF MergeInv
<1> QED
  BY <1>1, <1>2, <1>3, <1>4, <1>5, <1>6, <1>7, <1>8 DEF Next, Running

(* MergeInv is an invariant of the controller, for any budget of calls and *)
(* rounds and any number of crashes.                                       *)
THEOREM MergeInvariant == MergeSpec => []MergeInv
  BY MergeStarts, MergeStep, PTL DEF MergeSpec

(* Type correctness; counters.jsonl never passes a limit.                  *)
THEOREM MergeTypeCorrect == MergeSpec => []MergeTypeOK
<1>1. MergeInv => MergeTypeOK
  BY DEF MergeInv
<1> QED
  BY <1>1, MergeInvariant, PTL

(* executeAttempt and ensureCommitPreparation: the target ref is written   *)
(* to, and the result commit created, at most once.                        *)
THEOREM MutatesOnce == MergeSpec => []OneMutationEach
<1>1. MergeInv => OneMutationEach
  <2> SUFFICES ASSUME MergeInv PROVE OneMutationEach
    OBVIOUS
  <2>1. http \in {0, 1} /\ sent \in Nat
    BY DEF MergeInv, MergeTypeOK, CountersOK, WorldOK
  <2> QED
    BY <2>1 DEF MergeInv, Counted, OneMutationEach
<1> QED
  BY <1>1, MergeInvariant, PTL

(* executeAttempt, settle: the transition barrier stands as long as a      *)
(* reserved target call is unresolved.                                     *)
THEOREM BarrierOutlastsDoubt == MergeSpec => []UnresolvedKeepsBarrier
<1>1. MergeInv => UnresolvedKeepsBarrier
  BY DEF MergeInv, Barred
<1> QED
  BY <1>1, MergeInvariant, PTL

(* settle, recoverAppliedRecords: a MERGED run was applied by the provider *)
(* and has its post-merge proof on record.                                 *)
THEOREM MergedWasApplied == MergeSpec => []MergedIsProved
<1>1. MergeInv => MergedIsProved
  BY DEF MergeInv, MergedIsProved, OneSelection, AllHonest, Honest
<1> QED
  BY <1>1, MergeInvariant, PTL

(* failBeforeSubmission, settle, terminalizeIdentifiedAuthorityFailure: no *)
(* FAILED selection hides an applied or a possible update.                 *)
THEOREM FailuresAreHonest == MergeSpec => []FailureCoresAreHonest
<1>1. MergeInv => FailureCoresAreHonest
  BY DEF MergeInv, FailureCoresAreHonest, AllHonest, Honest
<1> QED
  BY <1>1, MergeInvariant, PTL

(* terminalize, finishSelectedTerminal: terminal-intents selects at most   *)
(* one core, and the run's terminal event is the one selected.             *)
THEOREM SelectsOnce == MergeSpec => []OneSelection
<1>1. MergeInv => OneSelection
  BY DEF MergeInv
<1> QED
  BY <1>1, MergeInvariant, PTL
=============================================================================
