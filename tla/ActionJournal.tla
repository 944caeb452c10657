----------------------------- MODULE ActionJournal -----------------------------
(***************************************************************************)
(* internal/actioncontrol Journal: how a receipt, a claim or an outcome    *)
(* reaches the disk.  The service-wide lock (acquireActions) lets one      *)
(* transaction run at a time, so the journal is one sequence of system     *)
(* calls, and what matters is where it may stop: the process or the        *)
(* machine may die between any two calls, and a call may fail.             *)
(*                                                                         *)
(* ajDisk is what a reader sees and ajSynced what survives a power loss:   *)
(* a write changes the first, a sync copies it to the second, and a crash  *)
(* keeps either for each object.  One run and one shard of the request     *)
(* index are modelled; digests, sizes and modes of files are left out, so  *)
(* an object is missing, torn or whole.                                    *)
(***************************************************************************)
EXTENDS Naturals, Sequences, SequencesExt, FiniteSets

CONSTANTS AJRequests,    \* request identities (lookup keys)
          AJSegmentMax,  \* MaxSegmentRecords
          AJEpochs,      \* MaxJournalEpochs
          AJMaxIssued,   \* MaxRequestsPerShard
          AJMaxFaults    \* bound: crashes and failed calls

ASSUME AJAssumption == {AJSegmentMax, AJEpochs, AJMaxIssued, AJMaxFaults} \subseteq Nat /\ AJSegmentMax > 0

VARIABLES ajDisk, ajSynced, ajPc, ajOp, ajAcked, ajShut, ajFaults

ajVars == <<ajDisk, ajSynced, ajPc, ajOp, ajAcked, ajShut, ajFaults>>

AJTorn == "torn"
AJNoMarker == [state |-> "none", seg |-> 0, size |-> 0]

\* A journal just opened: authorities established, no run, nothing issued.
AJEmpty ==
  [auth |-> "established", name |-> "none", hist |-> "none", run |-> FALSE,
   issued |-> <<>>, ihist |-> <<>>, staged |-> [q \in AJRequests |-> "none"], finals |-> {},
   segs |-> <<>>, marker |-> AJNoMarker]
AJIdleOp == [req |-> "", kind |-> ""]
AJInit ==
  /\ ajDisk = AJEmpty /\ ajSynced = AJEmpty /\ ajPc = "idle" /\ ajOp = AJIdleOp
  /\ ajAcked = {} /\ ajShut = FALSE /\ ajFaults = 0

-----------------------------------------------------------------------------
(* System calls. *)

AJWrite(from, f, v, to) ==
  /\ ajPc = from /\ ajDisk' = [ajDisk EXCEPT ![f] = v] /\ ajPc' = to
  /\ UNCHANGED <<ajSynced, ajOp, ajAcked, ajShut, ajFaults>>
AJSync(from, f, to) ==
  /\ ajPc = from /\ ajSynced' = [ajSynced EXCEPT ![f] = ajDisk[f]] /\ ajPc' = to
  /\ UNCHANGED <<ajDisk, ajOp, ajAcked, ajShut, ajFaults>>
\* The call fails; a write may have left a torn object.
AJFault(from, to) ==
  /\ ajPc = from /\ ajFaults < AJMaxFaults /\ ajFaults' = ajFaults + 1 /\ ajPc' = to
  /\ UNCHANGED <<ajDisk, ajSynced, ajOp, ajAcked, ajShut>>
AJTear(from, f, v, to) ==
  /\ ajPc = from /\ ajFaults < AJMaxFaults /\ ajFaults' = ajFaults + 1 /\ ajPc' = to
  /\ ajDisk' = [ajDisk EXCEPT ![f] = v] /\ UNCHANGED <<ajSynced, ajOp, ajAcked, ajShut>>
AJGo(from, to) == ajPc = from /\ ajPc' = to /\ UNCHANGED <<ajDisk, ajSynced, ajOp, ajAcked, ajShut, ajFaults>>

\* guard.close: the locks are released and the caller has its answer.  An
\* instance that could prove neither outcome keeps the lock (failedClosed).
AJClose(acked, shut) ==
  /\ ajPc' = "idle" /\ ajOp' = AJIdleOp /\ ajAcked' = ajAcked \cup acked /\ ajShut' = shut
  /\ UNCHANGED <<ajDisk, ajSynced, ajFaults>>
AJFail == ajPc = "fail" /\ AJClose({}, ajShut)
AJIntegrity == ajPc = "integrity" /\ AJClose({}, ajShut)
AJFailClosed == ajPc = "failed-closed" /\ AJClose({}, TRUE)

-----------------------------------------------------------------------------
(* What the journal holds. *)

AJRecords(segs) == FlattenSeq(segs)
AJStatus(segs, q) ==
  LET mine == SelectSeq(AJRecords(segs), LAMBDA r : r.req = q) IN IF mine = <<>> THEN "none" ELSE Last(mine).kind

\* applyDecoded, validateProgress: what may follow what in an operation.
AJMayFollow(status) ==
  CASE status = "none" -> {"receipt"} [] status = "receipt" -> {"claim", "rejected"}
    [] status = "claim" -> {"applied", "required"} [] status = "required" -> {"reconciled"} [] OTHER -> {}

\* readSegment, decodeRecord: every line whole, an empty segment only at the end.
AJReadable(segs) ==
  /\ \A k \in DOMAIN segs : segs[k] = <<>> => k = Len(segs)
  /\ \A k \in DOMAIN segs : \A i \in DOMAIN segs[k] : segs[k][i] # [req |-> AJTorn, kind |-> AJTorn]
  /\ LET all == AJRecords(segs)
     IN  \A i \in DOMAIN all : all[i].kind \in AJMayFollow(AJStatus(<<SubSeq(all, 1, i - 1)>>, all[i].req))

\* acquireActions: an instance that failed closed answers nothing.
AJAcquire(q, kind) ==
  /\ ajPc = "idle" /\ ~ajShut
  /\ ajPc' = (IF kind = "receipt" THEN "index" ELSE "run") /\ ajOp' = [req |-> q, kind |-> kind]
  /\ UNCHANGED <<ajDisk, ajSynced, ajAcked, ajShut, ajFaults>>

-----------------------------------------------------------------------------
(* The request index: reconcileIdentityPublications, on every read. *)

AJTracked == ToSet(ajDisk.issued)
AJPending == {q \in AJRequests : ajDisk.staged[q] # "none"}

\* loadRequestIssuanceState, scanRequestIndexShard and the checks: the committed
\* prefix must be there, every final tracked, every tracked identity found whole.
AJIndexSound ==
  /\ IsPrefix(ajDisk.issued, ajDisk.ihist) /\ ajDisk.finals \subseteq AJTracked
  /\ \A q \in AJTracked : q \in ajDisk.finals \/ ajDisk.staged[q] = "bytes"

AJReadIdentity ==
  \/ AJIndexSound /\ AJGo("index", "index-tail")
  \/ ~AJIndexSound /\ AJGo("index", "integrity")

\* An uncommitted tail of the history is cut off.
AJIndexTail ==
  \/ ajDisk.ihist = ajDisk.issued /\ AJGo("index-tail", "index-pending")
  \/ ajDisk.ihist # ajDisk.issued /\ AJWrite("index-tail", "ihist", ajDisk.issued, "index-tail-sync")
  \/ AJSync("index-tail-sync", "ihist", "index-pending")
  \/ AJFault("index-tail-sync", "fail")

\* A staged identity that was never issued is removed.
AJIndexPending ==
  LET stale == AJPending \ AJTracked IN
  \/ stale = {} /\ AJGo("index-pending", "index-publish")
  \/ /\ stale # {}
     /\ AJWrite("index-pending", "staged", [q \in AJRequests |-> IF q \in stale THEN "none" ELSE ajDisk.staged[q]], "index-pending-sync")
  \/ AJSync("index-pending-sync", "staged", "index-publish")
  \/ AJFault("index-pending-sync", "fail")

AJFound == IF ajOp.kind = "receipt" THEN "run" ELSE "append"

\* An issued identity still staged is linked under its final name and unstaged.
AJIndexPublish ==
  \/ AJPending = {} /\ AJGo("index-publish", AJFound)
  \/ AJPending # {} /\ AJWrite("index-publish", "finals", ajDisk.finals \cup AJPending, "index-link-sync")
  \/ AJSync("index-link-sync", "finals", "index-unstage")
  \/ AJFault("index-link-sync", "fail")
  \/ AJWrite("index-unstage", "staged", [q \in AJRequests |-> "none"], "index-unstage-sync")
  \/ AJSync("index-unstage-sync", "staged", AJFound)

-----------------------------------------------------------------------------
(* The run's directory: openRun. *)

\* reconcileRunGenerations, loadRunGenerationState: an established run is opened, a prepared one is
\* recovered, a stage no authority binds is removed.
AJOpenRun ==
  \/ ajDisk.auth = "established" /\ ajDisk.name # "stage" /\ ajDisk.run /\ ajDisk.name = "final" /\ AJGo("run", "scan")
  \/ ajDisk.auth = "established" /\ ajDisk.run /\ ajDisk.name # "final" /\ AJGo("run", "integrity")
  \/ ajDisk.auth = "prepared" /\ AJGo("run", "recover-run")
  \/ ajDisk.auth = "established" /\ ~ajDisk.run /\ ajDisk.name = "stage" /\ AJWrite("run", "name", "none", "unstage-run")
  \/ AJSync("unstage-run", "name", "run")
  \/ ajDisk.auth = "established" /\ ~ajDisk.run /\ ajDisk.name = "none" /\ AJGo("run", IF ajOp.kind = "receipt" THEN "register" ELSE "fail")
  \/ ajDisk.auth = "established" /\ ~ajDisk.run /\ ajDisk.name = "final" /\ AJGo("run", "integrity")

\* recoverPreparedRunGeneration: the stage is renamed, the history completed,
\* the authority advanced.
AJRecoverRun ==
  \/ ajDisk.name = "none" /\ AJGo("recover-run", "integrity")
  \/ ajDisk.name = "stage" /\ AJWrite("recover-run", "name", "final", "recover-name")
  \/ ajDisk.name = "final" /\ AJGo("recover-run", "recover-name")
  \/ AJSync("recover-name", "name", "history")

\* registerRunGeneration: a private stage, its name durable.
AJRegister ==
  \/ AJWrite("register", "name", "stage", "stage-sync")
  \/ AJSync("stage-sync", "name", "prepare")
  \/ AJFault("stage-sync", "unregister")
\* cleanupUnboundStage.
AJUnregister ==
  \/ AJWrite("unregister", "name", "none", "unregister-sync")
  \/ AJSync("unregister-sync", "name", "fail")
  \/ AJFault("unregister-sync", "failed-closed")

\* Mutant of AJPrepareRun: the stage is renamed without the prepared authority.
AJPrepareRunUnbound ==
  \/ AJGo("prepare", "rename")
  \/ AJSync("prepare-sync", "auth", "rename")
  \/ AJFault("prepare-sync", "fail")

\* The prepared authority binds the stage before it gets the run's name.
AJPrepareRun ==
  \/ AJWrite("prepare", "auth", "prepared", "prepare-sync")
  \/ AJSync("prepare-sync", "auth", "rename")
  \/ AJFault("prepare", "unregister")
  \/ AJFault("prepare-sync", "fail")

AJNameRun ==
  \/ AJWrite("rename", "name", "final", "rename-sync")
  \/ AJSync("rename-sync", "name", "history")
  \/ AJFault("rename-sync", "fail")

\* The history line, then the established authority.
AJEstablishRun ==
  \/ AJWrite("history", "hist", "line", "history-sync")
  \/ AJTear("history", "hist", AJTorn, "fail")
  \/ AJSync("history-sync", "hist", "establish")
  \/ /\ ajPc = "establish" /\ ajDisk' = [ajDisk EXCEPT !.auth = "established", !.run = TRUE]
     /\ ajPc' = "establish-sync" /\ UNCHANGED <<ajSynced, ajOp, ajAcked, ajShut, ajFaults>>
  \/ /\ ajPc = "establish-sync" /\ ajSynced' = [ajSynced EXCEPT !.auth = ajDisk.auth, !.run = ajDisk.run]
     /\ ajPc' = "scan" /\ UNCHANGED <<ajDisk, ajOp, ajAcked, ajShut, ajFaults>>
  \/ AJFault("establish-sync", "fail")

-----------------------------------------------------------------------------
(* Scanning: recoverPendingAppend, then the segments. *)

AJCut(segs, m) == IF m.seg \in DOMAIN segs THEN [segs EXCEPT ![m.seg] = SubSeq(@, 1, m.size)] ELSE segs

\* rollbackPendingAppend: the segment loses what the marker does not cover.
AJRollbackRefused(m) == (m.seg \notin DOMAIN ajDisk.segs /\ m.size # 0) \/ (m.seg \in DOMAIN ajDisk.segs /\ Len(ajDisk.segs[m.seg]) < m.size)

\* A marker that cannot be read fails closed; one that can is rolled back,
\* before it is removed.  "recover" returns to the scan, "undo" to the caller.
AJRecoverAppend(at, then) ==
  LET m == ajDisk.marker IN
  \/ m.state = "none" /\ AJGo(at, then)
  \/ m.state = AJTorn /\ AJGo(at, "integrity")
  \/ m.state = "whole" /\ AJRollbackRefused(m) /\ AJGo(at, "integrity")
  \/ m.state = "whole" /\ ~AJRollbackRefused(m) /\ AJWrite(at, "segs", AJCut(ajDisk.segs, m), at \o "-sync")
  \/ AJSync(at \o "-sync", "segs", at \o "-unmark")
  \/ AJFault(at \o "-sync", "fail")
  \/ AJWrite(at \o "-unmark", "marker", AJNoMarker, at \o "-unmark-sync")
  \/ AJSync(at \o "-unmark-sync", "marker", then)

\* scan, then what each operation does with the state it read.
AJScan ==
  LET status == AJStatus(ajDisk.segs, ajOp.req)
      count == Len(AJRecords(ajDisk.segs))
  IN  \/ ~AJReadable(ajDisk.segs) /\ AJGo("scanned", "integrity")
      \/ /\ AJReadable(ajDisk.segs) /\ ajPc = "scanned" /\ ajOp.kind = "receipt" /\ status # "none"
         /\ IF ajOp.req \in AJTracked THEN AJClose({[req |-> ajOp.req, kind |-> "receipt"]}, ajShut) ELSE AJGo("scanned", "integrity")
      \/ AJReadable(ajDisk.segs) /\ ajOp.kind = "receipt" /\ status = "none" /\ AJGo("scanned", IF ajOp.req \in AJTracked THEN "append" ELSE "create")
      \/ AJReadable(ajDisk.segs) /\ ajOp.kind # "receipt" /\ AJGo("scanned", IF ajOp.kind \in AJMayFollow(status) THEN "index" ELSE "fail")

-----------------------------------------------------------------------------
(* createIdentity: a new request's identity is issued before its receipt. *)

AJSetStaged(v) == [ajDisk.staged EXCEPT ![ajOp.req] = v]

AJLast == IF ajDisk.segs = <<>> THEN 0 ELSE Len(ajDisk.segs)
AJFull == AJLast > 0 /\ Len(ajDisk.segs[AJLast]) >= AJSegmentMax

\* prepareAppend refuses first (ErrExhausted), then the index limit.
AJExhausted == (AJFull /\ AJLast >= AJEpochs) \/ Len(AJRecords(ajDisk.segs)) >= AJSegmentMax * AJEpochs
AJCreateIdentity ==
  \/ (AJExhausted \/ Len(ajDisk.issued) >= AJMaxIssued) /\ AJGo("create", "fail")
  \/ ~AJExhausted /\ Len(ajDisk.issued) < AJMaxIssued /\ AJWrite("create", "staged", AJSetStaged(AJTorn), "stage")
  \/ AJWrite("stage", "staged", AJSetStaged("bytes"), "stage-durable")
  \/ AJFault("stage", "unstage")
  \/ AJSync("stage-durable", "staged", "issue")
  \/ AJFault("stage-durable", "unstage")
\* cleanupPending.
AJUnstage ==
  \/ AJWrite("unstage", "staged", AJSetStaged("none"), "unstage-sync")
  \/ AJSync("unstage-sync", "staged", "fail")

\* Mutant of AJCommitIssuance: the checkpoint advances without its history line.
AJCommitIssuanceUnordered ==
  \/ AJGo("issue", "checkpoint")
  \/ AJWrite("checkpoint", "issued", Append(ajDisk.issued, ajOp.req), "checkpoint-sync")
  \/ AJSync("checkpoint-sync", "issued", "publish")
  \/ AJWrite("publish", "ihist", ajDisk.issued, "issue-sync")
  \/ AJSync("issue-sync", "ihist", "link")

\* commitRequestIssuance: the history line is durable before the checkpoint of
\* the shard's authority; an ambiguous checkpoint leaves the staged identity.
AJCommitIssuance ==
  \/ AJWrite("issue", "ihist", Append(ajDisk.ihist, ajOp.req), "issue-sync")
  \/ AJTear("issue", "ihist", Append(ajDisk.ihist, AJTorn), "unissue")
  \/ AJSync("issue-sync", "ihist", "checkpoint")
  \/ AJFault("issue-sync", "unissue")
  \/ AJWrite("checkpoint", "issued", Append(ajDisk.issued, ajOp.req), "checkpoint-sync")
  \/ AJFault("checkpoint", "unissue")
  \/ AJSync("checkpoint-sync", "issued", "link")
  \/ AJFault("checkpoint-sync", "fail")
\* Its rollback; one that fails keeps the lock.
AJUnissue ==
  \/ AJWrite("unissue", "ihist", ajDisk.issued, "unissue-sync")
  \/ AJSync("unissue-sync", "ihist", "unstage")
  \/ AJFault("unissue-sync", "failed-closed")

AJPublishIdentity ==
  \/ AJWrite("link", "finals", ajDisk.finals \cup {ajOp.req}, "link-sync")
  \/ AJSync("link-sync", "finals", "unlink")
  \/ AJFault("link-sync", "fail")
  \/ AJWrite("unlink", "staged", AJSetStaged("none"), "unlink-sync")
  \/ AJSync("unlink-sync", "staged", "append")
  \/ AJFault("unlink-sync", "fail")

-----------------------------------------------------------------------------
(* append. *)

AJMarkerFor == IF AJFull \/ AJLast = 0 THEN [state |-> "whole", seg |-> AJLast + 1, size |-> 0]
               ELSE [state |-> "whole", seg |-> AJLast, size |-> Len(ajDisk.segs[AJLast])]

\* createAppendPending: the marker is written in place, then made durable.
AJMark ==
  \/ AJExhausted /\ AJGo("append", "fail")
  \/ ~AJExhausted /\ AJWrite("append", "marker", [AJMarkerFor EXCEPT !.state = AJTorn], "mark")
  \/ AJWrite("mark", "marker", [ajDisk.marker EXCEPT !.state = "whole"], "mark-sync")
  \/ AJFault("mark", "unmark")
  \/ AJSync("mark-sync", "marker", "write")
  \/ AJFault("mark-sync", "fail")
AJUnmark ==
  \/ AJWrite("unmark", "marker", AJNoMarker, "unmark-sync")
  \/ AJSync("unmark-sync", "marker", "fail")

AJAppended(rec) ==
  LET k == ajDisk.marker.seg
  IN  IF k \in DOMAIN ajDisk.segs THEN [ajDisk.segs EXCEPT ![k] = Append(@, rec)] ELSE Append(ajDisk.segs, <<rec>>)

\* Mutant of AJAppend: the marker is removed before the segment is durable.
AJAppendUnsynced ==
  \/ AJWrite("write", "segs", AJAppended(ajOp), "commit")
  \/ AJTear("write", "segs", AJAppended([req |-> AJTorn, kind |-> AJTorn]), "undo")
  \/ AJSync("write-sync", "segs", "commit")
  \/ AJFault("write-sync", "undo")

\* append: the line, whole or torn, then durable; a failure is rolled back.
AJAppend ==
  \/ AJWrite("write", "segs", AJAppended(ajOp), "write-sync")
  \/ AJTear("write", "segs", AJAppended([req |-> AJTorn, kind |-> AJTorn]), "undo")
  \/ AJSync("write-sync", "segs", "commit")
  \/ AJFault("write-sync", "undo")

\* The commit point: the marker is gone, durably.
AJCommit ==
  \/ AJWrite("commit", "marker", AJNoMarker, "commit-sync")
  \/ AJFault("commit", "ambiguous")
  \/ AJFault("commit-sync", "ambiguous")
  \/ /\ ajPc = "commit-sync" /\ ajSynced' = [ajSynced EXCEPT !.marker = ajDisk.marker]
     /\ ajPc' = "idle" /\ ajOp' = AJIdleOp /\ ajAcked' = ajAcked \cup {ajOp} /\ UNCHANGED <<ajDisk, ajShut, ajFaults>>

AJMarkerOfLast ==  LET k == Len(ajDisk.segs) IN [state |-> "whole", seg |-> k, size |-> Len(ajDisk.segs[k]) - 1]

\* resolveAmbiguousAppend: rolled back, or the marker restored, or failed closed.
AJResolve ==
  \/ AJWrite("ambiguous", "segs", AJCut(ajDisk.segs, AJMarkerOfLast), "ambiguous-sync")
  \/ AJSync("ambiguous-sync", "segs", "fail")
  \/ AJFault("ambiguous", "restore")
\* restoreAppendPending.
AJRestore ==
  \/ AJWrite("restore", "marker", AJMarkerOfLast, "restore-sync")
  \/ AJTear("restore", "marker", [AJMarkerOfLast EXCEPT !.state = AJTorn], "failed-closed")
  \/ AJSync("restore-sync", "marker", "fail")
  \/ AJFault("restore-sync", "failed-closed")

-----------------------------------------------------------------------------
\* The process ends, and with it what it had not synced may be lost; a new
\* instance opens the same root (Close, OpenWithClock).
AJCrash ==
  /\ ajFaults < AJMaxFaults /\ ajFaults' = ajFaults + 1
  /\ \E lost \in SUBSET {f \in DOMAIN ajDisk : ajDisk[f] # ajSynced[f]} :
       ajDisk' = [f \in DOMAIN ajDisk |-> IF f \in lost \/ ({"auth", "run"} \cap lost # {} /\ f \in {"auth", "run"}) THEN ajSynced[f] ELSE ajDisk[f]]
  /\ ajSynced' = ajDisk' /\ ajPc' = "idle" /\ ajOp' = AJIdleOp /\ ajShut' = FALSE /\ UNCHANGED ajAcked

AJNext ==
  \/ \E q \in AJRequests, kind \in {"receipt", "claim", "rejected", "applied", "required", "reconciled"} : AJAcquire(q, kind)
  \/ AJReadIdentity \/ AJIndexTail \/ AJIndexPending \/ AJIndexPublish
  \/ AJOpenRun \/ AJRecoverRun \/ AJRegister \/ AJUnregister \/ AJPrepareRun \/ AJNameRun \/ AJEstablishRun
  \/ AJRecoverAppend("scan", "scanned") \/ AJScan \/ AJCreateIdentity \/ AJUnstage \/ AJCommitIssuance \/ AJUnissue
  \/ AJPublishIdentity \/ AJMark \/ AJUnmark \/ AJAppend \/ AJRecoverAppend("undo", "fail") \/ AJCommit \/ AJResolve \/ AJRestore
  \/ AJFail \/ AJIntegrity \/ AJFailClosed \/ AJCrash

AJSpec == AJInit /\ [][AJNext]_ajVars

-----------------------------------------------------------------------------
AJTypeOK ==
  /\ DOMAIN ajDisk = DOMAIN AJEmpty /\ DOMAIN ajSynced = DOMAIN AJEmpty
  /\ ajOp.req \in AJRequests \cup {""} /\ ajShut \in BOOLEAN /\ ajFaults \in 0..AJMaxFaults

\* What a caller was told is in the journal stays there, whatever fails or dies
\* afterwards: every acknowledged record survives a power loss and is never cut
\* off by a rollback (append, recoverPendingAppend, resolveAmbiguousAppend), and
\* no operation has two receipts.
AJAckedIsKept ==
  /\ ajAcked \subseteq ToSet(AJRecords(ajDisk.segs)) /\ ajAcked \subseteq ToSet(AJRecords(ajSynced.segs))
  /\ \A q \in AJRequests : Len(SelectSeq(AJRecords(ajDisk.segs), LAMBDA r : r = [req |-> q, kind |-> "receipt"])) <= 1

\* The journal recovers from its own crashes: after one failed call or one power
\* loss, the only thing left behind that it refuses to open is a torn append
\* marker.  A failed fsync followed by a power loss may leave more.
AJOnlyATornMarkerRefuses == ajPc = "integrity" /\ ajFaults <= 1 => ajDisk.marker.state = AJTorn

\* "An exact durable reservation whose receipt was interrupted is materialized
\* from the frozen identity" (ReplayReceipt): no reservation meets an unreadable
\* journal.
AJReservationMaterializes == ~(ajPc = "integrity" /\ ajOp.kind = "receipt" /\ ajOp.req \in AJTracked)

\* The journal keeps what it acknowledged and recovers from its own crashes, a
\* torn append marker excepted.
AJSound == AJTypeOK /\ AJAckedIsKept /\ AJOnlyATornMarkerRefuses
=============================================================================
