----------------------------- MODULE PRLifecycle -----------------------------
(***************************************************************************)
(* internal/prlifecycle: one pull request (repository, base, head) brought *)
(* to a wanted document by runs that may die at any point, over a network  *)
(* that loses answers and delivers writes late.  withResource lets one     *)
(* call at a time work on the resource, whatever process it is in.         *)
(*                                                                         *)
(* An admission record is created in place and never rewritten: "no",      *)
(* "yes", or "torn" when its writer died.  A request stands for its        *)
(* authority and document; the owner of the repository may edit, open and  *)
(* close pull requests and push the branch meanwhile.                      *)
(***************************************************************************)
EXTENDS Naturals, Sequences, FiniteSetsExt

CONSTANTS PLRequests, PLRuns, PLMaxRevisions, PLPrepareRounds, PLResumeRounds, PLReconcileRounds, PLMaxPulls, PLCapacity, PLMaxFaults

ASSUME PLAssumption ==
  {PLMaxRevisions, PLPrepareRounds, PLResumeRounds, PLReconcileRounds, PLMaxPulls, PLCapacity, PLMaxFaults} \subseteq Nat
  /\ IsFiniteSet(PLRuns)

VARIABLES plRevs,   \* the revisions of the resource, by ordinal
          plPrep,   \* the prepare records of the revision to come, by run, and whether one is torn
          plLedger, \* ordinals whose terminal event is in the material ledger
          plCall,   \* the call that holds the resource's lock
          plHub,    \* GitHub: its pull requests, and whether the refs are the authority's
          plFly,    \* writes sent and not yet applied by GitHub
          plSent,   \* history: the writes sent, by ordinal
          plAnswered, \* history: ordinals whose result was answered
          plFaults

plVars == <<plRevs, plPrep, plLedger, plCall, plHub, plFly, plSent, plAnswered, plFaults>>

PLIdle == [pc |-> "idle", req |-> "none", run |-> "none", ord |-> 0, prev |-> 0, pr |-> 0, erred |-> FALSE, out |-> "none"]
PLRevision(req, pr) ==
  [req |-> req, pr |-> pr, generation |-> "no", submitted |-> "no", terminal |-> "no",
   outcome |-> "none", superseded |-> "no", preps |-> 0, resumes |-> 0, rounds |-> 0, got |-> 0, torn |-> FALSE]
PLNoPrep == [count |-> [r \in PLRuns |-> 0], torn |-> FALSE]
PLInit ==
  /\ plRevs = <<>> /\ plPrep = PLNoPrep /\ plLedger = {} /\ plCall = PLIdle
  /\ plHub = [pulls |-> <<>>, exact |-> TRUE] /\ plFly = {} /\ plSent = <<>> /\ plAnswered = {} /\ plFaults = 0

PLAt(pc) == plCall.pc = pc
PLTo(pc) == plCall' = [plCall EXCEPT !.pc = pc]
PLEnd == plCall' = PLIdle
PLKeepHub == UNCHANGED <<plHub, plFly, plSent>>
PLKeepDisk == UNCHANGED <<plRevs, plPrep, plLedger>>
PLFault == plFaults < PLMaxFaults /\ plFaults' = plFaults + 1
PLOrd == plCall.ord
PLRev == plRevs[PLOrd]

-----------------------------------------------------------------------------
(* What a call finds. *)

PLThere(v) == v # "no"
PLMaxOrdinal == Len(plRevs)
PLTerminals == {o \in 1..PLMaxOrdinal : PLThere(plRevs[o].terminal)}
PLBarrierOrdinal == IF PLTerminals = {} THEN 0 ELSE Max(PLTerminals)
PLUnresolved == PLMaxOrdinal > 0 /\ PLThere(plRevs[PLMaxOrdinal].generation) /\ ~PLThere(plRevs[PLMaxOrdinal].terminal)

\* scanResource: what the names of the records must satisfy together.
PLScans ==
  \A o \in 1..PLMaxOrdinal :
    LET r == plRevs[o] IN
    /\ PLThere(r.submitted) \/ PLThere(r.terminal) => PLThere(r.generation)
    /\ PLThere(r.terminal) => PLThere(r.submitted)
    /\ ~(PLThere(r.superseded) /\ PLThere(r.generation))
    /\ ~PLThere(r.terminal) /\ ~PLThere(r.superseded) => o = PLMaxOrdinal

PLZeroWriteAfterBarrier ==
  PLBarrierOrdinal > 0 /\ \A o \in (PLBarrierOrdinal + 1)..PLMaxOrdinal : ~PLThere(plRevs[o].generation)

\* readRevision, readGenerationAndMarker, readTerminal: a torn record does not decode.
PLReadable(o) ==
  LET r == plRevs[o] IN ~r.torn /\ "torn" \notin {r.generation, r.submitted, r.terminal}

\* Mutant of PLBarrier: a write whose answer was lost is a barrier like any other.
PLBarrierReconciled ==
  PLBarrierOrdinal # 0 => PLReadable(PLBarrierOrdinal) /\ plRevs[PLBarrierOrdinal].outcome \in {"CONFIRMED", "RECONCILED"}

\* barrierTerminal: only a confirmed result lets a later revision through.
PLBarrier ==
  PLBarrierOrdinal # 0 => PLReadable(PLBarrierOrdinal) /\ plRevs[PLBarrierOrdinal].outcome = "CONFIRMED"

\* The pull request the next revision must go on with, 0 for none.
PLPrevious == IF PLBarrierOrdinal = 0 THEN 0 ELSE plRevs[PLBarrierOrdinal].got

\* nextPrepareRound: the rounds of the run, each record of the history readable.
PLMayPrepare(run) == ~plPrep.torn /\ plPrep.count[run] < PLPrepareRounds

\* upsertLocked: what is done with the request, decided from the records.
PLRoute(req, run) ==
  LET m == PLMaxOrdinal
      same == m > 0 /\ plRevs[m].req = req IN
  IF ~PLScans \/ (m > 0 /\ plRevs[m].torn) THEN "refuse"
  ELSE IF same /\ PLThere(plRevs[m].terminal) THEN "recover"
  ELSE IF PLBarrierOrdinal \in 1..(m - 1) /\ PLZeroWriteAfterBarrier /\ plRevs[PLBarrierOrdinal].req = req THEN "recoverBarrier"
  ELSE IF m > 0 /\ ~same
       THEN IF PLUnresolved \/ ~PLBarrier THEN "refuse"
            ELSE IF PLThere(plRevs[m].terminal) \/ PLThere(plRevs[m].superseded) THEN "next" ELSE "supersede"
  ELSE IF same /\ PLUnresolved
       THEN IF ~PLReadable(m) THEN "refuse"
            ELSE IF PLThere(plRevs[m].submitted) THEN "reconcile"
            ELSE IF PLBarrier /\ (PLPrevious # 0 => plRevs[m].pr = PLPrevious) /\ plRevs[m].resumes < PLResumeRounds THEN "resume" ELSE "refuse"
  ELSE IF same /\ (PLThere(plRevs[m].superseded) \/ ~PLBarrier \/ (PLPrevious # 0 /\ plRevs[m].pr # PLPrevious)) THEN "refuse"
  ELSE IF m = 0 THEN "next" ELSE "again"

\* Upsert, withResource: a call on a resource that another call holds is refused.
PLUpsert(req, run) ==
  /\ PLAt("idle") /\ UNCHANGED <<plAnswered, plFaults>> /\ PLKeepDisk /\ PLKeepHub
  /\ LET route == PLRoute(req, run)
         o == CASE route \in {"next", "supersede"} -> PLMaxOrdinal + 1 [] route = "recoverBarrier" -> PLBarrierOrdinal [] OTHER -> PLMaxOrdinal IN
     /\ route # "refuse" /\ (route \in {"next", "again"} => PLMayPrepare(run)) /\ o <= PLMaxRevisions
     /\ plCall' = [PLIdle EXCEPT !.req = req, !.run = run, !.ord = o, !.prev = PLPrevious, !.erred = (route = "reconcile"),
                                 !.pc = CASE route \in {"next", "again"} -> "discover" [] route = "recoverBarrier" -> "recover" [] OTHER -> route]

\* The revision nothing was written for gives way: superseded.json.
PLSupersede ==
  /\ PLAt("supersede") /\ UNCHANGED <<plPrep, plLedger, plAnswered, plFaults>> /\ PLKeepHub
  /\ plRevs' = [plRevs EXCEPT ![PLMaxOrdinal].superseded = "yes"]
  /\ IF PLMayPrepare(plCall.run) THEN PLTo("discover") ELSE PLEnd

-----------------------------------------------------------------------------
(* The space of the admission store. *)

PLPreps == MapThenSumSet(LAMBDA r : plPrep.count[r], PLRuns) + (IF plPrep.torn THEN 1 ELSE 0)
PLRecords(o) ==
  LET r == plRevs[o] IN
  1 + r.preps + r.resumes + r.rounds + Cardinality({k \in {"generation", "submitted", "terminal", "superseded"} : PLThere(r[k])})
\* inventory: the files there are, and the terminals submitted markers reserved.
\* The records of a reconciliation round count as one.
PLFiles == PLPreps + MapThenSumSet(PLRecords, 1..PLMaxOrdinal)
PLReservations == Cardinality({o \in 1..PLMaxOrdinal : PLThere(plRevs[o].submitted) /\ ~PLThere(plRevs[o].terminal)})

\* Mutant of PLFits: a marker reserves no room for the terminal it promises.
PLFitsUnreserved(reserve, consume) == PLFiles + 1 <= PLCapacity

\* checkProjection: a new record must leave the room that is reserved.
PLFits(reserve, consume) == PLFiles + 1 + PLReservations + reserve - consume <= PLCapacity

\* The record a step of the call creates.
PLNeeds ==
  CASE PLAt("mark") -> PLFits(1, 0)
    [] PLAt("terminal") -> PLFits(0, 1)
    [] PLAt("revise") -> PLOrd > PLMaxOrdinal => PLFits(0, 0)
    [] PLAt("supersede") \/ PLAt("prepared") \/ PLAt("generate") \/ PLAt("resumed") -> PLFits(0, 0)
    [] PLAt("reconcile") -> PLRev.rounds < PLReconcileRounds => PLFits(0, 0)
    [] OTHER -> TRUE
\* CodeCapacityExhausted.
PLNoRoom == ~PLNeeds /\ PLEnd /\ PLKeepDisk /\ PLKeepHub /\ UNCHANGED <<plAnswered, plFaults>>

-----------------------------------------------------------------------------
(* prepare and submit. *)

PLOpenPulls == {n \in DOMAIN plHub.pulls : plHub.pulls[n].open}
PLResumed == PLOrd <= PLMaxOrdinal /\ PLThere(plRevs[PLOrd].generation)

\* prepare's principal and discover: the pull request of the last confirmed
\* revision, or the only one open; more than one is ambiguous.
PLDiscover ==
  /\ PLAt("discover") \/ PLAt("resume")
  /\ UNCHANGED <<plLedger, plAnswered, plFaults>> /\ PLKeepHub /\ UNCHANGED <<plRevs, plPrep>>
  /\ IF plCall.prev # 0 THEN plCall' = [plCall EXCEPT !.pr = plCall.prev, !.pc = "inspect"]
     ELSE /\ Cardinality(PLOpenPulls) <= 1
          /\ plCall' = [plCall EXCEPT !.pr = (IF PLOpenPulls = {} THEN 0 ELSE CHOOSE n \in PLOpenPulls : TRUE), !.pc = "inspect"]

\* validateExactPR: open, on the authority's branches and commits.
PLExact(n) == plHub.exact /\ plHub.pulls[n].open

\* prepare's reads of the pull request and the refs: what the last confirmed
\* revision left must still stand.
PLInspect ==
  /\ PLAt("inspect") /\ UNCHANGED <<plRevs, plPrep, plLedger, plAnswered, plFaults>> /\ PLKeepHub
  /\ plCall.pr # 0 => /\ PLExact(plCall.pr)
                      /\ plCall.prev # 0 => plHub.pulls[plCall.pr].doc = plRevs[PLBarrierOrdinal].req
  /\ PLTo(IF PLResumed THEN "resumed" ELSE "prepared")

\* Any read of prepare fails or refuses: the round is recorded as failed, unless
\* the generation is being resumed, and the call ends.
PLPrepareFails ==
  /\ PLAt("discover") \/ PLAt("inspect") \/ PLAt("resume")
  /\ UNCHANGED <<plRevs, plLedger, plAnswered, plFaults>>
  /\ plPrep' = IF PLResumed \/ ~PLFits(0, 0) THEN plPrep ELSE [plPrep EXCEPT !.count[plCall.run] = @ + 1]
  /\ PLKeepHub /\ PLEnd

PLPrepared ==
  /\ PLAt("prepared") /\ UNCHANGED <<plRevs, plLedger, plAnswered, plFaults>> /\ PLKeepHub
  /\ plPrep' = [plPrep EXCEPT !.count[plCall.run] = @ + 1] /\ PLTo("revise")

PLNew == [PLRevision(plCall.req, plCall.pr) EXCEPT !.preps = PLPreps]
\* makeRevision, revision.json: a revision written before must be the same one.
PLRevise ==
  /\ PLAt("revise") /\ UNCHANGED <<plLedger, plAnswered, plFaults>> /\ PLKeepHub
  /\ IF PLOrd > PLMaxOrdinal
     THEN /\ plRevs' = Append(plRevs, PLNew) /\ plPrep' = PLNoPrep /\ PLTo("generate")
     ELSE /\ UNCHANGED <<plRevs, plPrep>> /\ IF PLRev.pr = plCall.pr THEN PLTo("generate") ELSE PLEnd

\* submit: generation.json, from a write built and bounded (prepareWrite, NewTerminalBudget).
PLGenerate ==
  /\ PLAt("generate") /\ plRevs' = [plRevs EXCEPT ![PLOrd].generation = "yes"] /\ PLTo("mark")
  /\ UNCHANGED <<plPrep, plLedger, plAnswered, plFaults>> /\ PLKeepHub

\* resumeGeneration: the proof of the round is kept, and the stored generation
\* must be the one this preparation would make.
PLResume ==
  /\ PLAt("resumed") /\ plRevs' = [plRevs EXCEPT ![PLOrd].resumes = @ + 1]
  /\ IF PLRev.pr = plCall.pr THEN PLTo("mark") ELSE PLEnd
  /\ UNCHANGED <<plPrep, plLedger, plAnswered, plFaults>> /\ PLKeepHub

\* Mutant of PLMark: the write is sent before its marker is on disk.
PLMarkLater ==
  /\ PLAt("mark") /\ PLTo("send") /\ UNCHANGED <<plRevs, plPrep, plLedger, plAnswered, plFaults>> /\ PLKeepHub

\* submitted.json: from here on the write is only reconciled.
PLMark ==
  /\ PLAt("mark") /\ plRevs' = [plRevs EXCEPT ![PLOrd].submitted = "yes"] /\ PLTo("send")
  /\ UNCHANGED <<plPrep, plLedger, plAnswered, plFaults>> /\ PLKeepHub

PLWrite == [ord |-> PLOrd, pr |-> PLRev.pr, doc |-> PLRev.req]
\* GitHub applies a write: POST opens a pull request, PATCH edits one.
PLApplied(w) ==
  IF w.pr = 0 THEN [plHub EXCEPT !.pulls = Append(@, [doc |-> w.doc, open |-> TRUE, ours |-> TRUE])]
  ELSE [plHub EXCEPT !.pulls[w.pr].doc = w.doc]
PLRoom(w) == w.pr # 0 \/ Len(plHub.pulls) < PLMaxPulls

\* executeWrite, doRequest: applied and answered; applied with the answer lost;
\* refused by GitHub; still on its way when the call gives up.
PLSend ==
  /\ PLAt("send") /\ plSent' = Append(plSent, PLWrite) /\ PLRoom(PLWrite) /\ PLKeepDisk /\ UNCHANGED plAnswered
  /\ \/ plHub' = PLApplied(PLWrite) /\ PLTo("reconcile") /\ UNCHANGED <<plFly, plFaults>>
     \/ /\ PLFault /\ plCall' = [plCall EXCEPT !.pc = "reconcile", !.erred = TRUE]
        /\ \/ plHub' = PLApplied(PLWrite) /\ UNCHANGED plFly
           \/ plFly' = plFly \cup {PLWrite} /\ UNCHANGED plHub
           \/ UNCHANGED <<plHub, plFly>>
\* The request's deadline passes before it is sent: the marker stays.
PLNeverSubmitted ==
  /\ PLAt("send") /\ PLFault /\ PLEnd /\ PLKeepDisk /\ PLKeepHub /\ UNCHANGED plAnswered

-----------------------------------------------------------------------------
(* reconcile and terminalize. *)

\* beginReconciliation: a start record per round; the rounds are bounded and an
\* interval apart.
PLBeginReconciliation ==
  /\ PLAt("reconcile") /\ UNCHANGED <<plPrep, plLedger, plAnswered, plFaults>> /\ PLKeepHub
  /\ IF PLRev.rounds < PLReconcileRounds
     THEN plRevs' = [plRevs EXCEPT ![PLOrd].rounds = @ + 1] /\ PLTo("find")
     ELSE UNCHANGED plRevs /\ PLEnd

\* reconcile's discovery: the selected pull request, or for a CREATE the only one
\* open; none or several leave the write ambiguous.
PLFind ==
  /\ PLAt("find") /\ UNCHANGED <<plAnswered, plFaults>> /\ PLKeepDisk /\ PLKeepHub
  /\ IF PLRev.pr # 0 THEN plCall' = [plCall EXCEPT !.pr = PLRev.pr, !.pc = "compare"]
     ELSE IF Cardinality(PLOpenPulls) = 1
          THEN plCall' = [plCall EXCEPT !.pr = (CHOOSE n \in PLOpenPulls : TRUE), !.pc = "compare"]
          ELSE PLEnd

\* Mutant of PLOutcome: a pull request someone else opened is taken for the created one.
PLOutcomeAnyAuthor(n) ==
  IF ~PLExact(n) \/ plHub.pulls[n].doc # PLRev.req THEN "DIVERGED" ELSE IF plCall.erred THEN "RECONCILED" ELSE "CONFIRMED"

\* classifyExactDivergence and the disposition: the document, the exact state,
\* and for a CREATE the author.
PLOutcome(n) ==
  IF ~PLExact(n) \/ plHub.pulls[n].doc # PLRev.req \/ (PLRev.pr = 0 /\ ~plHub.pulls[n].ours) THEN "DIVERGED"
  ELSE IF plCall.erred THEN "RECONCILED" ELSE "CONFIRMED"

PLCompare ==
  /\ PLAt("compare") /\ plCall' = [plCall EXCEPT !.out = PLOutcome(plCall.pr), !.pc = "terminal"]
  /\ UNCHANGED <<plAnswered, plFaults>> /\ PLKeepDisk /\ PLKeepHub
\* A read of the round fails: CodeAmbiguousUnresolved.
PLReadFails == (PLAt("find") \/ PLAt("compare")) /\ PLEnd /\ PLKeepDisk /\ PLKeepHub /\ UNCHANGED <<plAnswered, plFaults>>

\* terminalize: terminal.json takes the space its marker reserved.
PLTerminalize ==
  /\ PLAt("terminal") /\ PLTo("record") /\ UNCHANGED <<plPrep, plLedger, plAnswered, plFaults>> /\ PLKeepHub
  /\ plRevs' = [plRevs EXCEPT ![PLOrd].terminal = "yes", ![PLOrd].outcome = plCall.out, ![PLOrd].got = plCall.pr]

\* MaterialLedgerRecorder.Record: the deterministic event, once; then the answer.
PLRecord ==
  /\ PLAt("record") /\ plLedger' = plLedger \cup {PLOrd} /\ plAnswered' = plAnswered \cup {PLOrd} /\ PLEnd
  /\ UNCHANGED <<plRevs, plPrep, plFaults>> /\ PLKeepHub
PLRecordFails == PLAt("record") /\ PLFault /\ PLEnd /\ PLKeepDisk /\ PLKeepHub /\ UNCHANGED plAnswered

\* Mutant of PLRecover: a stored result is answered without its event.
PLRecoverUnrecorded ==
  /\ PLAt("recover") /\ PLReadable(PLOrd) /\ PLEnd
  /\ plAnswered' = plAnswered \cup {PLOrd} /\ UNCHANGED <<plRevs, plPrep, plLedger, plFaults>> /\ PLKeepHub

\* recoverTerminal: the stored result, verified against its revision, generation
\* and marker, its evidence restored for this run and its event recorded again.
PLRecover ==
  /\ PLAt("recover") /\ PLReadable(PLOrd) /\ PLTo("record")
  /\ PLKeepDisk /\ PLKeepHub /\ UNCHANGED <<plAnswered, plFaults>>
PLRecoverRefuses ==
  /\ PLAt("recover") /\ ~PLReadable(PLOrd) /\ PLEnd /\ PLKeepDisk /\ PLKeepHub /\ UNCHANGED <<plAnswered, plFaults>>

-----------------------------------------------------------------------------
(* Deaths, GitHub, and the owner. *)

\* resourceTxn.create writes in place: the record the process died in is torn.
PLTorn ==
  CASE PLAt("supersede") -> plRevs' = [plRevs EXCEPT ![PLMaxOrdinal].superseded = "torn"] /\ UNCHANGED plPrep
    [] PLAt("prepared") -> plPrep' = [plPrep EXCEPT !.torn = TRUE] /\ UNCHANGED plRevs
    [] PLAt("revise") -> /\ PLOrd > PLMaxOrdinal /\ plRevs' = Append(plRevs, [PLNew EXCEPT !.torn = TRUE]) /\ plPrep' = PLNoPrep
    [] PLAt("generate") -> plRevs' = [plRevs EXCEPT ![PLOrd].generation = "torn"] /\ UNCHANGED plPrep
    [] PLAt("mark") -> plRevs' = [plRevs EXCEPT ![PLOrd].submitted = "torn"] /\ UNCHANGED plPrep
    [] PLAt("terminal") -> plRevs' = [plRevs EXCEPT ![PLOrd].terminal = "torn"] /\ UNCHANGED plPrep
    [] OTHER -> FALSE
PLDie ==
  /\ ~PLAt("idle") /\ PLFault /\ PLEnd /\ PLKeepHub /\ UNCHANGED <<plLedger, plAnswered>>
  /\ UNCHANGED <<plRevs, plPrep>> \/ (PLNeeds /\ PLTorn)
\* A write still under way is applied after all.
PLLands ==
  /\ \E w \in plFly : PLRoom(w) /\ plHub' = PLApplied(w) /\ plFly' = plFly \ {w}
  /\ PLKeepDisk /\ UNCHANGED <<plCall, plSent, plAnswered, plFaults>>
PLOwner ==
  /\ PLFault /\ PLKeepDisk /\ UNCHANGED <<plCall, plFly, plSent, plAnswered>>
  /\ \/ \E n \in PLOpenPulls : plHub' = [plHub EXCEPT !.pulls[n].open = FALSE]
     \/ \E n \in PLOpenPulls : \E d \in PLRequests : plHub' = [plHub EXCEPT !.pulls[n].doc = d]
     \/ Len(plHub.pulls) < PLMaxPulls /\ \E d \in PLRequests : plHub' = [plHub EXCEPT !.pulls = Append(@, [doc |-> d, open |-> TRUE, ours |-> FALSE])]
     \/ plHub' = [plHub EXCEPT !.exact = ~@]

PLStep ==
  PLSupersede \/ PLDiscover \/ PLInspect \/ PLPrepareFails \/ PLPrepared \/ PLRevise \/ PLGenerate \/ PLResume \/ PLMark \/ PLSend
  \/ PLNeverSubmitted \/ PLBeginReconciliation \/ PLFind \/ PLCompare \/ PLReadFails \/ PLTerminalize \/ PLRecord \/ PLRecordFails
  \/ PLRecover \/ PLRecoverRefuses
PLWork == (PLNeeds /\ PLStep) \/ PLNoRoom
PLNext ==
  \/ \E req \in PLRequests, run \in PLRuns : PLUpsert(req, run)
  \/ PLWork \/ PLDie \/ PLLands \/ PLOwner
PLSpec == PLInit /\ [][PLNext]_plVars

-----------------------------------------------------------------------------
PLTypeOK ==
  /\ Len(plRevs) <= PLMaxRevisions /\ plPrep \in [count : [PLRuns -> 0..PLPrepareRounds], torn : BOOLEAN] /\ plLedger \subseteq 1..PLMaxRevisions
  /\ plCall.ord \in 0..PLMaxRevisions /\ plHub.exact \in BOOLEAN /\ Len(plHub.pulls) <= PLMaxPulls /\ plFaults \in 0..PLMaxFaults

\* A revision's document is sent at most once, and a pull request is opened at
\* most once, however often calls die and are retried (the submitted marker).
PLOneWrite ==
  \A i, j \in DOMAIN plSent : i # j => plSent[i].ord # plSent[j].ord /\ (plSent[i].pr # 0 \/ plSent[j].pr # 0)

\* A write that GitHub applies late never lands over a later revision: nothing is
\* sent after it while it may still be on its way (barrierTerminal).
PLNoLateWrite == \A w \in plFly : \A i \in DOMAIN plSent : plSent[i].ord <= w.ord

\* A created pull request recorded as applied was opened by this controller.
PLAppliedIsOurs ==
  \A o \in 1..PLMaxOrdinal :
    plRevs[o].outcome \in {"CONFIRMED", "RECONCILED"} /\ plRevs[o].pr = 0 => plHub.pulls[plRevs[o].got].ours

\* A revision whose write may have been sent always has room for its terminal,
\* however full the store is (the reservation of its marker).
PLTerminalFits == PLAt("terminal") => PLFits(0, 1)

\* The upsert of a pull request: one write per revision and one pull request per
\* resource, no write overtaken by a later one, no result answered without its
\* ledger event, room for the result of every write sent, and the records of a
\* call that died anywhere still scan.
PLSound == PLTypeOK /\ PLOneWrite /\ PLNoLateWrite /\ PLAppliedIsOurs /\ plAnswered \subseteq plLedger /\ PLTerminalFits /\ PLScans
=============================================================================
