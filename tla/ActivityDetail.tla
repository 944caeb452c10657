---------------------------- MODULE ActivityDetail ----------------------------
(***************************************************************************)
(* internal/activity collectBatch (service.go, provider.go): a run's       *)
(* collector reads the builder's progress from its sidecar in bounded      *)
(* batches, each between two proofs of the progress file, and stores it    *)
(* once and in order, or says that something is missing.                   *)
(*                                                                         *)
(* The builder's events have identifiers 0, 1, ...; the text at one is its *)
(* numbering, which a restarted sidecar may change.  The file is as long as*)
(* the events published from it and a section header that waits for a line.*)
(***************************************************************************)
EXTENDS Integers, Sequences, FiniteSets, SequencesExt

CONSTANTS ADPage,       \* events of a batch (MaxPageSize)
          ADMaxIds,     \* bound: published events
          ADMaxFaults   \* bound: deaths, failed appends, sidecars that end, events lost

ASSUME ADAssumption == ADPage \in Nat \ {0} /\ ADMaxIds \in Nat /\ ADMaxFaults \in Nat

NoEvent == -1

VARIABLES adPub, adQuiet,  \* the events published; a header that waits
          adHeld,          \* published, but the live sidecar still persists it
          adLost,          \* gone from the sidecar's replay
          adNumbering,     \* which text the identifiers stand for
          adProof,         \* the store: the size of the last provider proof
          adStored,        \* the store: the provider's events
          adMarks,         \* the store: gap, silent and integrity markers
          adGap,           \* Service.gaps
          adLast,          \* collect: the last identifier stored, NoEvent for none
          adFailed,        \* collect: providerFailed
          adBatch,         \* the batch in progress
          adFaults

adProvider == <<adPub, adQuiet, adHeld, adLost, adNumbering>>
adStore == <<adProof, adStored, adMarks>>
adCollect == <<adGap, adLast, adFailed, adBatch>>
adVars == <<adProvider, adStore, adCollect, adFaults>>

NoADBatch == [pc |-> "none", size |-> 0, pub |-> 0, live |-> FALSE, first |-> FALSE, ids |-> <<>>, marked |-> FALSE]

ADInit ==
  /\ adPub = 0 /\ adQuiet = 0 /\ adHeld = {} /\ adLost = {} /\ adNumbering = 1
  /\ adProof = NoEvent /\ adStored = {} /\ adMarks = {}
  /\ adGap = <<>> /\ adLast = NoEvent /\ adFailed = FALSE /\ adBatch = NoADBatch /\ adFaults = 0

ADSize == adPub + adQuiet
ADFault == adFaults < ADMaxFaults /\ adFaults' = adFaults + 1

-----------------------------------------------------------------------------
\* The builder writes a line, which publishes the header before it too; the live
\* sidecar may still be persisting what it published.
ADPublish ==
  /\ adPub + 1 + adQuiet <= ADMaxIds /\ adPub' = adPub + 1 + adQuiet /\ adQuiet' = 0
  /\ \E held \in SUBSET (adPub..adPub') : held \subseteq adPub..(adPub' - 1) /\ adHeld' = adHeld \cup held
  /\ UNCHANGED <<adLost, adNumbering, adStore, adCollect, adFaults>>
ADHeader == adQuiet = 0 /\ adPub < ADMaxIds /\ adQuiet' = 1 /\ UNCHANGED <<adPub, adHeld, adLost, adNumbering, adStore, adCollect, adFaults>>
ADLose == \E i \in 1..(adPub - 1) : i \notin adLost /\ ADFault /\ adLost' = adLost \cup {i} /\ UNCHANGED <<adPub, adQuiet, adHeld, adNumbering, adStore, adCollect>>

-----------------------------------------------------------------------------
\* collectBatch: the proof before, and the connection.  Identifier 0 reaches only a
\* reader that connected before it was published.
ADConnect ==
  /\ adBatch.pc = "none" /\ ~adFailed
  /\ adBatch' = [NoADBatch EXCEPT !.pc = "read", !.size = ADSize, !.pub = adPub, !.live = adPub = 0, !.first = adProof = NoEvent]
  /\ UNCHANGED <<adProvider, adStore, adGap, adLast, adFailed, adFaults>>

\* batch resumes one event early, so that the sidecar never takes the position of
\* its newest event for an unknown one; what is persisted meanwhile is there for
\* the next read.
ADServed ==
  LET from == IF adLast > 1 THEN adLast ELSE 1 IN
  {i \in from..(adPub - 1) : i \notin adHeld \cup adLost} \cup (IF adBatch.live /\ adLast <= 1 /\ adPub > 0 THEN {0} \ adHeld ELSE {})
batch ==
  /\ adBatch.pc = "read"
  /\ LET sorted == SetToSortSeq(ADServed, <) IN
     adBatch' = [adBatch EXCEPT !.pc = "check", !.ids = SubSeq(sorted, 1, IF Len(sorted) < ADPage THEN Len(sorted) ELSE ADPage)]
  /\ adHeld' = {} /\ UNCHANGED <<adPub, adQuiet, adLost, adNumbering, adStore, adGap, adLast, adFailed, adFaults>>

\* The binding, the session or the owner is not what it was: the batch is dropped.
ADDiscard == adBatch.pc \in {"read", "check"} /\ adBatch' = NoADBatch /\ UNCHANGED <<adProvider, adStore, adGap, adLast, adFailed, adFaults>>

ADText(i) == [id |-> i, numbering |-> adNumbering]
ADResent == {i \in ToSet(adBatch.ids) : i <= adLast}
\* Mutant of ADReplays: only what is known to be sent again is compared.
ADReplaysResent == \A i \in ADResent : ADText(i) \in adStored
\* checkCommittedProviderReplay and checkProviderReplay: what was sent again is what
\* was stored, and no identifier gets another text.
ADReplays ==
  /\ \A i \in ADResent : ADText(i) \in adStored
  /\ \A i \in ToSet(adBatch.ids) : \A x \in adStored : x.id = i => x = ADText(i)
ADIntegrity ==
  /\ adBatch.pc = "check" /\ ~ADReplays
  /\ adFailed' = TRUE /\ adMarks' = adMarks \cup {<<"integrity">>} /\ adBatch' = NoADBatch
  /\ UNCHANGED <<adProvider, adProof, adStored, adGap, adLast, adFaults>>

\* The proof after the read is saved before the events it covers.
ADFresh == SelectSeq(adBatch.ids, LAMBDA i : i > adLast)
ADSilent == ADFresh = <<>> /\ adProof # NoEvent /\ adBatch.size > adProof /\ adBatch.pub > adProof
saveProof ==
  /\ adBatch.pc = "check" /\ ADReplays /\ adProof' = ADSize
  /\ adBatch' = (IF ADSilent THEN [adBatch EXCEPT !.pc = "silent"]
                 ELSE IF ADFresh = <<>> THEN NoADBatch ELSE [adBatch EXCEPT !.pc = "store", !.ids = ADFresh])
  /\ UNCHANGED <<adProvider, adStored, adMarks, adGap, adLast, adFailed, adFaults>>
\* A file that had grown by more than a waiting header before a read that brought
\* nothing is a silent gap: everything is read again.
ADMarkSilent ==
  /\ adBatch.pc = "silent" /\ adMarks' = adMarks \cup {<<"silent">>} /\ adLast' = NoEvent /\ adBatch' = NoADBatch
  /\ UNCHANGED <<adProvider, adProof, adStored, adGap, adFailed, adFaults>>

ADExpected(i) == IF adLast # NoEvent THEN adLast + 1 ELSE IF adBatch.first /\ i = 0 THEN 0 ELSE 1
ADFollows == Head(adBatch.ids) = ADExpected(Head(adBatch.ids)) \/ adBatch.marked
ADGap == <<adLast, Head(adBatch.ids)>>
\* Mutant of ADStore: whatever comes next is stored.
ADStoreAnyway ==
  LET i == Head(adBatch.ids) rest == Tail(adBatch.ids) IN
  /\ adBatch.pc = "store"
  /\ adStored' = adStored \cup {ADText(i)} /\ adLast' = i
  /\ adBatch' = (IF rest = <<>> THEN NoADBatch ELSE [adBatch EXCEPT !.ids = rest, !.marked = FALSE])
  /\ UNCHANGED <<adProvider, adProof, adMarks, adGap, adFailed, adFaults>>
\* The next event is stored when it follows, or behind the marker of its gap.
ADStore ==
  LET i == Head(adBatch.ids) rest == Tail(adBatch.ids) IN
  /\ adBatch.pc = "store" /\ ADFollows
  /\ adStored' = adStored \cup {ADText(i)} /\ adLast' = i
  /\ adBatch' = (IF rest = <<>> THEN NoADBatch ELSE [adBatch EXCEPT !.ids = rest, !.marked = FALSE])
  /\ UNCHANGED <<adProvider, adProof, adMarks, adGap, adFailed, adFaults>>
\* Mutant of ADMarkGap: a gap is believed at its first sight.
ADMarkGapAtOnce ==
  /\ adBatch.pc = "store" /\ ~ADFollows
  /\ adMarks' = adMarks \cup {ADGap} /\ adGap' = <<>> /\ adBatch' = [adBatch EXCEPT !.marked = TRUE]
  /\ UNCHANGED <<adProvider, adProof, adStored, adLast, adFailed, adFaults>>
\* One that does not follow ends the batch the first time (confirmGap), and is
\* marked when the same gap is there again.
ADMarkGap ==
  /\ adBatch.pc = "store" /\ ~ADFollows /\ adGap = ADGap
  /\ adMarks' = adMarks \cup {ADGap} /\ adGap' = <<>> /\ adBatch' = [adBatch EXCEPT !.marked = TRUE]
  /\ UNCHANGED <<adProvider, adProof, adStored, adLast, adFailed, adFaults>>
confirmGap ==
  /\ adBatch.pc = "store" /\ ~ADFollows /\ adGap # ADGap
  /\ adGap' = ADGap /\ adBatch' = NoADBatch
  /\ UNCHANGED <<adProvider, adStore, adLast, adFailed, adFaults>>

\* An append fails: the batch ends where it is, and the collector with it when the
\* marker for that cannot be appended either.
ADStoreFails ==
  /\ adBatch.pc \in {"silent", "store"} /\ ADFault /\ adBatch' = NoADBatch /\ adLast' \in {adLast, NoEvent}
  /\ UNCHANGED <<adProvider, adStore, adGap, adFailed>>

-----------------------------------------------------------------------------
\* The sidecar ends: a batch that reads fails, and the next sidecar is read from
\* the start.  Its replay of a restarted builder may be numbered anew.
ADSidecarEnds ==
  /\ adBatch.pc \notin {"silent", "store"} /\ ADFault /\ adBatch' = NoADBatch /\ adLast' = NoEvent /\ adHeld' = {}
  /\ adNumbering' \in {adNumbering, adNumbering + 1}
  /\ UNCHANGED <<adPub, adQuiet, adLost, adStore, adGap, adFailed>>
\* The collector retires when nobody reads; another one starts later.
ADRetire == adBatch.pc = "none" /\ (adLast # NoEvent \/ adFailed) /\ adLast' = NoEvent /\ adFailed' = FALSE /\ UNCHANGED <<adProvider, adStore, adGap, adBatch, adFaults>>
\* The service dies at any point of a batch, and its sidecar with it.
ADDies ==
  /\ ADFault /\ adBatch' = NoADBatch /\ adLast' = NoEvent /\ adGap' = <<>> /\ adFailed' = FALSE /\ adHeld' = {}
  /\ adNumbering' \in {adNumbering, adNumbering + 1}
  /\ UNCHANGED <<adPub, adQuiet, adLost, adStore>>

ADNext ==
  \/ ADPublish \/ ADHeader \/ ADLose \/ ADConnect \/ batch \/ ADDiscard \/ ADIntegrity \/ saveProof \/ ADMarkSilent \/ ADStore \/ ADMarkGap \/ confirmGap
  \/ ADStoreFails \/ ADSidecarEnds \/ ADRetire \/ ADDies
ADSpec == ADInit /\ [][ADNext]_adVars
-----------------------------------------------------------------------------
ADTypeOK ==
  /\ adPub \in 0..ADMaxIds /\ adQuiet \in {0, 1} /\ adProof \in {NoEvent} \cup 0..(ADMaxIds + 1) /\ adLast \in {NoEvent} \cup 0..ADMaxIds
  /\ adHeld \subseteq 0..ADMaxIds /\ adFailed \in BOOLEAN /\ adFaults \in 0..ADMaxFaults

ADIds == {x.id : x \in adStored}
\* A client that is shown an event of the builder was shown the one before it, or
\* a marker that detail is missing before this one; whatever was sent again, read
\* from the start, or cut short by a death.
ADWholeOrMarked == \A i \in ADIds : i <= 1 \/ i - 1 \in ADIds \/ \E x \in {NoEvent} \cup 0..i : <<x, i>> \in adMarks

\* "A provider restart can change the association between replay ordinals and
\* payloads": one identifier never stands for two texts.
ADOneText == \A x, y \in adStored : x.id = y.id => x = y

\* "Only the same gap seen again is a real one": a replay gap is recorded only
\* where an event is gone from the sidecar, not where it was late for one read.
ADGapIsReal == \A m \in adMarks : Len(m) = 2 => \E i \in adLost : m[1] < i /\ i < m[2]

\* What is stored of the builder's progress is whole or says what is not.
ADSound == ADTypeOK /\ ADWholeOrMarked /\ ADOneText /\ ADGapIsReal
=============================================================================
