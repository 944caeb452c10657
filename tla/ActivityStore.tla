---------------------------- MODULE ActivityStore ----------------------------
(***************************************************************************)
(* internal/activity Store (store.go, registry.go, namespace.go): the      *)
(* events a client is shown of a run, numbered across all runs.  A witness *)
(* beside the directory says it was ever made, the registry which runs     *)
(* ever had a log, the sequence the last number given and the digest of    *)
(* the registry; each log has an anchor that says how far it was           *)
(* committed.  All but the witness and the logs are replaced by rename.    *)
(*                                                                         *)
(* The witness's flock is held while the store is open, so asMem is the    *)
(* memory of the one process that has it.  A death loses what was not      *)
(* synced: each step ends with its sync, so a power loss is a death.  The  *)
(* proof of a provider's log (saveProof) is a record without an ordinal,   *)
(* written and anchored as an event's is, and is left out.                 *)
(***************************************************************************)
EXTENDS Naturals, Sequences, FiniteSets, SequencesExt

CONSTANTS ASProcs, ASRuns,
          ASEvents,      \* identities of events
          ASCached,      \* the runs kept in memory (four)
          ASMaxNext,     \* bound: ordinals
          ASMaxFaults    \* bound: deaths and failed writes

NoASProc == "nobody"
ASSUME ASAssumption == NoASProc \notin ASProcs /\ ASCached \in Nat \ {0} /\ ASMaxNext \in Nat /\ ASMaxFaults \in Nat

VARIABLES asWitness,    \* the namespace witness: none, empty (or part written), whole
          asRegistry,   \* the runs of initializations.json
          asSeq,        \* the sequence: whether it is there, the last ordinal, the registry it names
          asLog,        \* per run: none, part (of the header), whole; its records; a torn one after them
          asAnchor,     \* per run: the records committed
          asLock,       \* who holds the witness's flock
          asPC,         \* where each process is
          asMem,        \* next, registry, cached logs, files replaced behind its back
          asOp,         \* the call in progress
          asShown,      \* every event a client was given
          asForgot,     \* the runs of the registry that were forgotten
          asCut,        \* an initialization or the write of a record was cut short
          asFaults

asFiles == <<asWitness, asRegistry, asSeq, asLog, asAnchor>>
asGhosts == <<asShown, asForgot, asCut, asFaults>>
asVars == <<asFiles, asLock, asPC, asMem, asOp, asGhosts>>

NoASLog == [at |-> "none", recs |-> <<>>, torn |-> FALSE]
NoASAnchor == ASMaxNext + 1
NoASMem == [next |-> 0, runs |-> {}, cache |-> [r \in ASRuns |-> "none"], replaced |-> {}]
NoASOp == [kind |-> "none", run |-> "", ev |-> ""]

ASInit ==
  /\ asWitness = "none" /\ asRegistry = {} /\ asSeq = [there |-> FALSE, next |-> 0, runs |-> {}]
  /\ asLog = [r \in ASRuns |-> NoASLog] /\ asAnchor = [r \in ASRuns |-> NoASAnchor]
  /\ asLock = NoASProc /\ asPC = [p \in ASProcs |-> "closed"] /\ asMem = NoASMem /\ asOp = NoASOp
  /\ asShown = {} /\ asForgot = {} /\ asCut = FALSE /\ asFaults = 0

ASAt(p, pc) == asPC[p] = pc
ASTo(p, pc) == asPC' = [asPC EXCEPT ![p] = pc]
\* A step of the process that has the store, from one position to the next.
ASStep(p, from, to) == ASAt(p, from) /\ ASTo(p, to) /\ UNCHANGED <<asLock, asGhosts>>
\* A process that leaves, or is refused: its flock and its memory go with it.
ASLeave(p) ==
  /\ ASTo(p, "closed")
  /\ IF asLock = p THEN asLock' = NoASProc /\ asMem' = NoASMem /\ asOp' = NoASOp ELSE UNCHANGED <<asLock, asMem, asOp>>

-----------------------------------------------------------------------------
\* openStoreNamespace: O_EXCL says whether this process makes the store.
ASWitness(p) ==
  /\ ASAt(p, "closed") /\ ASTo(p, IF asWitness = "none" THEN "made" ELSE "found")
  /\ asWitness' = (IF asWitness = "none" THEN "empty" ELSE asWitness)
  /\ UNCHANGED <<asRegistry, asSeq, asLog, asAnchor, asLock, asMem, asOp, asGhosts>>

\* lockFile does not wait.  Who made the witness may lose it to one that found it,
\* and then nobody ever writes it.
ASTakeLock(p) ==
  /\ asPC[p] \in {"made", "found"}
  /\ IF asLock = NoASProc
       THEN asLock' = p /\ ASTo(p, IF ASAt(p, "made") THEN "fresh" ELSE "check") /\ UNCHANGED asCut
       ELSE UNCHANGED asLock /\ ASTo(p, "closed") /\ asCut' = (asCut \/ ASAt(p, "made"))
  /\ UNCHANGED <<asFiles, asMem, asOp, asShown, asForgot, asFaults>>
ASWriteWitness(p) == ASStep(p, "fresh", "registry") /\ asWitness' = "whole" /\ UNCHANGED <<asRegistry, asSeq, asLog, asAnchor, asMem, asOp>>

\* What OpenStore needs of a directory it did not make: the sequence and the
\* registry it names, and no anchor beyond it.
ASOpens ==
  /\ asWitness = "whole" /\ asSeq.there /\ asSeq.runs = asRegistry
  /\ \A r \in ASRuns : asAnchor[r] \in 1..Len(asLog[r].recs) => asLog[r].recs[asAnchor[r]].ord <= asSeq.next
OpenStore(p) ==
  /\ ASAt(p, "check")
  /\ IF ASOpens THEN ASTo(p, "open") /\ asMem' = [NoASMem EXCEPT !.next = asSeq.next, !.runs = asRegistry] /\ UNCHANGED <<asLock, asOp>>
                ELSE ASLeave(p)
  /\ UNCHANGED <<asFiles, asGhosts>>
\* Store.Close.
ASClose(p) == ASAt(p, "open") /\ ASLeave(p) /\ UNCHANGED <<asFiles, asGhosts>>

-----------------------------------------------------------------------------
ASReturn(p) == ASTo(p, "open") /\ asOp' = NoASOp

\* saveRegistry: the file first, then the sequence that names its digest.
saveRegistry(p) == ASStep(p, "registry", "sequence") /\ asRegistry' = asMem.runs /\ UNCHANGED <<asWitness, asSeq, asLog, asAnchor, asMem, asOp>>
saveSequence(p) ==
  /\ "sequence" \notin asMem.replaced
  /\ ASStep(p, "sequence", IF asOp = NoASOp THEN "open" ELSE "create")
  /\ asSeq' = [there |-> TRUE, next |-> asMem.next, runs |-> asMem.runs]
  /\ UNCHANGED <<asWitness, asRegistry, asLog, asAnchor, asMem, asOp>>

\* It refuses a sequence it did not write, and then the registry names a run that
\* the sequence does not: the initialization stays cut short.
ASStaleSequence(p) ==
  /\ ASAt(p, "sequence") /\ "sequence" \in asMem.replaced /\ ASReturn(p)
  /\ asMem' = [asMem EXCEPT !.replaced = @ \cup {"registry"}] /\ asCut' = TRUE
  /\ UNCHANGED <<asFiles, asLock, asShown, asForgot, asFaults>>

\* A call: Append, read (proofs and replays load the same way) or Forget.
ASCall(p) ==
  \E kind \in {"append", "read", "forget"}, r \in ASRuns, e \in ASEvents :
    /\ kind # "append" => e = CHOOSE x \in ASEvents : TRUE
    /\ asOp' = [kind |-> kind, run |-> r, ev |-> e]
    /\ ASStep(p, "open", IF kind = "forget" THEN "remove" ELSE "load")
    /\ UNCHANGED <<asFiles, asMem>>
\* What load needs of a log that is not cached: every record up to the anchor is
\* there and none is torn; whole records after the anchor are taken over.
ASLoadsExact(r, next) == asLog[r].at = "whole" /\ ~asLog[r].torn /\ asAnchor[r] = Len(asLog[r].recs)
ASLoads(r, next) ==
  /\ asLog[r].at = "whole" /\ ~asLog[r].torn /\ asAnchor[r] <= Len(asLog[r].recs)
  /\ \A i \in DOMAIN asLog[r].recs : asLog[r].recs[i].ord <= next
ASRefusesUnknown(r) ==
  \/ "registry" \in asMem.replaced \/ asMem.cache[r] = "err"
  \/ asLog[r].at # "none" /\ asMem.cache[r] = "none" /\ (r \notin asMem.runs \/ ~ASLoads(r, asMem.next))
ASRefuses(r) ==
  \/ "registry" \in asMem.replaced \/ asMem.cache[r] = "err"
  \/ IF asLog[r].at = "none" THEN asMem.cache[r] # "none" \/ r \in asMem.runs \/ asAnchor[r] # NoASAnchor
                              ELSE asMem.cache[r] = "none" /\ (r \notin asMem.runs \/ ~ASLoads(r, asMem.next))
\* Room in the cache is made by dropping any other run, its error with it.
ASCache(r) ==
  LET kept == {q \in ASRuns : asMem.cache[q] # "none"} IN
  IF r \in kept \/ Cardinality(kept) < ASCached
    THEN asMem' = [asMem EXCEPT !.cache[r] = "ok"]
    ELSE \E q \in kept : asMem' = [asMem EXCEPT !.cache = [asMem.cache EXCEPT ![q] = "none", ![r] = "ok"]]

ASLoad(p) ==
  LET r == asOp.run IN
  /\ ASAt(p, "load")
  /\ \/ ASRefuses(r) /\ ASReturn(p) /\ UNCHANGED <<asMem, asAnchor>>
     \/ ~ASRefuses(r) /\ asLog[r].at = "none"
        /\ asMem' = [asMem EXCEPT !.runs = @ \cup {r}] /\ ASTo(p, "registry") /\ UNCHANGED <<asOp, asAnchor>>
     \/ ~ASRefuses(r) /\ asLog[r].at # "none"
        /\ asAnchor' = [asAnchor EXCEPT ![r] = Len(asLog[r].recs)]
        /\ ASCache(r) /\ ASTo(p, asOp.kind) /\ UNCHANGED asOp
  /\ UNCHANGED <<asWitness, asRegistry, asSeq, asLog, asLock, asGhosts>>

\* The log of a run is made after the registry names the run.
ASCreateLog(p) == ASStep(p, "create", "header") /\ asLog' = [asLog EXCEPT ![asOp.run].at = "part"] /\ UNCHANGED <<asWitness, asRegistry, asSeq, asAnchor, asMem, asOp>>
ASWriteHeader(p) == ASStep(p, "header", "anchor first") /\ asLog' = [asLog EXCEPT ![asOp.run].at = "whole"] /\ UNCHANGED <<asWitness, asRegistry, asSeq, asAnchor, asMem, asOp>>
ASFirstAnchor(p) == ASStep(p, "anchor first", "load") /\ asAnchor' = [asAnchor EXCEPT ![asOp.run] = 0] /\ UNCHANGED <<asWitness, asRegistry, asSeq, asLog, asMem, asOp>>

-----------------------------------------------------------------------------
ASFound == {x \in ToSet(asLog[asOp.run].recs) : x.ev = asOp.ev}
\* Append of an event that is there: it is answered as it is.
ASAnswer(p) ==
  /\ ASAt(p, "append") /\ ASFound # {} /\ asShown' = asShown \cup ASFound /\ ASReturn(p)
  /\ UNCHANGED <<asFiles, asLock, asMem, asForgot, asCut, asFaults>>
ASNoSequence(p) ==
  /\ ASAt(p, "append") /\ ASFound = {} /\ "sequence" \in asMem.replaced
  /\ asMem' = [asMem EXCEPT !.cache[asOp.run] = "err"] /\ ASReturn(p) /\ UNCHANGED <<asFiles, asLock, asGhosts>>
\* Else its ordinal is made durable before it is used.
ASAllocateUnsaved(p) ==
  /\ ASStep(p, "append", "write") /\ ASFound = {} /\ "sequence" \notin asMem.replaced /\ asMem.next < ASMaxNext
  /\ asMem' = [asMem EXCEPT !.next = @ + 1] /\ UNCHANGED <<asFiles, asOp>>
ASAllocate(p) ==
  /\ ASStep(p, "append", "write") /\ ASFound = {} /\ "sequence" \notin asMem.replaced /\ asMem.next < ASMaxNext
  /\ asMem' = [asMem EXCEPT !.next = @ + 1] /\ asSeq' = [asSeq EXCEPT !.next = asMem.next + 1]
  /\ UNCHANGED <<asWitness, asRegistry, asLog, asAnchor, asOp>>

ASWrite(p) ==
  /\ ASStep(p, "write", "anchor")
  /\ asLog' = [asLog EXCEPT ![asOp.run].recs = Append(@, [run |-> asOp.run, ev |-> asOp.ev, ord |-> asMem.next])]
  /\ UNCHANGED <<asWitness, asRegistry, asSeq, asAnchor, asMem, asOp>>
saveAnchor(p) ==
  /\ ASAt(p, "anchor") /\ ASReturn(p) /\ asAnchor' = [asAnchor EXCEPT ![asOp.run] = Len(asLog[asOp.run].recs)]
  /\ asShown' = asShown \cup ASFound
  /\ UNCHANGED <<asWitness, asRegistry, asSeq, asLog, asLock, asMem, asForgot, asCut, asFaults>>

\* read: a page of the log, which ReadActivity and the streams show.
ASRead(p) ==
  /\ ASAt(p, "read") /\ ASReturn(p) /\ asShown' = asShown \cup ToSet(asLog[asOp.run].recs)
  /\ UNCHANGED <<asFiles, asLock, asMem, asForgot, asCut, asFaults>>

\* Forget: the log, then its anchor; the registry keeps the run.
ASRemoveLog(p) == ASStep(p, "remove", "remove anchor") /\ asLog' = [asLog EXCEPT ![asOp.run] = NoASLog] /\ UNCHANGED <<asWitness, asRegistry, asSeq, asAnchor, asMem, asOp>>
ASRemoveAnchor(p) ==
  /\ ASAt(p, "remove anchor") /\ ASReturn(p) /\ asAnchor' = [asAnchor EXCEPT ![asOp.run] = NoASAnchor]
  /\ asMem' = [asMem EXCEPT !.cache[asOp.run] = "none"]
  /\ asForgot' = asForgot \cup ({asOp.run} \cap asRegistry)
  /\ UNCHANGED <<asWitness, asRegistry, asSeq, asLog, asLock, asShown, asCut, asFaults>>

-----------------------------------------------------------------------------
ASInitializing == {"made", "fresh", "registry", "sequence", "create", "header", "anchor first"}
ASFault == asFaults < ASMaxFaults /\ asFaults' = asFaults + 1
ASTorn == asLog' = [asLog EXCEPT ![asOp.run].torn = TRUE]

\* The process dies; a record it was writing may be there in part.
ASDies(p) ==
  /\ ~ASAt(p, "closed") /\ ASFault /\ ASLeave(p)
  /\ \/ UNCHANGED asLog /\ asCut' = (asCut \/ asPC[p] \in ASInitializing)
     \/ ASAt(p, "write") /\ ASTorn /\ asCut' = TRUE
  /\ UNCHANGED <<asWitness, asRegistry, asSeq, asAnchor, asShown, asForgot>>

\* A system call of an initialization fails, before or after its effect: what was
\* renamed is then a file the process does not know (registryInfo, sequenceInfo).
ASInitFails(p) ==
  /\ asPC[p] \in {"registry", "sequence", "create", "header", "anchor first"} /\ asOp # NoASOp /\ ASFault /\ ASReturn(p) /\ asCut' = TRUE
  /\ \/ UNCHANGED <<asRegistry, asSeq>>
        /\ asMem' = (IF ASAt(p, "sequence") THEN [asMem EXCEPT !.replaced = @ \cup {"registry"}] ELSE asMem)
     \/ ASAt(p, "registry") /\ asRegistry' = asMem.runs /\ asMem' = [asMem EXCEPT !.replaced = @ \cup {"registry"}] /\ UNCHANGED asSeq
     \/ ASAt(p, "sequence") /\ "sequence" \notin asMem.replaced /\ asSeq' = [asSeq EXCEPT !.next = asMem.next, !.runs = asMem.runs]
        /\ asMem' = [asMem EXCEPT !.replaced = {"registry", "sequence"}] /\ UNCHANGED asRegistry
  /\ asAnchor' \in {asAnchor, IF ASAt(p, "anchor first") THEN [asAnchor EXCEPT ![asOp.run] = 0] ELSE asAnchor}
  /\ UNCHANGED <<asWitness, asLog, asLock, asShown, asForgot>>

\* The anchor that load moves to the end of a log, or the removal of an anchor, fails.
ASAnchorFails(p) ==
  /\ \/ ASAt(p, "remove anchor")
     \/ ASAt(p, "load") /\ ~ASRefuses(asOp.run) /\ asLog[asOp.run].at # "none" /\ asMem.cache[asOp.run] = "none"
  /\ ASFault /\ ASReturn(p) /\ UNCHANGED <<asFiles, asLock, asMem, asShown, asForgot, asCut>>

\* A system call of an append fails, before or after its effect, or a write part
\* way: the log is refused while it is cached (log.err).
ASAppendFails(p) ==
  /\ asPC[p] \in {"append", "write", "anchor"} /\ asOp.kind = "append" /\ ASFault /\ ASReturn(p)
  /\ \/ UNCHANGED <<asSeq, asLog, asAnchor, asCut>>
     \/ ASAt(p, "append") /\ asMem.next < ASMaxNext /\ asSeq' = [asSeq EXCEPT !.next = asMem.next + 1] /\ UNCHANGED <<asLog, asAnchor, asCut>>
     \/ ASAt(p, "write") /\ ASTorn /\ asCut' = TRUE /\ UNCHANGED <<asSeq, asAnchor>>
     \/ ASAt(p, "write") /\ asLog' = [asLog EXCEPT ![asOp.run].recs = Append(@, [run |-> asOp.run, ev |-> asOp.ev, ord |-> asMem.next])]
        /\ UNCHANGED <<asSeq, asAnchor, asCut>>
     \/ ASAt(p, "anchor") /\ asAnchor' = [asAnchor EXCEPT ![asOp.run] = Len(asLog[asOp.run].recs)] /\ UNCHANGED <<asSeq, asLog, asCut>>
  /\ asMem' = [asMem EXCEPT !.cache[asOp.run] = "err", !.replaced = IF asSeq'.next > asMem.next THEN @ \cup {"sequence"} ELSE @]
  /\ UNCHANGED <<asWitness, asRegistry, asLock, asShown, asForgot>>

ASNext ==
  \E p \in ASProcs :
    \/ ASWitness(p) \/ ASTakeLock(p) \/ ASWriteWitness(p) \/ OpenStore(p) \/ ASClose(p)
    \/ saveRegistry(p) \/ saveSequence(p) \/ ASCall(p) \/ ASLoad(p) \/ ASCreateLog(p) \/ ASWriteHeader(p) \/ ASFirstAnchor(p)
    \/ ASAnswer(p) \/ ASNoSequence(p) \/ ASAllocate(p) \/ ASWrite(p) \/ saveAnchor(p) \/ ASRead(p)
    \/ ASRemoveLog(p) \/ ASRemoveAnchor(p) \/ ASDies(p) \/ ASStaleSequence(p) \/ ASInitFails(p) \/ ASAnchorFails(p) \/ ASAppendFails(p)

ASSpec == ASInit /\ [][ASNext]_asVars

-----------------------------------------------------------------------------
ASTypeOK ==
  /\ asWitness \in {"none", "empty", "whole"} /\ asRegistry \subseteq ASRuns /\ asSeq.next \in 0..ASMaxNext /\ asSeq.runs \subseteq ASRuns
  /\ \A r \in ASRuns : asLog[r].at \in {"none", "part", "whole"} /\ asAnchor[r] \in 0..NoASAnchor
  /\ asLock \in ASProcs \cup {NoASProc} /\ asMem.next \in 0..ASMaxNext /\ asFaults \in 0..ASMaxFaults

ASWritten == UNION {ToSet(asLog[r].recs) : r \in ASRuns}

\* "allocated values are never reused": an ordinal names one event of one run for
\* ever, of the runs that were forgotten too, so a client that resumes after it
\* cannot be shown another run's events or miss its own.
ASOrdinalsAreOnce == \A x, y \in asShown \cup ASWritten : x.ord = y.ord => x = y

\* What a client was shown stays, once each and in the order of the ordinals,
\* until its run is forgotten, whatever failed, died or was dropped from the
\* cache meanwhile.
ASShownStays ==
  /\ \A x \in asShown : asLog[x.run].at = "none" \/ x \in ToSet(asLog[x.run].recs)
  /\ \A r \in ASRuns : \A i, j \in DOMAIN asLog[r].recs :
       i < j => asLog[r].recs[i].ord < asLog[r].recs[j].ord /\ asLog[r].recs[i].ev # asLog[r].recs[j].ev

\* The store recovers from every death and failure in the middle of an append,
\* torn records and interrupted initializations excepted: it opens again, and
\* every log that was begun loads.
ASRecovers ==
  ~asCut /\ asLock = NoASProc /\ (\A p \in ASProcs : ~ASAt(p, "made")) /\ asWitness # "none" =>
    /\ ASOpens
    /\ \A r \in asRegistry : asLog[r].at # "none" => ASLoads(r, asSeq.next)

\* "its log is never made again" (Forget), of a run whose log was ever begun.
ASForgottenStaysGone == \A r \in asForgot : asLog[r].at = "none"

\* The numbers, the logs and the forgetting of activity survive what the store
\* says it survives.
ASSound == ASTypeOK /\ ASOrdinalsAreOnce /\ ASShownStays /\ ASRecovers /\ ASForgottenStaysGone
=============================================================================
