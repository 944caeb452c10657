------------------------------ MODULE CIAttempts ------------------------------
(***************************************************************************)
(* internal/cilifecycle: an attempt to collect CI evidence, from its       *)
(* reservation to the bundle and the ledger event that make it the         *)
(* attempt's only answer.  CICollection models what is collected; here a   *)
(* bundle is a number, a new one for every collection.                     *)
(*                                                                         *)
(* A reservation is written in place: while it is a prefix of its bytes    *)
(* the attempt may not use evidence that lies there already, because it    *)
(* may have been put there before the attempt.                             *)
(***************************************************************************)
EXTENDS Naturals, FiniteSets

CONSTANTS CAAttempts, CARunOf(_), CAMaxPerRun, CAMaxGlobal, CAMaxCollections, CAMaxFaults

ASSUME CAAssumption == {CAMaxPerRun, CAMaxGlobal, CAMaxCollections, CAMaxFaults} \subseteq Nat

VARIABLES caRes,    \* the reservation file of each attempt
          caBundle, \* the published bundle, 0 for none
          caEvent,  \* the bundle the attempt's outcome event names, 0 for none
          caTorn,   \* the authoritative ledger ends in half a line
          caWork,   \* the call that works on the attempt
          caCapacity, \* who holds capacity.lock
          caAnswers, \* history: the bundles answered
          caForeign, \* history: the bundles that were there before the attempt
          caNext, caFaults

caVars == <<caRes, caBundle, caEvent, caTorn, caWork, caCapacity, caAnswers, caForeign, caNext, caFaults>>

CAIdle == [pc |-> "idle", created |-> FALSE, got |-> 0]
CAInit ==
  /\ caRes = [a \in CAAttempts |-> "none"] /\ caBundle = [a \in CAAttempts |-> 0] /\ caEvent = [a \in CAAttempts |-> 0]
  /\ caTorn = FALSE /\ caWork = [a \in CAAttempts |-> CAIdle] /\ caCapacity = "free"
  /\ caAnswers = [a \in CAAttempts |-> {}] /\ caForeign = {} /\ caNext = 1 /\ caFaults = 0

CAAt(a, pc) == caWork[a].pc = pc
CATo(a, pc) == caWork' = [caWork EXCEPT ![a].pc = pc]
\* lease.close: the locks go with it.
CAEnd(a) == caWork' = [caWork EXCEPT ![a] = CAIdle] /\ caCapacity' = (IF caCapacity = a THEN "free" ELSE caCapacity)
CAKeepEvidence == UNCHANGED <<caBundle, caEvent, caTorn>>
CAKeepRest == UNCHANGED <<caAnswers, caForeign, caNext, caFaults>>

-----------------------------------------------------------------------------
(* The reservation. *)

\* inventory: every reservation counts, and one that does not parse counts
\* against every run.
CAIncomplete == {a \in CAAttempts : caRes[a] \in {"prefix", "poisoned"}}
CAWhole(run) == {a \in CAAttempts : caRes[a] = "whole" /\ CARunOf(a) = run}
CATotal == {a \in CAAttempts : caRes[a] # "none"}

\* Mutant of CAFits: reservations that do not parse are not counted.
CAFitsParsed(a) == Cardinality(CAWhole(CARunOf(a))) + 1 <= CAMaxPerRun

CAFits(a) ==
  /\ Cardinality(CAWhole(CARunOf(a))) + Cardinality(CAIncomplete) + 1 <= CAMaxPerRun
  /\ Cardinality(CATotal) + 1 <= CAMaxGlobal

\* acquire: the attempt's locks and capacity.lock; a new or half-written
\* reservation keeps capacity.lock until it is repaired.
CAAcquire(a) ==
  /\ CAAt(a, "idle") /\ caCapacity = "free" /\ CAKeepEvidence /\ CAKeepRest
  /\ \/ /\ caRes[a] = "none" /\ CAFits(a) /\ caRes' = [caRes EXCEPT ![a] = "prefix"] /\ caCapacity' = a
        /\ caWork' = [caWork EXCEPT ![a] = [CAIdle EXCEPT !.pc = "inspect", !.created = TRUE]]
     \/ caRes[a] = "prefix" /\ caCapacity' = a /\ CATo(a, "inspect") /\ UNCHANGED caRes
     \/ caRes[a] = "whole" /\ CATo(a, "find") /\ UNCHANGED <<caRes, caCapacity>>

\* Mutant of CAInspect: what lies there already is not looked for.
CAInspectNothing(a) ==
  /\ CAAt(a, "inspect") /\ CATo(a, "repair") /\ CAKeepEvidence /\ CAKeepRest /\ UNCHANGED <<caRes, caCapacity>>

\* poison: the reservation becomes one byte that never parses.
CAPoison(a) == caRes' = [caRes EXCEPT ![a] = "poisoned"]

\* Collect with needsRepair: material that predates the reservation poisons it;
\* a ledger that does not scan leaves it half-written.
CAInspect(a) ==
  /\ CAAt(a, "inspect") /\ CAKeepEvidence /\ CAKeepRest
  /\ IF caTorn THEN CAEnd(a) /\ UNCHANGED caRes
     ELSE IF caEvent[a] # 0 \/ caBundle[a] # 0 THEN CAEnd(a) /\ CAPoison(a)
     ELSE CATo(a, "repair") /\ UNCHANGED <<caRes, caCapacity>>

\* repair: truncated, written whole and synced; then capacity.lock is let go.
CARepair(a) ==
  /\ CAAt(a, "repair") /\ caRes' = [caRes EXCEPT ![a] = "whole"] /\ caCapacity' = "free" /\ CATo(a, "find")
  /\ CAKeepEvidence /\ CAKeepRest

-----------------------------------------------------------------------------
(* The evidence. *)

\* readExisting, stabilize: the published bundle, synced before it is relied on.
CAExisting(a) == caBundle[a]

\* replay, or the bundle whose event was never written, or a new collection.
CAFind(a) ==
  /\ CAAt(a, "find") /\ CAKeepEvidence /\ CAKeepRest /\ UNCHANGED <<caRes, caCapacity>>
  /\ IF caTorn THEN CATo(a, "end")
     ELSE IF caEvent[a] # 0 THEN CATo(a, IF ~caWork[a].created /\ CAExisting(a) = caEvent[a] THEN "replay" ELSE "end")
     ELSE IF CAExisting(a) # 0 THEN /\ ~caWork[a].created
                                  /\ caWork' = [caWork EXCEPT ![a].pc = "complete", ![a].got = CAExisting(a)]
     ELSE CATo(a, "collect")
CAReplay(a) ==
  /\ CAAt(a, "replay") /\ caAnswers' = [caAnswers EXCEPT ![a] = @ \cup {caBundle[a]}] /\ CAEnd(a)
  /\ CAKeepEvidence /\ UNCHANGED <<caRes, caForeign, caNext, caFaults>>

\* collectRemote: a bundle, whatever its outcome; a broken clock makes none.
CACollect(a) ==
  /\ CAAt(a, "collect") /\ caNext <= CAMaxCollections /\ caNext' = caNext + 1
  /\ CAKeepEvidence /\ UNCHANGED <<caRes, caCapacity, caAnswers, caForeign, caFaults>>
  /\ caWork' = [caWork EXCEPT ![a].pc = "publish", ![a].got = caNext]
CANoBundle(a) == (CAAt(a, "collect") \/ CAAt(a, "end")) /\ CAEnd(a) /\ CAKeepEvidence /\ CAKeepRest /\ UNCHANGED caRes

\* publishOrVerify: linked into place under its name if nothing has it; a bundle
\* that is there must be the same.
CAPublish(a) ==
  /\ CAAt(a, "publish") /\ UNCHANGED <<caEvent, caTorn, caRes>> /\ CAKeepRest
  /\ IF caBundle[a] = 0 THEN caBundle' = [caBundle EXCEPT ![a] = caWork[a].got] /\ CATo(a, "complete") /\ UNCHANGED caCapacity
     ELSE UNCHANGED caBundle /\ CAEnd(a)

\* Mutant of CAComplete: the bundle is answered while its event cannot be written.
CACompleteAnyway(a) ==
  /\ CAAt(a, "complete") /\ UNCHANGED <<caBundle, caTorn, caRes, caForeign, caNext, caFaults>> /\ CAEnd(a)
  /\ caEvent' = [caEvent EXCEPT ![a] = IF caTorn THEN @ ELSE caWork[a].got]
  /\ caAnswers' = [caAnswers EXCEPT ![a] = @ \cup {caWork[a].got}]

\* completeEvent, materialLedger.record: under the ledger's lock the event is
\* found the same or appended, then read back.
CAComplete(a) ==
  /\ CAAt(a, "complete") /\ UNCHANGED <<caBundle, caTorn, caRes, caForeign, caNext, caFaults>> /\ CAEnd(a)
  /\ IF caTorn \/ caEvent[a] \notin {0, caWork[a].got} THEN UNCHANGED <<caEvent, caAnswers>>
     ELSE /\ caEvent' = [caEvent EXCEPT ![a] = caWork[a].got]
          /\ caAnswers' = [caAnswers EXCEPT ![a] = @ \cup {caWork[a].got}]
\* The append fails and is rolled back, or its result is not known.
CACompleteFails(a) ==
  /\ CAAt(a, "complete") /\ caFaults < CAMaxFaults /\ caFaults' = caFaults + 1 /\ CAEnd(a)
  /\ caEvent' = [caEvent EXCEPT ![a] = IF caTorn THEN @ ELSE caWork[a].got] \/ UNCHANGED caEvent
  /\ UNCHANGED <<caBundle, caTorn, caRes, caAnswers, caForeign, caNext>>

-----------------------------------------------------------------------------
\* The process of the attempt dies; half an event may be left in the ledger.
CADie(a) ==
  /\ ~CAAt(a, "idle") /\ caFaults < CAMaxFaults /\ caFaults' = caFaults + 1 /\ CAEnd(a)
  /\ caTorn' = caTorn \/ (CAAt(a, "complete") /\ caTorn' = TRUE)
  /\ UNCHANGED <<caRes, caBundle, caEvent, caAnswers, caForeign, caNext>>
\* Evidence under the attempt's name is there before the attempt is reserved.
CAPlant(a) ==
  /\ caRes[a] = "none" /\ CAAt(a, "idle") /\ caBundle[a] = 0 /\ caFaults < CAMaxFaults /\ caFaults' = caFaults + 1
  /\ caNext <= CAMaxCollections /\ caNext' = caNext + 1 /\ caForeign' = caForeign \cup {caNext}
  /\ caBundle' = [caBundle EXCEPT ![a] = caNext] /\ (caEvent' = [caEvent EXCEPT ![a] = caNext] \/ UNCHANGED caEvent)
  /\ UNCHANGED <<caRes, caTorn, caWork, caCapacity, caAnswers>>

CAStep(a) ==
  CAAcquire(a) \/ CAInspect(a) \/ CARepair(a) \/ CAFind(a) \/ CAReplay(a) \/ CACollect(a) \/ CANoBundle(a) \/ CAPublish(a) \/ CAComplete(a)
  \/ CACompleteFails(a) \/ CADie(a) \/ CAPlant(a)
CANext == \E a \in CAAttempts : CAStep(a)
CASpec == CAInit /\ [][CANext]_caVars

-----------------------------------------------------------------------------
CATypeOK ==
  /\ caRes \in [CAAttempts -> {"none", "prefix", "whole", "poisoned"}] /\ caTorn \in BOOLEAN
  /\ caBundle \in [CAAttempts -> 0..CAMaxCollections] /\ caEvent \in [CAAttempts -> 0..CAMaxCollections]
  /\ caCapacity \in CAAttempts \cup {"free"} /\ caNext \in 1..(CAMaxCollections + 1) /\ caFaults \in 0..CAMaxFaults

\* An attempt answers one bundle for ever, however its calls die and are made
\* again: the one that is published and that its ledger event names.  Evidence
\* that lay there before the attempt was reserved is never that answer.  The
\* reservations stay within the limits of the store (Collect, acquire, repair).
CASound ==
  /\ CATypeOK
  /\ \A a \in CAAttempts : \A b \in caAnswers[a] : b = caBundle[a] /\ b = caEvent[a] /\ b \notin caForeign
  /\ \A a \in CAAttempts : Cardinality(CAWhole(CARunOf(a))) <= CAMaxPerRun
  /\ Cardinality(CATotal) <= CAMaxGlobal
=============================================================================
