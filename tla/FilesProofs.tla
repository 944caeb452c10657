---------------------------- MODULE FilesProofs -----------------------------
(***************************************************************************)
(* Proofs about the files that the processes of a run share, each for every*)
(* number of processes, runs, events and faults: LedgerFile, PlanHandoff   *)
(* and ActivityStore; RunFilesSound of MCGates follows from the three.     *)
(*                                                                         *)
(* The ledger: each step holds the flock its file is named under, so what a*)
(* process found when it opened the file is what it appends to.            *)
(*                                                                         *)
(* The plan's copy: whoever recovers holds the lease, and what lies in the *)
(* directory is named by a record before it is made.                       *)
(*                                                                         *)
(* The store of activity: one process has the witness's flock; an ordinal  *)
(* is made durable before it is used, so the sequence is at least every    *)
(* ordinal written, and a process that could not save it gives none.       *)
(***************************************************************************)
EXTENDS MCGates, FiniteSetTheorems, SequenceTheorems, TLAPS

-----------------------------------------------------------------------------
(* LedgerFile: an acknowledged event stays. *)

\* Where a transition stands under which flock.
LFUnderLease == {"lease", "ledger", "scan", "sync", "confirm", "close"}

LFLock1(p) ==
  LET pc == lfProc[p].pc  ev == lfProc[p].ev IN
  /\ pc \in {"bind", "directory", "registry", "establish"} => lfHeld["parent"] = p
  /\ pc \in {"lockfile", "name"} => lfHeld["registry"] = p
  /\ pc \in {"scan", "sync", "confirm"} => lfHeld["ledger"] = p
  /\ pc \in LFUnderLease /\ ev \in LFMoves => lfHeld[LFRun(p)] = p
  /\ pc # "idle" => ev \in LFEvents
  /\ pc \notin {"idle", "ledger", "scan", "sync", "confirm", "close"} => ev \in LFMoves
LFLocksAt == \A p \in LFProcs : LFLock1(p)

\* What a process knows of the namespace where it is.
LFSpace1(p) ==
  LET pc == lfProc[p].pc IN
  /\ lfProc[p].bound => lfBind = "established"
  /\ pc = "directory" => lfBind # "none"
  /\ pc = "registry" => lfDir
  /\ pc = "establish" => lfRegistry \in {"whole", "torn"}
  /\ pc \in {"select", "lockfile", "name", "flock", "lease"} => lfBind = "established"
  /\ pc = "name" => lfLock[LFRun(p)] = "whole"
LFNamespaceAt == LFNamesWhatIsThere /\ \A p \in LFProcs : LFSpace1(p)

\* The event is one line, whole or glued after a tear to a torn one.
LFLineAt(e, i) == LFAt(e) = {i} /\ (lfFile[i].form = "whole" \/ (e \in LFPlain /\ lfFile[i].form = "glued" /\ lfTears > 0))
LFOnce(e) == \E i \in DOMAIN lfFile : LFLineAt(e, i)
LFDurable(e) == \E i \in DOMAIN lfFile : i <= lfSynced /\ LFLineAt(e, i)

\* What a process knows of its event in the file.
LFFile1(p) ==
  LET pc == lfProc[p].pc  ev == lfProc[p].ev IN
  /\ lfProc[p].ok => pc = "close" /\ LFDurable(ev)
  /\ ev \in LFPlain /\ pc \notin {"idle", "sync", "confirm", "close"} => LFAt(ev) = {}
  /\ ev \in LFPlain /\ pc \in {"sync", "confirm"} => LFOnce(ev)
  /\ pc = "confirm" => lfSynced = Len(lfFile)
LFFilesAt ==
  /\ lfTears = 0 => LFClean
  /\ \A e \in lfAcked : LFDurable(e)
  /\ \A p \in LFProcs : LFFile1(p)
  /\ \A p, q \in LFProcs : p # q /\ lfProc[p].ev \in LFPlain => lfProc[q].ev # lfProc[p].ev

LFNoTear == lfTears = 0 => lfRegistry \in {"none", "empty", "whole"} /\ \A r \in LFRuns : lfLock[r] # "part"

\* The inductive invariant of the ledger's file.
LFInv == LFTypeOK /\ LFLocksAt /\ LFNamespaceAt /\ LFFilesAt /\ LFNoTear

\* What a write makes of the file: every line but the last stays, the last is the
\* event's, and it takes the place of a line that had no newline.
LEMMA LFWrittenFacts ==
  ASSUME LFTypeOK, NEW e \in LFEvents, NEW form \in {"whole", "part"},
         lfFile' = LFWritten(e, form), lfSynced' = LFStillSynced
  PROVE  LET n == Len(lfFile)
             glue == n > 0 /\ lfFile[n].form = "part"
             m == IF glue THEN n ELSE n + 1
         IN  /\ lfFile' \in Seq([ev : LFEvents, form : LFForm]) /\ Len(lfFile') = m /\ m \in Nat /\ m > 0 /\ n \in Nat
             /\ \A i \in 1..(m - 1) : i \in 1..n /\ lfFile'[i] = lfFile[i]
             /\ lfFile'[m].ev = e /\ lfFile'[m].form = (IF glue /\ form = "whole" THEN "glued" ELSE form)
             /\ lfSynced' \in 0..(m - 1) /\ lfSynced' <= lfSynced
             /\ \A i \in 1..(m - 1) : i <= lfSynced => i <= lfSynced'
<1> DEFINE R == [ev : LFEvents, form : LFForm]
           n == Len(lfFile)
           glue == n > 0 /\ lfFile[n].form = "part"
           m == IF glue THEN n ELSE n + 1
<1>1. lfFile \in Seq(R) /\ n \in Nat /\ lfSynced \in 0..n BY DEF LFTypeOK
<1>2. CASE glue
  <2> DEFINE S == SubSeq(lfFile, 1, n - 1)
             x == [ev |-> e, form |-> IF form = "whole" THEN "glued" ELSE "part"]
  <2>1. lfFile' = Append(S, x) /\ m = n /\ n > 0 BY <1>2 DEF LFWritten
  <2>2. S \in Seq(R) /\ Len(S) = n - 1 /\ \A i \in 1..(n - 1) : S[i] = lfFile[i]
    <3> HIDE DEF R
    <3>1. n - 1 \in Int /\ 1 \in Int /\ \A i \in 1..(n - 1) : lfFile[i] \in R BY <1>1, <2>1
    <3>2. S \in Seq(R) /\ Len(S) = (IF 1 <= n - 1 THEN (n - 1) - 1 + 1 ELSE 0) BY <3>1, SubSeqProperties
    <3>3. \A i \in 1..((n - 1) - 1 + 1) : S[i] = lfFile[1 + i - 1] BY <3>1, SubSeqProperties
    <3> HIDE DEF S
    <3>6. n \in Nat /\ n > 0 BY <1>1, <2>1
    <3> HIDE DEF n
    <3>4. Len(S) = n - 1 BY <3>2, <3>6
    <3>5. \A i \in 1..(n - 1) : S[i] = lfFile[i]
      <4> TAKE i \in 1..(n - 1)
      <4>1. S[i] = lfFile[1 + i - 1] /\ 1 + i - 1 = i BY <3>6, <3>3
      <4> QED BY <4>1
    <3> QED BY <3>2, <3>4, <3>5
  <2>3. x \in R BY DEF LFForm
  <2> HIDE DEF S, x, R
  <2>4. lfFile' \in Seq(R) /\ Len(lfFile') = n BY <1>1, <2>1, <2>2, <2>3
  <2>5. \A i \in 1..(n - 1) : lfFile'[i] = lfFile[i] BY <1>1, <2>1, <2>2, <2>3
  <2>6. lfFile'[n] = x BY <1>1, <2>1, <2>2, <2>3
  <2>7. x.ev = e /\ x.form = (IF form = "whole" THEN "glued" ELSE form) BY DEF x
  <2>8. lfSynced' = (IF lfSynced = n THEN lfSynced - 1 ELSE lfSynced) BY <1>2, Zenon DEF LFStillSynced
  <2>9. \A i \in 1..(m - 1) : i \in 1..n /\ lfFile'[i] = lfFile[i]
    <3>1. 1..(m - 1) = 1..(n - 1) /\ \A i \in 1..(n - 1) : i \in 1..n BY <1>1, <2>1
    <3> QED BY <2>5, <3>1
  <2>10. lfSynced' \in 0..(m - 1) /\ lfSynced' <= lfSynced /\ \A i \in 1..(m - 1) : i <= lfSynced => i <= lfSynced'
    BY <1>1, <2>1, <2>8
  <2> QED BY <1>1, <1>2, <2>1, <2>4, <2>6, <2>7, <2>9, <2>10 DEF R
<1>3. CASE ~glue
  <2> DEFINE x == [ev |-> e, form |-> form]
  <2>1. lfFile' = Append(lfFile, x) /\ m = n + 1 BY <1>3 DEF LFWritten
  <2>2. x \in R BY DEF LFForm
  <2> HIDE DEF x, R
  <2>3. lfFile' \in Seq(R) /\ Len(lfFile') = n + 1 BY <1>1, <2>1, <2>2
  <2>4. \A i \in 1..n : lfFile'[i] = lfFile[i] BY <1>1, <2>1, <2>2
  <2>5. lfFile'[n + 1] = x BY <1>1, <2>1, <2>2
  <2>6. x.ev = e /\ x.form = form BY DEF x
  <2>7. lfSynced' = lfSynced BY <1>3 DEF LFStillSynced
  <2>8. \A i \in 1..(m - 1) : i \in 1..n /\ lfFile'[i] = lfFile[i] BY <1>1, <2>1, <2>4
  <2>9. lfSynced' \in 0..(m - 1) /\ lfSynced' <= lfSynced /\ \A i \in 1..(m - 1) : i <= lfSynced => i <= lfSynced'
    BY <1>1, <2>1, <2>7
  <2> QED BY <1>1, <1>3, <2>1, <2>3, <2>5, <2>6, <2>8, <2>9 DEF R
<1> QED BY <1>2, <1>3

\* The lines of an event other than the one written: they are the same, but for
\* a line without a newline, and so every durable event stays durable.
LEMMA LFWriteOthers ==
  ASSUME LFTypeOK, NEW e \in LFEvents, NEW form \in {"whole", "part"}, NEW x \in LFEvents, x # e,
         lfFile' = LFWritten(e, form), lfSynced' = LFStillSynced, lfTears' >= lfTears, lfTears' \in Nat
  PROVE  /\ LFAt(x) = {} => LFAt(x)' = {}
         /\ LFDurable(x) => LFDurable(x)'
<1> DEFINE n == Len(lfFile)
           glue == n > 0 /\ lfFile[n].form = "part"
           m == IF glue THEN n ELSE n + 1
<1>1. /\ Len(lfFile') = m /\ m \in Nat /\ m > 0 /\ n \in Nat
      /\ \A i \in 1..(m - 1) : i \in 1..n /\ lfFile'[i] = lfFile[i]
      /\ lfFile'[m].ev = e
      /\ \A i \in 1..(m - 1) : i <= lfSynced => i <= lfSynced'
      /\ lfFile' \in Seq([ev : LFEvents, form : LFForm])
  BY LFWrittenFacts
<1>2. lfTears \in Nat /\ lfFile \in Seq([ev : LFEvents, form : LFForm]) BY LFAssumption DEF LFTypeOK
<1>3. \A i \in LFAt(x)' : i \in 1..(m - 1) /\ i \in LFAt(x) BY <1>1 DEF LFAt
<1>4. \A i \in LFAt(x) : i \in 1..n /\ (i # n \/ ~glue => i \in LFAt(x)')
  <2> SUFFICES ASSUME NEW i \in LFAt(x), i # n \/ ~glue PROVE i \in LFAt(x)' BY DEF LFAt
  <2>1. i \in 1..n /\ lfFile[i].ev = x BY DEF LFAt
  <2>2. i \in 1..(m - 1) BY <1>1, <2>1
  <2> QED BY <1>1, <2>1, <2>2 DEF LFAt
<1>5. LFAt(x) = {} => LFAt(x)' = {} BY <1>3
<1>6. ASSUME LFDurable(x) PROVE LFDurable(x)'
  <2>1. PICK i \in DOMAIN lfFile : i <= lfSynced /\ LFLineAt(x, i) BY <1>6 DEF LFDurable
  <2>2. i \in 1..n /\ LFAt(x) = {i} /\ lfFile[i].form # "part" BY <1>2, <2>1 DEF LFLineAt, LFAt
  <2>3. i \in LFAt(x)' BY <1>4, <2>2
  <2>4. LFAt(x)' = {i} BY <1>3, <2>2, <2>3
  <2>5. i \in 1..(m - 1) /\ i \in DOMAIN lfFile' BY <1>1, <1>3, <2>3 DEF LFAt
  <2>6. lfFile'[i] = lfFile[i] /\ i <= lfSynced' BY <1>1, <2>1, <2>5
  <2>7. LFLineAt(x, i)' BY <1>2, <2>1, <2>4, <2>6 DEF LFLineAt
  <2> QED BY <2>5, <2>6, <2>7 DEF LFDurable
<1> QED BY <1>5, <1>6

LFOthers(p) == \A q \in LFProcs : q # p => lfProc'[q] = lfProc[q]
\* The record of one process is replaced.
LFNow(p, r) == lfProc' = [lfProc EXCEPT ![p] = r]
LFProcRec == [pc : LFPC, ev : LFEvents \cup {NoLFEvent}, bound : BOOLEAN, ok : BOOLEAN]

\* A record of a process is made of its four fields.
LEMMA LFRecMade ==
  ASSUME NEW pc \in LFPC, NEW ev \in LFEvents \cup {NoLFEvent}, NEW bound \in BOOLEAN, NEW ok \in BOOLEAN
  PROVE  [pc |-> pc, ev |-> ev, bound |-> bound, ok |-> ok] \in LFProcRec
BY DEF LFProcRec

\* What replacing the record of a process does.
LEMMA LFNowFacts ==
  ASSUME LFTypeOK, NEW p \in LFProcs, NEW r \in LFProcRec, LFNow(p, r)
  PROVE  lfProc'[p] = r /\ LFOthers(p) /\ lfProc' \in [LFProcs -> LFProcRec]
BY DEF LFTypeOK, LFNow, LFOthers, LFProcRec

\* A process goes on: only where it is changes.
LEMMA LFGoFacts ==
  ASSUME LFTypeOK, NEW p \in LFProcs, NEW pc \in LFPC, LFGo(p, pc)
  PROVE  /\ lfProc'[p].pc = pc /\ lfProc'[p].ev = lfProc[p].ev /\ lfProc'[p].bound = lfProc[p].bound /\ lfProc'[p].ok = lfProc[p].ok
         /\ LFOthers(p) /\ lfProc' \in [LFProcs -> LFProcRec]
<1>1. lfProc \in [LFProcs -> LFProcRec] BY DEF LFTypeOK, LFProcRec
<1>2. /\ lfProc'[p].pc = pc /\ lfProc'[p].ev = lfProc[p].ev /\ lfProc'[p].bound = lfProc[p].bound /\ lfProc'[p].ok = lfProc[p].ok
      /\ LFOthers(p)
  BY <1>1 DEF LFGo, LFProcRec, LFOthers
<1>3. lfProc'[p] \in LFProcRec BY <1>1 DEF LFGo, LFProcRec
<1>4. lfProc' = [q \in LFProcs |-> lfProc'[q]] BY <1>1 DEF LFGo
<1>5. lfProc' \in [LFProcs -> LFProcRec] BY <1>1, <1>2, <1>3, <1>4 DEF LFOthers
<1> QED BY <1>2, <1>5

\* A process leaves its call, its binding kept.
LEMMA LFIdleFacts ==
  ASSUME LFTypeOK, NEW p \in LFProcs,
         lfProc' = [lfProc EXCEPT ![p].pc = "idle", ![p].ev = NoLFEvent, ![p].ok = FALSE]
  PROVE  /\ lfProc'[p].pc = "idle" /\ lfProc'[p].ev = NoLFEvent /\ lfProc'[p].bound = lfProc[p].bound /\ ~lfProc'[p].ok
         /\ LFOthers(p) /\ lfProc' \in [LFProcs -> LFProcRec]
<1>1. lfProc \in [LFProcs -> LFProcRec] BY DEF LFTypeOK, LFProcRec
<1>2. /\ lfProc'[p].pc = "idle" /\ lfProc'[p].ev = NoLFEvent /\ lfProc'[p].bound = lfProc[p].bound
      /\ LFOthers(p)
  BY <1>1 DEF LFProcRec, LFOthers
<1>3. ~lfProc'[p].ok BY <1>1 DEF LFProcRec
<1>4. "idle" \in LFPC BY DEF LFPC
<1>5. lfProc'[p] \in LFProcRec BY <1>1, <1>4 DEF LFProcRec
<1>6. DOMAIN lfProc' = LFProcs /\ lfProc' = [q \in LFProcs |-> lfProc'[q]] BY <1>1
<1>7. lfProc' \in [LFProcs -> LFProcRec] BY <1>1, <1>2, <1>5, <1>6 DEF LFOthers
<1> QED BY <1>2, <1>3, <1>7

\* The flocks: what one process takes or lets go leaves the others'.
LFTheirs(p) == \A f \in LFFlocks : lfHeld[f] \notin {p, NoLFProc} => lfHeld'[f] = lfHeld[f]
LEMMA LFTakeFacts ==
  ASSUME LFTypeOK, NEW p \in LFProcs, NEW f \in LFFlocks, LFTake(p, f)
  PROVE  lfHeld'[f] = p /\ LFTheirs(p) /\ lfHeld' \in [LFFlocks -> LFProcs \cup {NoLFProc}]
         /\ \A g \in LFFlocks : g # f => lfHeld'[g] = lfHeld[g]
BY DEF LFTypeOK, LFTake, LFTheirs
LEMMA LFFreeFacts ==
  ASSUME LFTypeOK, NEW p \in LFProcs, NEW f \in LFFlocks, lfHeld[f] = p, LFFree(f)
  PROVE  LFTheirs(p) /\ lfHeld' \in [LFFlocks -> LFProcs \cup {NoLFProc}]
         /\ \A g \in LFFlocks : g # f => lfHeld'[g] = lfHeld[g]
BY DEF LFTypeOK, LFFree, LFTheirs
LEMMA LFDropFacts ==
  ASSUME LFTypeOK, NEW p \in LFProcs, lfHeld' = LFDrop(p)
  PROVE  LFTheirs(p) /\ lfHeld' \in [LFFlocks -> LFProcs \cup {NoLFProc}]
BY DEF LFTypeOK, LFDrop, LFTheirs

\* The flocks the others hold where they are, they still hold.
LEMMA LFFrameLocks ==
  ASSUME LFInv, NEW p \in LFProcs, LFOthers(p), UNCHANGED lfHeld \/ LFTheirs(p), LFLock1(p)'
  PROVE  LFLocksAt'
<1>1. ASSUME NEW q \in LFProcs, q # p PROVE LFLock1(q)'
  <2>1. LFLock1(q) /\ lfProc'[q] = lfProc[q] /\ q # NoLFProc BY <1>1, LFAssumption DEF LFInv, LFLocksAt, LFOthers
  <2>2. \A f \in LFFlocks : lfHeld[f] = q => lfHeld'[f] = q BY <1>1, <2>1 DEF LFTheirs
  <2>3. {"parent", "registry", "ledger"} \subseteq LFFlocks BY DEF LFFlocks
  <2>4. lfProc[q].ev \in LFMoves => LFRun(q) \in LFFlocks /\ LFRun(q)' = LFRun(q)
    BY <2>1, LFAssumption DEF LFRun, LFFlocks
  <2> QED BY <2>1, <2>2, <2>3, <2>4 DEF LFLock1
<1> QED BY <1>1 DEF LFLocksAt

\* The namespace only grows: what the others know of it stays true.
LFGrows ==
  /\ lfBind # "none" => lfBind' # "none"
  /\ lfBind = "established" => lfBind' = "established"
  /\ lfDir => lfDir'
  /\ lfRegistry \in {"whole", "torn"} => lfRegistry' \in {"whole", "torn"}
  /\ \A r \in LFRuns : lfLock[r] = "whole" => lfLock'[r] = "whole"
LEMMA LFFrameSpace ==
  ASSUME LFInv, NEW p \in LFProcs, LFOthers(p), LFGrows, LFNamesWhatIsThere', LFSpace1(p)'
  PROVE  LFNamespaceAt'
<1>1. ASSUME NEW q \in LFProcs, q # p PROVE LFSpace1(q)'
  <2>1. LFSpace1(q) /\ LFLock1(q) /\ lfProc'[q] = lfProc[q] BY <1>1 DEF LFInv, LFNamespaceAt, LFLocksAt, LFOthers
  <2>2. lfProc[q].pc = "name" => LFRun(q) \in LFRuns /\ LFRun(q)' = LFRun(q)
    BY <2>1, LFAssumption DEF LFLock1, LFRun
  <2> QED BY <2>1, <2>2 DEF LFSpace1, LFGrows
<1> QED BY <1>1 DEF LFNamespaceAt
\* And where nothing of it changes.
LEMMA LFSameSpace ==
  ASSUME LFInv, NEW p \in LFProcs, LFOthers(p), UNCHANGED <<lfBind, lfDir, lfRegistry, lfNamed, lfLock>>, LFSpace1(p)'
  PROVE  LFNamespaceAt'
<1>1. LFGrows BY DEF LFGrows
<1>2. LFNamesWhatIsThere' BY DEF LFInv, LFNamespaceAt, LFNamesWhatIsThere
<1> QED BY <1>1, <1>2, LFFrameSpace

\* Two processes do not append the same plain event.
LFPlainOnce(e, p) == e \in LFPlain => \A q \in LFProcs : q # p => lfProc[q].ev # e
\* The file and its events, where the file does not change.
LEMMA LFFrameFile ==
  ASSUME LFInv, NEW p \in LFProcs, LFOthers(p), UNCHANGED lfFile, lfSynced' \in {lfSynced, Len(lfFile)}, lfTears' \in Nat, lfTears' >= lfTears,
         \A e \in lfAcked' : e \in lfAcked \/ LFDurable(e),
         LFFile1(p)', LFPlainOnce(lfProc'[p].ev, p)
  PROVE  LFFilesAt'
<1>1. lfTears \in Nat BY LFAssumption DEF LFInv, LFTypeOK
<1>0. lfSynced \in Nat /\ lfSynced' \in Nat /\ lfSynced' >= lfSynced /\ DOMAIN lfFile \subseteq Nat BY DEF LFInv, LFTypeOK
<1>2. \A e : LFAt(e)' = LFAt(e) BY DEF LFAt
<1>3. \A e, i : LFLineAt(e, i) => LFLineAt(e, i)' BY <1>1, <1>2 DEF LFLineAt
<1>4. \A e : (LFOnce(e) => LFOnce(e)') /\ (LFDurable(e) => LFDurable(e)') BY <1>0, <1>3 DEF LFOnce, LFDurable
<1>5. lfTears' = 0 => LFClean' BY <1>1 DEF LFInv, LFFilesAt, LFClean
<1>6. \A e \in lfAcked' : LFDurable(e)' BY <1>4 DEF LFInv, LFFilesAt
<1>7. ASSUME NEW q \in LFProcs, q # p PROVE LFFile1(q)'
  <2>1. LFFile1(q) /\ lfProc'[q] = lfProc[q] BY <1>7 DEF LFInv, LFFilesAt, LFOthers
  <2>2. LFAt(lfProc[q].ev)' = LFAt(lfProc[q].ev) BY <2>1 DEF LFAt
  <2>3. LFDurable(lfProc[q].ev) => LFDurable(lfProc[q].ev)' BY <1>0, <1>1, <2>1, <2>2 DEF LFDurable, LFLineAt
  <2>4. LFOnce(lfProc[q].ev) => LFOnce(lfProc[q].ev)' BY <1>1, <2>1, <2>2 DEF LFOnce, LFLineAt
  <2> QED BY <2>1, <2>2, <2>3, <2>4 DEF LFFile1
<1>8. \A q \in LFProcs : LFFile1(q)' BY <1>7
<1>9. \A a, b \in LFProcs : a # b /\ lfProc'[a].ev \in LFPlain => lfProc'[b].ev # lfProc'[a].ev
  BY DEF LFInv, LFFilesAt, LFOthers, LFPlainOnce
<1> QED BY <1>5, <1>6, <1>8, <1>9 DEF LFFilesAt

\* What the invariant says of one process.
LEMMA LFProcFacts ==
  ASSUME LFInv, NEW p \in LFProcs
  PROVE  /\ LFTypeOK /\ LFLock1(p) /\ LFSpace1(p) /\ LFFile1(p) /\ LFPlainOnce(lfProc[p].ev, p)
         /\ lfProc[p] \in LFProcRec /\ lfTears \in Nat /\ p # NoLFProc /\ LFNamesWhatIsThere
<1>1. lfProc[p] \in LFProcRec BY DEF LFInv, LFTypeOK, LFProcRec
<1>2. LFPlainOnce(lfProc[p].ev, p) BY DEF LFInv, LFFilesAt, LFPlainOnce
<1>3. LFTypeOK /\ LFLock1(p) /\ LFSpace1(p) /\ LFFile1(p) /\ LFNamesWhatIsThere
  BY DEF LFInv, LFLocksAt, LFNamespaceAt, LFFilesAt
<1>4. lfTears \in Nat BY LFAssumption DEF LFInv, LFTypeOK
<1> QED BY <1>1, <1>2, <1>3, <1>4, LFAssumption

\* A process that has left its call knows nothing to keep.
LEMMA LFIdleOK ==
  ASSUME NEW p \in LFProcs, lfProc'[p].pc = "idle", lfProc'[p].ev = NoLFEvent, ~lfProc'[p].ok,
         lfProc'[p].bound => lfBind' = "established"
  PROVE  LFLock1(p)' /\ LFSpace1(p)' /\ LFFile1(p)' /\ LFPlainOnce(lfProc'[p].ev, p)
<1>1. NoLFEvent \notin LFPlain BY LFAssumption
<1>2. LFLock1(p)' BY DEF LFLock1, LFUnderLease
<1>3. LFSpace1(p)' BY DEF LFSpace1
<1>4. LFFile1(p)' BY <1>1 DEF LFFile1
<1> QED BY <1>1, <1>2, <1>3, <1>4 DEF LFPlainOnce

\* The rest of the state is unchanged, or only the answers grow by a durable one.
LEMMA LFLeaves ==
  ASSUME LFInv, NEW p \in LFProcs, UNCHANGED lfDisk, lfTears' = lfTears, lfHeld' = LFDrop(p),
         lfProc' = [lfProc EXCEPT ![p].pc = "idle", ![p].ev = NoLFEvent, ![p].ok = FALSE],
         lfAcked' \subseteq LFEvents, \A e \in lfAcked' : e \in lfAcked \/ LFDurable(e)
  PROVE  LFInv'
<1>1. UNCHANGED <<lfFile, lfSynced, lfBind, lfDir, lfRegistry, lfNamed, lfLock>> BY DEF lfDisk
<1>2. /\ lfProc'[p].pc = "idle" /\ lfProc'[p].ev = NoLFEvent /\ lfProc'[p].bound = lfProc[p].bound /\ ~lfProc'[p].ok
      /\ LFOthers(p) /\ lfProc' \in [LFProcs -> LFProcRec]
  BY LFProcFacts, LFIdleFacts
<1>3. LFTheirs(p) /\ lfHeld' \in [LFFlocks -> LFProcs \cup {NoLFProc}] BY LFProcFacts, LFDropFacts
<1>4. lfProc'[p].bound => lfBind' = "established" BY <1>1, <1>2, LFProcFacts DEF LFSpace1
<1>5. LFLock1(p)' /\ LFSpace1(p)' /\ LFFile1(p)' /\ LFPlainOnce(lfProc'[p].ev, p) BY <1>2, <1>4, LFIdleOK
<1>6. LFTypeOK' BY <1>1, <1>2, <1>3 DEF LFInv, LFTypeOK, LFProcRec
<1>7. LFLocksAt' BY <1>2, <1>3, <1>5, LFFrameLocks
<1>8. LFNamespaceAt' BY <1>1, <1>2, <1>5, LFSameSpace
<1>9. LFFilesAt' BY <1>1, <1>2, <1>5, LFProcFacts, LFFrameFile
<1>10. LFNoTear' BY <1>1 DEF LFInv, LFNoTear
<1> QED BY <1>6, <1>7, <1>8, <1>9, <1>10 DEF LFInv

\* An error return.
LEMMA LFRefuseInv == ASSUME LFInv, NEW p \in LFProcs, LFRefuse(p) PROVE LFInv'
<1>1. lfAcked' = lfAcked /\ lfAcked \subseteq LFEvents BY DEF LFRefuse, LFInv, LFTypeOK
<1> QED BY <1>1, LFLeaves DEF LFRefuse

\* A step on the way to the lease: the file, its events and the others are as they
\* were, and what the process knows of the namespace is said by the action.
LEMMA LFOnTheWay ==
  ASSUME LFInv, NEW p \in LFProcs, NEW pc \in LFPC, LFOthers(p), lfProc' \in [LFProcs -> LFProcRec],
         lfProc'[p].pc = pc, lfProc'[p].ev = lfProc[p].ev, lfProc'[p].ok = lfProc[p].ok,
         UNCHANGED <<lfFile, lfSynced, lfAcked, lfTears>>,
         lfProc[p].pc \notin {"idle", "sync", "confirm", "close"}, pc \notin {"idle", "sync", "confirm", "close"},
         UNCHANGED lfHeld \/ LFTheirs(p), lfHeld' \in [LFFlocks -> LFProcs \cup {NoLFProc}], LFLock1(p)',
         LFNamespaceAt', lfBind' \in {"none", "initializing", "established"}, lfDir' \in BOOLEAN,
         lfRegistry' \in {"none", "empty", "part", "whole", "torn"}, lfNamed' \subseteq LFRuns,
         lfLock' \in [LFRuns -> {"none", "part", "whole"}], LFNoTear'
  PROVE  LFInv'
<1>1. LFTypeOK' BY DEF LFInv, LFTypeOK, LFProcRec
<1>2. LFLocksAt' BY LFFrameLocks
<1>3. LFAt(lfProc[p].ev)' = LFAt(lfProc[p].ev) BY DEF LFAt
<1>4. LFFile1(p)' BY <1>3, LFProcFacts DEF LFFile1
<1>5. LFPlainOnce(lfProc'[p].ev, p) BY LFProcFacts DEF LFPlainOnce
<1>6. LFFilesAt' BY <1>4, <1>5, LFProcFacts, LFFrameFile
<1> QED BY <1>1, <1>2, <1>6 DEF LFInv

\* A call begins.
LEMMA LFCallInv == ASSUME LFInv, NEW p \in LFProcs, NEW e \in LFEvents, appendOrVerify(p, e) PROVE LFInv'
<1> DEFINE pc == IF e \in LFMoves THEN "namespace" ELSE "ledger"
           r == [pc |-> pc, ev |-> e, bound |-> lfProc[p].bound, ok |-> lfProc[p].ok]
<1>1. lfProc[p].pc = "idle" /\ lfProc' = [lfProc EXCEPT ![p].pc = pc, ![p].ev = e] BY DEF appendOrVerify
<1>2. UNCHANGED <<lfFile, lfSynced, lfBind, lfDir, lfRegistry, lfNamed, lfLock, lfAcked, lfHeld, lfTears>>
  BY DEF appendOrVerify, lfDisk
<1>3. lfProc[p] \in LFProcRec /\ lfProc \in [LFProcs -> LFProcRec] BY LFProcFacts DEF LFTypeOK, LFProcRec
<1>4. pc \in LFPC BY DEF LFPC
<1>5. /\ lfProc'[p].pc = pc /\ lfProc'[p].ev = e /\ lfProc'[p].bound = lfProc[p].bound /\ lfProc'[p].ok = lfProc[p].ok
      /\ LFOthers(p)
  BY <1>1, <1>3 DEF LFProcRec, LFOthers
<1>6. lfProc'[p] \in LFProcRec BY <1>1, <1>3, <1>4 DEF LFProcRec
<1>7. lfProc' \in [LFProcs -> LFProcRec]
  <2>1. lfProc' = [q \in LFProcs |-> lfProc'[q]] BY <1>1, <1>3
  <2> QED BY <1>3, <1>5, <1>6, <2>1 DEF LFOthers
<1>8. ~lfProc[p].ok BY <1>1, LFProcFacts DEF LFFile1
<1>9. LFTypeOK' BY <1>2, <1>7 DEF LFInv, LFTypeOK, LFProcRec
<1>10. LFLock1(p)' BY <1>5 DEF LFLock1, LFUnderLease
<1>11. LFLocksAt' BY <1>2, <1>5, <1>10, LFFrameLocks
<1>12. LFSpace1(p)' BY <1>2, <1>5, LFProcFacts DEF LFSpace1
<1>13. LFNamespaceAt' BY <1>2, <1>5, <1>12, LFSameSpace
<1>14. e \in LFPlain => LFAt(e) = {} BY DEF appendOrVerify, LFAt
<1>15. LFPlainOnce(e, p) BY DEF appendOrVerify, LFPlainOnce
<1>16. LFFile1(p)'
  <2>1. lfProc'[p].ev \in LFPlain => LFAt(lfProc[p].ev)' = {} BY <1>2, <1>5, <1>14 DEF LFAt
  <2> QED BY <1>5, <1>8, <2>1 DEF LFFile1
<1>17. LFFilesAt' BY <1>2, <1>5, <1>15, <1>16, LFProcFacts, LFFrameFile
<1>18. LFNoTear' BY <1>2 DEF LFInv, LFNoTear
<1> QED BY <1>9, <1>11, <1>13, <1>17, <1>18 DEF LFInv

\* The namespace is verified, or its parent is locked.
LEMMA LFEnsureInv == ASSUME LFInv, NEW p \in LFProcs, ensureNamespace(p) PROVE LFInv'
<1>1. CASE LFBusy(p, "parent") BY <1>1, LFRefuseInv DEF LFBusy
<1>2. CASE ~LFBusy(p, "parent")
  <2>1. PICK pc \in {"select", "bind"} : /\ LFGo(p, pc) /\ (pc = "select" => lfProc[p].bound /\ UNCHANGED lfHeld)
                                        /\ (pc = "bind" => LFTake(p, "parent"))
    BY <1>2 DEF ensureNamespace
  <2>2. lfProc[p].pc = "namespace" /\ UNCHANGED <<lfFile, lfSynced, lfBind, lfDir, lfRegistry, lfNamed, lfLock, lfAcked, lfTears>>
    BY DEF ensureNamespace, lfDisk
  <2>3. pc \in LFPC BY DEF LFPC
  <2>4. /\ lfProc'[p].pc = pc /\ lfProc'[p].ev = lfProc[p].ev /\ lfProc'[p].bound = lfProc[p].bound /\ lfProc'[p].ok = lfProc[p].ok
        /\ LFOthers(p) /\ lfProc' \in [LFProcs -> LFProcRec]
    BY <2>1, <2>3, LFProcFacts, LFGoFacts
  <2>5. "parent" \in LFFlocks BY DEF LFFlocks
  <2>6. /\ UNCHANGED lfHeld \/ LFTheirs(p)
        /\ lfHeld' \in [LFFlocks -> LFProcs \cup {NoLFProc}]
        /\ pc = "bind" => lfHeld'["parent"] = p
    BY <2>1, <2>5, LFProcFacts, LFTakeFacts DEF LFTypeOK
  <2>7. LFLock1(p)' BY <2>1, <2>2, <2>4, <2>6, LFProcFacts DEF LFLock1, LFUnderLease
  <2>8. LFSpace1(p)' BY <2>1, <2>2, <2>4, LFProcFacts DEF LFSpace1
  <2>9. LFNamespaceAt' BY <2>2, <2>4, <2>8, LFSameSpace
  <2>10. LFNoTear' BY <2>2 DEF LFInv, LFNoTear
  <2> QED BY <2>1, <2>2, <2>3, <2>4, <2>6, <2>7, <2>9, <2>10, LFOnTheWay DEF LFInv, LFTypeOK
<1> QED BY <1>1, <1>2

\* A step under the parent's flock that goes on to the next: what it changes of the
\* namespace it only adds.
LEMMA LFUnderParent ==
  ASSUME LFInv, NEW p \in LFProcs, NEW pc \in {"directory", "registry", "establish"}, LFGo(p, pc),
         lfProc[p].pc \in {"bind", "directory", "registry"},
         UNCHANGED <<lfFile, lfSynced, lfNamed, lfLock, lfAcked, lfHeld, lfTears>>,
         LFGrows, LFNamesWhatIsThere', lfBind' \in {"none", "initializing", "established"}, lfDir' \in BOOLEAN,
         lfRegistry' \in {"none", "empty", "part", "whole", "torn"},
         lfRegistry' \in {lfRegistry, "whole"},
         pc = "directory" => lfBind' # "none", pc = "registry" => lfDir', pc = "establish" => lfRegistry' \in {"whole", "torn"}
  PROVE  LFInv'
<1>1. pc \in LFPC BY DEF LFPC
<1>2. /\ lfProc'[p].pc = pc /\ lfProc'[p].ev = lfProc[p].ev /\ lfProc'[p].bound = lfProc[p].bound /\ lfProc'[p].ok = lfProc[p].ok
      /\ LFOthers(p) /\ lfProc' \in [LFProcs -> LFProcRec]
  BY <1>1, LFProcFacts, LFGoFacts
<1>3. LFLock1(p)' BY <1>2, LFProcFacts DEF LFLock1, LFUnderLease
<1>4. LFSpace1(p)' BY <1>2, LFProcFacts DEF LFSpace1, LFGrows
<1>5. LFNamespaceAt' BY <1>2, <1>4, LFFrameSpace
<1>6. LFNoTear' BY DEF LFInv, LFNoTear
<1>7. lfHeld' \in [LFFlocks -> LFProcs \cup {NoLFProc}] /\ lfNamed' \subseteq LFRuns /\ lfLock' \in [LFRuns -> {"none", "part", "whole"}]
  BY LFProcFacts DEF LFTypeOK
<1> QED BY <1>1, <1>2, <1>3, <1>5, <1>6, <1>7, LFOnTheWay

\* The parent's attribute.
LEMMA LFBindInv == ASSUME LFInv, NEW p \in LFProcs, bindParent(p) PROVE LFInv'
<1>1. CASE LFRefuse(p) BY <1>1, LFRefuseInv
<1>2. CASE /\ lfBind = "none" => ~lfDir
           /\ lfBind' = IF lfBind = "none" THEN "initializing" ELSE lfBind
           /\ LFGo(p, "directory")
           /\ UNCHANGED <<lfFile, lfSynced, lfDir, lfRegistry, lfNamed, lfLock, lfAcked, lfHeld, lfTears>>
  <2>1. lfProc[p].pc = "bind" BY DEF bindParent
  <2>2. LFTypeOK /\ LFNamesWhatIsThere BY LFProcFacts
  <2>3. LFGrows BY <1>2, <2>2 DEF LFGrows
  <2>4. LFNamesWhatIsThere' BY <1>2, <2>2 DEF LFNamesWhatIsThere
  <2>5. lfBind' \in {"none", "initializing", "established"} /\ lfDir' \in BOOLEAN /\ lfRegistry' \in {"none", "empty", "part", "whole", "torn"}
    BY <1>2, <2>2 DEF LFTypeOK
  <2> QED BY <1>2, <2>1, <2>3, <2>4, <2>5, LFUnderParent
<1> QED BY <1>1, <1>2 DEF bindParent

\* The directory of the locks.
LEMMA LFDirectoryInv == ASSUME LFInv, NEW p \in LFProcs, openRunTransitionDirectory(p) PROVE LFInv'
<1>1. CASE LFRefuse(p) BY <1>1, LFRefuseInv
<1>2. CASE /\ lfDir \/ lfBind = "initializing"
           /\ lfDir' = TRUE
           /\ LFGo(p, "registry")
           /\ UNCHANGED <<lfFile, lfSynced, lfBind, lfRegistry, lfNamed, lfLock, lfAcked, lfHeld, lfTears>>
  <2>1. lfProc[p].pc = "directory" BY DEF openRunTransitionDirectory
  <2>2. LFTypeOK /\ LFNamesWhatIsThere /\ lfBind # "none" BY <2>1, LFProcFacts DEF LFSpace1
  <2>3. LFGrows BY <1>2, <2>2 DEF LFGrows
  <2>4. LFNamesWhatIsThere' BY <1>2, <2>2 DEF LFNamesWhatIsThere
  <2>5. lfBind' \in {"none", "initializing", "established"} /\ lfRegistry' \in {"none", "empty", "part", "whole", "torn"}
    BY <1>2, <2>2 DEF LFTypeOK
  <2>6. lfDir' \in BOOLEAN BY <1>2
  <2> QED BY <1>2, <2>1, <2>3, <2>4, <2>5, <2>6, LFUnderParent
<1> QED BY <1>1, <1>2 DEF openRunTransitionDirectory

\* The registry and its head.
LEMMA LFRegistryInv == ASSUME LFInv, NEW p \in LFProcs, openRunTransitionRegistry(p) PROVE LFInv'
<1>1. CASE LFRefuse(p) BY <1>1, LFRefuseInv
<1>2. CASE /\ lfRegistry = "whole" \/ (lfRegistry \in {"none", "empty"} /\ lfBind = "initializing")
           /\ lfRegistry' = "whole"
           /\ LFGo(p, "establish")
           /\ UNCHANGED <<lfFile, lfSynced, lfBind, lfDir, lfNamed, lfLock, lfAcked, lfHeld, lfTears>>
  <2>1. lfProc[p].pc = "registry" BY DEF openRunTransitionRegistry
  <2>2. LFTypeOK /\ LFNamesWhatIsThere /\ lfDir BY <2>1, LFProcFacts DEF LFSpace1
  <2>3. LFGrows BY <1>2, <2>2 DEF LFGrows
  <2>4. LFNamesWhatIsThere' BY <1>2, <2>2 DEF LFNamesWhatIsThere
  <2>5. lfBind' \in {"none", "initializing", "established"} /\ lfDir' \in BOOLEAN BY <1>2, <2>2 DEF LFTypeOK
  <2> QED BY <1>2, <2>1, <2>3, <2>4, <2>5, LFUnderParent
<1> QED BY <1>1, <1>2 DEF openRunTransitionRegistry

\* The second publication: the namespace is established and the parent unlocked.
LEMMA LFEstablishInv == ASSUME LFInv, NEW p \in LFProcs, establishNamespace(p) PROVE LFInv'
<1>1. /\ lfProc[p].pc = "establish" /\ lfBind' = "established" /\ LFFree("parent")
      /\ lfProc' = [lfProc EXCEPT ![p].pc = "select", ![p].bound = TRUE]
      /\ UNCHANGED <<lfFile, lfSynced, lfDir, lfRegistry, lfNamed, lfLock, lfAcked, lfTears>>
  BY DEF establishNamespace
<1>2. lfProc \in [LFProcs -> LFProcRec] BY LFProcFacts DEF LFTypeOK, LFProcRec
<1>3. lfProc'[p].pc = "select" /\ lfProc'[p].ev = lfProc[p].ev /\ lfProc'[p].ok = lfProc[p].ok /\ LFOthers(p)
  BY <1>1, <1>2 DEF LFProcRec, LFOthers
<1>4. "select" \in LFPC BY DEF LFPC
<1>5. lfProc'[p] \in LFProcRec BY <1>1, <1>2, <1>4 DEF LFProcRec
<1>6. lfProc' = [q \in LFProcs |-> lfProc'[q]] BY <1>1, <1>2
<1>7. lfProc' \in [LFProcs -> LFProcRec] BY <1>2, <1>3, <1>5, <1>6 DEF LFOthers
<1>8. lfHeld["parent"] = p /\ "parent" \in LFFlocks BY <1>1, LFProcFacts DEF LFLock1, LFFlocks
<1>9. LFTheirs(p) /\ lfHeld' \in [LFFlocks -> LFProcs \cup {NoLFProc}] BY <1>1, <1>8, LFProcFacts, LFFreeFacts
<1>10. LFLock1(p)' BY <1>1, <1>3, LFProcFacts DEF LFLock1, LFUnderLease
<1>11. LFSpace1(p)' BY <1>1, <1>3 DEF LFSpace1
<1>12. LFGrows BY <1>1 DEF LFGrows
<1>13. LFNamesWhatIsThere'
  <2>1. lfRegistry \in {"whole", "torn"} BY <1>1, LFProcFacts DEF LFSpace1
  <2> QED BY <1>1, <2>1, LFProcFacts DEF LFNamesWhatIsThere
<1>14. LFNamespaceAt' BY <1>3, <1>11, <1>12, <1>13, LFFrameSpace
<1>15. LFNoTear' BY <1>1 DEF LFInv, LFNoTear
<1>16. LFTypeOK BY LFProcFacts
<1>17. /\ lfBind' \in {"none", "initializing", "established"} /\ lfDir' \in BOOLEAN
       /\ lfRegistry' \in {"none", "empty", "part", "whole", "torn"} /\ lfNamed' \subseteq LFRuns
       /\ lfLock' \in [LFRuns -> {"none", "part", "whole"}]
  BY <1>1, <1>16 DEF LFTypeOK
<1> QED BY <1>1, <1>3, <1>4, <1>7, <1>9, <1>10, <1>14, <1>15, <1>17, LFOnTheWay

\* A step to the lease that leaves the namespace as it is.
LEMMA LFGoesOn ==
  ASSUME LFInv, NEW p \in LFProcs, NEW pc \in {"lockfile", "lease", "ledger"}, LFGo(p, pc),
         lfProc[p].pc \in {"select", "flock", "lease"},
         UNCHANGED <<lfFile, lfSynced, lfBind, lfDir, lfRegistry, lfNamed, lfLock, lfAcked, lfTears>>,
         UNCHANGED lfHeld \/ LFTheirs(p), lfHeld' \in [LFFlocks -> LFProcs \cup {NoLFProc}],
         pc = "lockfile" => lfHeld'["registry"] = p,
         pc \in {"lease", "ledger"} => lfHeld'[LFRun(p)] = p
  PROVE  LFInv'
<1>1. pc \in LFPC BY DEF LFPC
<1>2. /\ lfProc'[p].pc = pc /\ lfProc'[p].ev = lfProc[p].ev /\ lfProc'[p].bound = lfProc[p].bound /\ lfProc'[p].ok = lfProc[p].ok
      /\ LFOthers(p) /\ lfProc' \in [LFProcs -> LFProcRec]
  BY <1>1, LFProcFacts, LFGoFacts
<1>3. LFRun(p)' = LFRun(p) BY <1>2 DEF LFRun
<1>4. LFLock1(p)' BY <1>2, <1>3, LFProcFacts DEF LFLock1, LFUnderLease
<1>5. LFSpace1(p)' BY <1>2, LFProcFacts DEF LFSpace1
<1>6. LFNamespaceAt' BY <1>2, <1>5, LFSameSpace
<1>7. LFNoTear' BY DEF LFInv, LFNoTear
<1>8. LFTypeOK BY LFProcFacts
<1>9. /\ lfBind' \in {"none", "initializing", "established"} /\ lfDir' \in BOOLEAN
      /\ lfRegistry' \in {"none", "empty", "part", "whole", "torn"} /\ lfNamed' \subseteq LFRuns
      /\ lfLock' \in [LFRuns -> {"none", "part", "whole"}]
  BY <1>8 DEF LFTypeOK
<1> QED BY <1>1, <1>2, <1>4, <1>6, <1>7, <1>9, LFOnTheWay

\* The registry is locked and read.
LEMMA LFSelectInv == ASSUME LFInv, NEW p \in LFProcs, acquireRunTransitionLease(p) PROVE LFInv'
<1>1. CASE LFRefuse(p) BY <1>1, LFRefuseInv
<1>2. CASE /\ lfRegistry # "torn" /\ LFTake(p, "registry") /\ LFGo(p, "lockfile")
           /\ UNCHANGED <<lfDisk, lfAcked, lfTears>>
  <2>1. lfProc[p].pc = "select" BY DEF acquireRunTransitionLease
  <2>2. lfHeld'["registry"] = p /\ LFTheirs(p) /\ lfHeld' \in [LFFlocks -> LFProcs \cup {NoLFProc}]
    BY <1>2, LFProcFacts, LFTakeFacts DEF LFFlocks
  <2> QED BY <1>2, <2>1, <2>2, LFGoesOn DEF lfDisk
<1> QED BY <1>1, <1>2 DEF acquireRunTransitionLease, LFBusy

\* The flock of the run.
LEMMA LFAcquireInv == ASSUME LFInv, NEW p \in LFProcs, AcquireRunTransition(p) PROVE LFInv'
<1>1. CASE LFRefuse(p) BY <1>1, LFRefuseInv
<1>2. CASE LFTake(p, LFRun(p)) /\ LFGo(p, "lease") /\ UNCHANGED <<lfDisk, lfAcked, lfTears>>
  <2>1. lfProc[p].pc = "flock" BY DEF AcquireRunTransition
  <2>2. LFRun(p) \in LFFlocks BY <2>1, LFProcFacts, LFAssumption DEF LFLock1, LFRun, LFFlocks
  <2>3. lfHeld'[LFRun(p)] = p /\ LFTheirs(p) /\ lfHeld' \in [LFFlocks -> LFProcs \cup {NoLFProc}]
    BY <1>2, <2>2, LFProcFacts, LFTakeFacts
  <2> QED BY <1>2, <2>1, <2>3, LFGoesOn DEF lfDisk
<1> QED BY <1>1, <1>2 DEF AcquireRunTransition, LFBusy

\* The lease is verified.
LEMMA LFVerifyInv == ASSUME LFInv, NEW p \in LFProcs, verifyRunTransitionLease(p) PROVE LFInv'
<1>1. CASE LFRefuse(p) BY <1>1, LFRefuseInv
<1>2. CASE /\ lfHeld["registry"] = NoLFProc /\ LFLeaseHolds(p)
           /\ LFGo(p, "ledger") /\ UNCHANGED <<lfDisk, lfAcked, lfHeld, lfTears>>
  <2>1. lfProc[p].pc = "lease" BY DEF verifyRunTransitionLease
  <2>2. lfHeld[LFRun(p)] = p BY <2>1, LFProcFacts DEF LFLock1, LFUnderLease
  <2>3. lfHeld' = lfHeld /\ lfHeld \in [LFFlocks -> LFProcs \cup {NoLFProc}] BY <1>2, LFProcFacts DEF LFTypeOK
  <2> QED BY <1>2, <2>1, <2>2, <2>3, LFGoesOn DEF lfDisk
<1> QED BY <1>1, <1>2 DEF verifyRunTransitionLease, LFBusy

\* The run's lock file is made or taken over.
LEMMA LFLockFileInv == ASSUME LFInv, NEW p \in LFProcs, openRunTransitionLock(p) PROVE LFInv'
<1> DEFINE r == LFRun(p)
<1>1. CASE LFRefuse(p) BY <1>1, LFRefuseInv
<1>2. CASE /\ lfLock[r] = "whole" \/ (lfLock[r] = "none" /\ r \notin lfNamed)
           /\ lfLock' = [lfLock EXCEPT ![r] = "whole"]
           /\ LFGo(p, "name")
           /\ UNCHANGED <<lfFile, lfSynced, lfBind, lfDir, lfRegistry, lfNamed, lfAcked, lfHeld, lfTears>>
  <2>1. lfProc[p].pc = "lockfile" BY DEF openRunTransitionLock
  <2>2. LFTypeOK /\ LFNamesWhatIsThere /\ lfBind = "established" BY <2>1, LFProcFacts DEF LFSpace1
  <2>3. r \in LFRuns BY <2>1, LFProcFacts, LFAssumption DEF LFLock1, LFRun
  <2>4. "name" \in LFPC BY DEF LFPC
  <2>5. /\ lfProc'[p].pc = "name" /\ lfProc'[p].ev = lfProc[p].ev /\ lfProc'[p].bound = lfProc[p].bound /\ lfProc'[p].ok = lfProc[p].ok
        /\ LFOthers(p) /\ lfProc' \in [LFProcs -> LFProcRec]
    BY <1>2, <2>4, LFProcFacts, LFGoFacts
  <2>6. lfLock' \in [LFRuns -> {"none", "part", "whole"}] /\ lfLock'[r] = "whole" /\ \A q \in LFRuns : q # r => lfLock'[q] = lfLock[q]
    BY <1>2, <2>2, <2>3 DEF LFTypeOK
  <2>7. LFRun(p)' = r BY <2>5 DEF LFRun
  <2>8. LFGrows BY <1>2, <2>6 DEF LFGrows
  <2>9. LFNamesWhatIsThere' BY <1>2, <2>2, <2>6 DEF LFNamesWhatIsThere
  <2>10. LFSpace1(p)' BY <1>2, <2>1, <2>5, <2>6, <2>7, LFProcFacts DEF LFSpace1
  <2>11. LFNamespaceAt' BY <2>5, <2>8, <2>9, <2>10, LFFrameSpace
  <2>12. LFLock1(p)' BY <1>2, <2>1, <2>5, LFProcFacts DEF LFLock1, LFUnderLease
  <2>13. LFNoTear' BY <1>2, <2>6 DEF LFInv, LFNoTear
  <2>14. /\ lfBind' \in {"none", "initializing", "established"} /\ lfDir' \in BOOLEAN
         /\ lfRegistry' \in {"none", "empty", "part", "whole", "torn"} /\ lfNamed' \subseteq LFRuns
         /\ lfHeld' \in [LFFlocks -> LFProcs \cup {NoLFProc}]
    BY <1>2, <2>2 DEF LFTypeOK
  <2> QED BY <1>2, <2>1, <2>4, <2>5, <2>6, <2>11, <2>12, <2>13, <2>14, LFOnTheWay
<1> QED BY <1>1, <1>2 DEF openRunTransitionLock

\* The registry names the run's lock and is unlocked.
LEMMA LFIdentityInv == ASSUME LFInv, NEW p \in LFProcs, appendRunTransitionIdentity(p) PROVE LFInv'
<1> DEFINE r == LFRun(p)
<1>1. /\ lfProc[p].pc = "name" /\ lfNamed' = lfNamed \cup {r} /\ LFFree("registry") /\ LFGo(p, "flock")
      /\ UNCHANGED <<lfFile, lfSynced, lfBind, lfDir, lfRegistry, lfLock, lfAcked, lfTears>>
  BY DEF appendRunTransitionIdentity
<1>2. LFTypeOK /\ LFNamesWhatIsThere /\ lfBind = "established" /\ lfLock[r] = "whole" BY <1>1, LFProcFacts DEF LFSpace1
<1>3. r \in LFRuns BY <1>1, LFProcFacts, LFAssumption DEF LFLock1, LFRun
<1>4. "flock" \in LFPC BY DEF LFPC
<1>5. /\ lfProc'[p].pc = "flock" /\ lfProc'[p].ev = lfProc[p].ev /\ lfProc'[p].bound = lfProc[p].bound /\ lfProc'[p].ok = lfProc[p].ok
      /\ LFOthers(p) /\ lfProc' \in [LFProcs -> LFProcRec]
  BY <1>1, <1>4, LFProcFacts, LFGoFacts
<1>6. lfHeld["registry"] = p /\ "registry" \in LFFlocks BY <1>1, LFProcFacts DEF LFLock1, LFFlocks
<1>7. LFTheirs(p) /\ lfHeld' \in [LFFlocks -> LFProcs \cup {NoLFProc}] BY <1>1, <1>6, LFProcFacts, LFFreeFacts
<1>8. LFNamesWhatIsThere' BY <1>1, <1>2 DEF LFNamesWhatIsThere
<1>9. LFGrows BY <1>1 DEF LFGrows
<1>10. LFSpace1(p)' BY <1>1, <1>2, <1>5, LFProcFacts DEF LFSpace1
<1>11. LFNamespaceAt' BY <1>5, <1>8, <1>9, <1>10, LFFrameSpace
<1>12. LFLock1(p)' BY <1>1, <1>5, LFProcFacts DEF LFLock1, LFUnderLease
<1>13. LFNoTear' BY <1>1 DEF LFInv, LFNoTear
<1>14. /\ lfBind' \in {"none", "initializing", "established"} /\ lfDir' \in BOOLEAN
       /\ lfRegistry' \in {"none", "empty", "part", "whole", "torn"} /\ lfNamed' \subseteq LFRuns
       /\ lfLock' \in [LFRuns -> {"none", "part", "whole"}]
  BY <1>1, <1>2, <1>3 DEF LFTypeOK
<1> QED BY <1>1, <1>4, <1>5, <1>7, <1>11, <1>12, <1>13, <1>14, LFOnTheWay

\* The ledger's flock.
LEMMA LFFileLockInv == ASSUME LFInv, NEW p \in LFProcs, withFileLock(p) PROVE LFInv'
<1>1. CASE LFRefuse(p) BY <1>1, LFRefuseInv
<1>2. CASE /\ lfProc[p].ev \in LFMoves => LFLeaseHolds(p)
           /\ LFTake(p, "ledger") /\ LFGo(p, "scan") /\ UNCHANGED <<lfDisk, lfAcked, lfTears>>
  <2>1. lfProc[p].pc = "ledger" BY DEF withFileLock
  <2>2. UNCHANGED <<lfFile, lfSynced, lfBind, lfDir, lfRegistry, lfNamed, lfLock, lfAcked, lfTears>> BY <1>2 DEF lfDisk
  <2>3. "scan" \in LFPC BY DEF LFPC
  <2>4. /\ lfProc'[p].pc = "scan" /\ lfProc'[p].ev = lfProc[p].ev /\ lfProc'[p].bound = lfProc[p].bound /\ lfProc'[p].ok = lfProc[p].ok
        /\ LFOthers(p) /\ lfProc' \in [LFProcs -> LFProcRec]
    BY <1>2, <2>3, LFProcFacts, LFGoFacts
  <2>5. /\ lfHeld'["ledger"] = p /\ LFTheirs(p) /\ lfHeld' \in [LFFlocks -> LFProcs \cup {NoLFProc}]
        /\ \A g \in LFFlocks : g # "ledger" => lfHeld'[g] = lfHeld[g]
    BY <1>2, LFProcFacts, LFTakeFacts DEF LFFlocks
  <2>6. lfProc[p].ev \in LFMoves => LFRun(p) \in LFFlocks /\ LFRun(p) # "ledger" /\ lfHeld[LFRun(p)] = p /\ LFRun(p)' = LFRun(p)
    BY <2>1, <2>4, LFProcFacts, LFAssumption DEF LFLock1, LFUnderLease, LFRun, LFFlocks
  <2>7. LFLock1(p)' BY <2>1, <2>4, <2>5, <2>6, LFProcFacts DEF LFLock1, LFUnderLease
  <2>8. LFSpace1(p)' BY <2>2, <2>4, LFProcFacts DEF LFSpace1
  <2>9. LFNamespaceAt' BY <2>2, <2>4, <2>8, LFSameSpace
  <2>10. LFNoTear' BY <2>2 DEF LFInv, LFNoTear
  <2>11. LFTypeOK BY LFProcFacts
  <2>12. /\ lfBind' \in {"none", "initializing", "established"} /\ lfDir' \in BOOLEAN
         /\ lfRegistry' \in {"none", "empty", "part", "whole", "torn"} /\ lfNamed' \subseteq LFRuns
         /\ lfLock' \in [LFRuns -> {"none", "part", "whole"}]
    BY <2>2, <2>11 DEF LFTypeOK
  <2> QED BY <2>1, <2>2, <2>3, <2>4, <2>5, <2>7, <2>9, <2>10, <2>12, LFOnTheWay
<1> QED BY <1>1, <1>2 DEF withFileLock, LFBusy

\* What a process writes under the ledger's flock leaves the others' events as
\* they were: nobody else is at the file, and the line it may grow is nobody's.
LEMMA LFFrameWrite ==
  ASSUME LFInv, NEW p \in LFProcs, NEW form \in {"whole", "part"}, lfProc[p].pc = "scan", LFOthers(p),
         lfFile' = LFWritten(lfProc[p].ev, form), lfSynced' = LFStillSynced, lfAcked' = lfAcked,
         lfTears' \in Nat, lfTears' >= lfTears, form = "part" => lfTears' > 0,
         lfProc[p].ev \notin LFPlain => LFAt(lfProc[p].ev) = {},
         LFFile1(p)', LFPlainOnce(lfProc'[p].ev, p)
  PROVE  LFFilesAt'
<1> DEFINE e == lfProc[p].ev
           n == Len(lfFile)
           glue == n > 0 /\ lfFile[n].form = "part"
           m == IF glue THEN n ELSE n + 1
<1>1. LFTypeOK /\ e \in LFEvents /\ lfTears \in Nat /\ lfHeld["ledger"] = p BY LFProcFacts DEF LFLock1
<1>2. LFAt(e) = {} BY LFProcFacts DEF LFFile1
<1>3. \A x \in LFEvents : LFDurable(x) => x # e
  <2> TAKE x \in LFEvents
  <2>1. LFDurable(x) => LFAt(x) # {} BY DEF LFDurable, LFLineAt
  <2> QED BY <1>2, <2>1
<1>4. \A x \in LFEvents : x # e => (LFAt(x) = {} => LFAt(x)' = {}) /\ (LFDurable(x) => LFDurable(x)')
  <2> TAKE x \in LFEvents
  <2> HIDE DEF e
  <2> SUFFICES ASSUME x # e PROVE (LFAt(x) = {} => LFAt(x)' = {}) /\ (LFDurable(x) => LFDurable(x)') OBVIOUS
  <2>1. lfFile' = LFWritten(e, form) BY DEF e
  <2> QED BY <1>1, <2>1, LFWriteOthers
<1>5. ASSUME lfTears' = 0 PROVE LFClean'
  <2>1. lfTears = 0 /\ form = "whole" BY <1>1, <1>5
  <2>2. LFClean BY <2>1 DEF LFInv, LFFilesAt
  <2>3. /\ Len(lfFile') = m /\ m \in Nat /\ m > 0 /\ n \in Nat
        /\ \A i \in 1..(m - 1) : i \in 1..n /\ lfFile'[i] = lfFile[i]
        /\ lfFile'[m].form = (IF glue /\ form = "whole" THEN "glued" ELSE form)
    BY <1>1, LFWrittenFacts
  <2>4. ~glue BY <2>2, <2>3 DEF LFClean
  <2>5. lfFile'[m].form = "whole" BY <2>1, <2>3, <2>4
  <2>6. \A i \in 1..(m - 1) : lfFile'[i].form = "whole" BY <2>2, <2>3 DEF LFClean
  <2> HIDE DEF m
  <2>7. \A i \in 1..Len(lfFile') : i \in 1..(m - 1) \/ i = m BY <2>3
  <2> QED BY <2>5, <2>6, <2>7 DEF LFClean
<1>6. \A x \in lfAcked' : LFDurable(x)'
  <2>1. \A x \in lfAcked : x \in LFEvents /\ LFDurable(x) BY <1>1 DEF LFInv, LFFilesAt, LFTypeOK
  <2> QED BY <1>3, <1>4, <2>1
<1>7. ASSUME NEW q \in LFProcs, q # p PROVE LFFile1(q)'
  <2>1. LFFile1(q) /\ LFLock1(q) /\ lfProc'[q] = lfProc[q] BY <1>7, LFProcFacts DEF LFOthers
  <2>2. lfProc[q].pc \notin {"sync", "confirm"} BY <1>1, <1>7, <2>1 DEF LFLock1
  <2>3. lfProc[q].ok => LFDurable(lfProc[q].ev)'
    <3>1. SUFFICES ASSUME lfProc[q].ok PROVE LFDurable(lfProc[q].ev)' OBVIOUS
    <3> DEFINE x == lfProc[q].ev
    <3>2. x \in LFEvents /\ LFDurable(x) BY <2>1, <3>1 DEF LFFile1, LFLock1
    <3>3. x # e BY <1>3, <3>2
    <3>4. \E i \in DOMAIN lfFile' : i <= lfSynced' /\ {j \in 1..Len(lfFile') : lfFile'[j].ev = x} = {i}
                                 /\ (lfFile'[i].form = "whole" \/ (x \in LFPlain /\ lfFile'[i].form = "glued" /\ lfTears' > 0))
      BY <1>4, <3>2, <3>3 DEF LFDurable, LFLineAt, LFAt
    <3>5. lfProc'[q].ev = x BY <2>1
    <3> HIDE DEF x
    <3> QED BY <3>4, <3>5 DEF LFDurable, LFLineAt, LFAt
  <2>4. lfProc[q].ev \in LFPlain /\ lfProc[q].pc \notin {"idle", "sync", "confirm", "close"} => LFAt(lfProc[q].ev)' = {}
    <3> DEFINE x == lfProc[q].ev
    <3>1. SUFFICES ASSUME x \in LFPlain, lfProc[q].pc \notin {"idle", "sync", "confirm", "close"} PROVE LFAt(lfProc[q].ev)' = {} OBVIOUS
    <3>2. x \in LFEvents /\ LFAt(x) = {} BY <2>1, <3>1, LFAssumption DEF LFFile1
    <3>3. x # e
      <4>1. LFPlainOnce(x, q) BY LFProcFacts
      <4> QED BY <1>7, <3>1, <4>1 DEF LFPlainOnce
    <3>4. {j \in 1..Len(lfFile') : lfFile'[j].ev = x} = {} BY <1>4, <3>2, <3>3 DEF LFAt
    <3>5. lfProc'[q].ev = x BY <2>1
    <3> HIDE DEF x
    <3> QED BY <3>4, <3>5 DEF LFAt
  <2> QED BY <2>1, <2>2, <2>3, <2>4 DEF LFFile1
<1>8. \A q \in LFProcs : LFFile1(q)' BY <1>7
<1>9. \A a, b \in LFProcs : a # b /\ lfProc'[a].ev \in LFPlain => lfProc'[b].ev # lfProc'[a].ev
  BY DEF LFInv, LFFilesAt, LFOthers, LFPlainOnce
<1> QED BY <1>5, <1>6, <1>8, <1>9 DEF LFFilesAt

\* The lock, the namespace and the types of a step in the file.
LEMMA LFInFile ==
  ASSUME LFInv, NEW p \in LFProcs, NEW pc \in LFPC, LFGo(p, pc),
         lfProc[p].pc \in {"scan", "sync"}, pc \in {"sync", "confirm"},
         UNCHANGED <<lfBind, lfDir, lfRegistry, lfNamed, lfLock, lfAcked, lfHeld, lfTears>>,
         lfFile' \in Seq([ev : LFEvents, form : LFForm]), lfSynced' \in 0..Len(lfFile')
  PROVE  LFTypeOK' /\ LFLocksAt' /\ LFNamespaceAt' /\ LFNoTear' /\ LFOthers(p)
         /\ lfProc'[p].pc = pc /\ lfProc'[p].ev = lfProc[p].ev /\ ~lfProc'[p].ok /\ LFPlainOnce(lfProc'[p].ev, p)
<1>1. /\ lfProc'[p].pc = pc /\ lfProc'[p].ev = lfProc[p].ev /\ lfProc'[p].bound = lfProc[p].bound /\ lfProc'[p].ok = lfProc[p].ok
      /\ LFOthers(p) /\ lfProc' \in [LFProcs -> LFProcRec]
  BY LFProcFacts, LFGoFacts
<1>2. ~lfProc[p].ok BY LFProcFacts DEF LFFile1
<1>3. LFTypeOK' BY <1>1 DEF LFInv, LFTypeOK, LFProcRec
<1>4. LFRun(p)' = LFRun(p) BY <1>1 DEF LFRun
<1>5. LFLock1(p)' BY <1>1, <1>4, LFProcFacts DEF LFLock1, LFUnderLease
<1>6. LFLocksAt' BY <1>1, <1>5, LFFrameLocks
<1>7. LFSpace1(p)' BY <1>1, LFProcFacts DEF LFSpace1
<1>8. LFNamespaceAt' BY <1>1, <1>7, LFSameSpace
<1>9. LFNoTear' BY DEF LFInv, LFNoTear
<1>10. LFPlainOnce(lfProc'[p].ev, p) BY <1>1, LFProcFacts
<1> QED BY <1>1, <1>2, <1>3, <1>6, <1>8, <1>9, <1>10

\* The event is scanned for and written.
LEMMA LFWriteInv == ASSUME LFInv, NEW p \in LFProcs, writeEvent(p) PROVE LFInv'
<1> DEFINE e == lfProc[p].ev
<1>1. lfProc[p].pc = "scan" /\ e \in LFEvents /\ LFTypeOK BY LFProcFacts DEF writeEvent, LFLock1
<1>2. CASE LFRefuse(p) BY <1>2, LFRefuseInv
<1>3. CASE e \notin LFPlain /\ LFGo(p, "sync") /\ UNCHANGED <<lfDisk, lfAcked, lfHeld, lfTears>>
  <2>1. UNCHANGED <<lfFile, lfSynced, lfBind, lfDir, lfRegistry, lfNamed, lfLock, lfAcked, lfHeld, lfTears>> BY <1>3 DEF lfDisk
  <2>2. "sync" \in LFPC /\ lfFile' \in Seq([ev : LFEvents, form : LFForm]) /\ lfSynced' \in 0..Len(lfFile')
    BY <1>1, <2>1 DEF LFTypeOK, LFPC
  <2>3. LFTypeOK' /\ LFLocksAt' /\ LFNamespaceAt' /\ LFNoTear' /\ LFOthers(p)
        /\ lfProc'[p].pc = "sync" /\ lfProc'[p].ev = e /\ ~lfProc'[p].ok /\ LFPlainOnce(lfProc'[p].ev, p)
    BY <1>1, <1>3, <2>1, <2>2, LFInFile
  <2>4. LFFile1(p)' BY <1>3, <2>3 DEF LFFile1
  <2>5. LFFilesAt' BY <2>1, <2>3, <2>4, LFProcFacts, LFFrameFile
  <2> QED BY <2>3, <2>5 DEF LFInv
<1>4. CASE /\ e \in LFPlain \/ (LFScans(e) /\ LFAt(e) = {})
           /\ Len(lfFile) < LFLines /\ lfFile' = LFWritten(e, "whole") /\ lfSynced' = LFStillSynced /\ LFGo(p, "sync")
           /\ UNCHANGED <<lfBind, lfDir, lfRegistry, lfNamed, lfLock, lfAcked, lfHeld, lfTears>>
  <2> DEFINE n == Len(lfFile)
             glue == n > 0 /\ lfFile[n].form = "part"
             m == IF glue THEN n ELSE n + 1
  <2>1. /\ lfFile' \in Seq([ev : LFEvents, form : LFForm]) /\ Len(lfFile') = m /\ m \in Nat /\ m > 0 /\ n \in Nat
        /\ \A i \in 1..(m - 1) : i \in 1..n /\ lfFile'[i] = lfFile[i]
        /\ lfFile'[m].ev = e /\ lfFile'[m].form = (IF glue THEN "glued" ELSE "whole")
        /\ lfSynced' \in 0..(m - 1)
    BY <1>1, <1>4, LFWrittenFacts
  <2>2. "sync" \in LFPC /\ lfSynced' \in 0..Len(lfFile') BY <2>1 DEF LFPC
  <2>3. LFTypeOK' /\ LFLocksAt' /\ LFNamespaceAt' /\ LFNoTear' /\ LFOthers(p)
        /\ lfProc'[p].pc = "sync" /\ lfProc'[p].ev = e /\ ~lfProc'[p].ok /\ LFPlainOnce(lfProc'[p].ev, p)
    BY <1>1, <1>4, <2>1, <2>2, LFInFile
  <2>4. LFAt(e) = {} BY <1>1, <1>4, LFProcFacts DEF LFFile1
  <2>5. {j \in 1..Len(lfFile') : lfFile'[j].ev = e} = {m}
    <3>1. \A j \in 1..(m - 1) : lfFile'[j].ev # e BY <2>1, <2>4 DEF LFAt
    <3> HIDE DEF m, e
    <3> QED BY <2>1, <3>1
  <2>6. glue => lfTears > 0
    <3>1. glue => ~LFClean BY <2>1 DEF LFClean
    <3> QED BY <3>1, LFProcFacts DEF LFInv, LFFilesAt
  <2>7. e \notin LFPlain => ~glue BY <1>4, <2>1 DEF LFScans, LFClean
  <2>8. LFOnce(lfProc[p].ev)'
    <3>1. m \in DOMAIN lfFile' BY <2>1
    <3>2. lfFile'[m].form = "whole" \/ (e \in LFPlain /\ lfFile'[m].form = "glued" /\ lfTears' > 0)
      BY <1>4, <2>1, <2>6, <2>7
    <3>3. lfProc'[p].ev = e BY <2>3
    <3> HIDE DEF e, m
    <3> QED BY <2>5, <3>1, <3>2, <3>3 DEF LFOnce, LFLineAt, LFAt
  <2>9. LFFile1(p)' BY <2>3, <2>8 DEF LFFile1
  <2>10. LFFilesAt' BY <1>1, <1>4, <2>3, <2>9, LFProcFacts, LFFrameWrite
  <2> QED BY <2>3, <2>10 DEF LFInv
<1> QED BY <1>2, <1>3, <1>4 DEF writeEvent

\* The fsync.
LEMMA LFSyncInv == ASSUME LFInv, NEW p \in LFProcs, syncEvent(p) PROVE LFInv'
<1>1. CASE LFRefuse(p) BY <1>1, LFRefuseInv
<1>2. CASE /\ lfSynced' = Len(lfFile) /\ LFGo(p, "confirm")
           /\ UNCHANGED <<lfFile, lfBind, lfDir, lfRegistry, lfNamed, lfLock, lfAcked, lfHeld, lfTears>>
  <2>1. lfProc[p].pc = "sync" BY DEF syncEvent
  <2>2. "confirm" \in LFPC /\ lfFile' \in Seq([ev : LFEvents, form : LFForm]) /\ lfSynced' \in 0..Len(lfFile')
    <3>1. lfFile \in Seq([ev : LFEvents, form : LFForm]) BY LFProcFacts DEF LFTypeOK
    <3>2. Len(lfFile) \in 0..Len(lfFile) BY <3>1
    <3> QED BY <1>2, <3>1, <3>2 DEF LFPC
  <2>3. LFTypeOK' /\ LFLocksAt' /\ LFNamespaceAt' /\ LFNoTear' /\ LFOthers(p)
        /\ lfProc'[p].pc = "confirm" /\ lfProc'[p].ev = lfProc[p].ev /\ ~lfProc'[p].ok /\ LFPlainOnce(lfProc'[p].ev, p)
    BY <1>2, <2>1, <2>2, LFInFile
  <2>4. LFOnce(lfProc[p].ev) => LFOnce(lfProc[p].ev)' BY <1>2, <2>3 DEF LFOnce, LFLineAt, LFAt
  <2>5. LFFile1(p)' BY <1>2, <2>1, <2>3, <2>4, LFProcFacts DEF LFFile1
  <2>6. LFFilesAt' BY <1>2, <2>3, <2>5, LFProcFacts, LFFrameFile
  <2> QED BY <2>3, <2>6 DEF LFInv
<1> QED BY <1>1, <1>2 DEF syncEvent

\* What is there once by the scan is on one line, and whole.
LEMMA LFScanned ==
  ASSUME LFTypeOK, NEW e \in LFEvents, LFScans(e), LFAt(e) # {}
  PROVE  LFOnce(e)
<1>1. PICK i : i \in LFAt(e) OBVIOUS
<1>2. lfFile \in Seq([ev : LFEvents, form : LFForm]) /\ Len(lfFile) \in Nat BY DEF LFTypeOK
<1>3. IsFiniteSet(1..Len(lfFile)) BY <1>2, FS_Interval
<1>4. LFAt(e) \subseteq 1..Len(lfFile) BY DEF LFAt
<1>5. IsFiniteSet(LFAt(e)) BY <1>3, <1>4, FS_Subset
<1>6. {i} \subseteq LFAt(e) BY <1>1
<1>7. Cardinality({i}) = 1 /\ IsFiniteSet({i}) BY FS_Singleton
<1>8. Cardinality(LFAt(e)) \in Nat BY <1>5, FS_CardinalityType
<1>9. Cardinality({i}) <= Cardinality(LFAt(e)) /\ (Cardinality({i}) = Cardinality(LFAt(e)) => {i} = LFAt(e))
  BY <1>5, <1>6, FS_Subset
<1>10. Cardinality(LFAt(e)) <= 1 BY DEF LFScans
<1>11. LFAt(e) = {i} BY <1>7, <1>8, <1>9, <1>10
<1>12. i \in DOMAIN lfFile /\ lfFile[i].form = "whole" BY <1>1, <1>2, <1>4 DEF LFScans, LFClean
<1> QED BY <1>11, <1>12 DEF LFOnce, LFLineAt

\* The event is read back and the ledger unlocked.
LEMMA LFConfirmInv == ASSUME LFInv, NEW p \in LFProcs, confirmEvent(p) PROVE LFInv'
<1> DEFINE e == lfProc[p].ev
           ok == e \in LFPlain \/ (LFScans(e) /\ LFAt(e) # {})
<1>1. lfProc[p].pc = "confirm" /\ lfProc' = [lfProc EXCEPT ![p].pc = "close", ![p].ok = ok] BY DEF confirmEvent
<1>2. UNCHANGED <<lfFile, lfSynced, lfBind, lfDir, lfRegistry, lfNamed, lfLock, lfAcked, lfTears>> /\ LFFree("ledger")
  BY DEF confirmEvent, lfDisk
<1>3. LFTypeOK /\ e \in LFEvents /\ lfHeld["ledger"] = p /\ lfSynced = Len(lfFile) BY <1>1, LFProcFacts DEF LFLock1, LFFile1
<1>4. ok => LFDurable(e)
  <2>1. ok => LFOnce(e) BY <1>1, <1>3, LFProcFacts, LFScanned DEF LFFile1
  <2>2. DOMAIN lfFile = 1..Len(lfFile) /\ Len(lfFile) \in Nat BY <1>3 DEF LFTypeOK
  <2>3. LFOnce(e) => LFDurable(e) BY <1>3, <2>2 DEF LFOnce, LFDurable
  <2> QED BY <2>1, <2>3
<1>5. lfProc \in [LFProcs -> LFProcRec] BY <1>3 DEF LFTypeOK, LFProcRec
<1>6. ok \in BOOLEAN OBVIOUS
<1>7. PICK b \in BOOLEAN : b = ok BY <1>6
<1>8. lfProc' = [lfProc EXCEPT ![p].pc = "close", ![p].ok = b] BY <1>1, <1>7
<1> HIDE DEF ok
<1>9. /\ lfProc'[p].pc = "close" /\ lfProc'[p].ev = e /\ lfProc'[p].bound = lfProc[p].bound
      /\ LFOthers(p)
  BY <1>5, <1>8 DEF LFProcRec, LFOthers
<1>10. lfProc'[p].ok = b BY <1>5, <1>8 DEF LFProcRec
<1>11. "close" \in LFPC BY DEF LFPC
<1>12. lfProc'[p] \in LFProcRec BY <1>5, <1>8, <1>11 DEF LFProcRec
<1>13. lfProc' = [q \in LFProcs |-> lfProc'[q]] BY <1>5, <1>8
<1>14. lfProc' \in [LFProcs -> LFProcRec] BY <1>5, <1>9, <1>12, <1>13 DEF LFOthers
<1>15. lfProc'[p].ok => LFDurable(e) BY <1>4, <1>7, <1>10
<1>16. /\ LFTheirs(p) /\ lfHeld' \in [LFFlocks -> LFProcs \cup {NoLFProc}]
       /\ \A g \in LFFlocks : g # "ledger" => lfHeld'[g] = lfHeld[g]
  BY <1>2, <1>3, LFFreeFacts DEF LFFlocks
<1>17. LFTypeOK' BY <1>2, <1>14, <1>16 DEF LFInv, LFTypeOK, LFProcRec
<1>18. e \in LFMoves => LFRun(p) \in LFFlocks /\ LFRun(p) # "ledger" /\ lfHeld[LFRun(p)] = p /\ LFRun(p)' = LFRun(p)
  BY <1>1, <1>9, LFProcFacts, LFAssumption DEF LFLock1, LFUnderLease, LFRun, LFFlocks
<1>19. LFLock1(p)' BY <1>1, <1>9, <1>16, <1>18, LFProcFacts DEF LFLock1, LFUnderLease
<1>20. LFLocksAt' BY <1>9, <1>16, <1>19, LFFrameLocks
<1>21. LFSpace1(p)' BY <1>2, <1>9, LFProcFacts DEF LFSpace1
<1>22. LFNamespaceAt' BY <1>2, <1>9, <1>21, LFSameSpace
<1>23. LFDurable(lfProc[p].ev) => LFDurable(lfProc[p].ev)' BY <1>2, <1>9 DEF LFDurable, LFLineAt, LFAt
<1>24. LFFile1(p)' BY <1>9, <1>15, <1>23 DEF LFFile1
<1>25. LFPlainOnce(lfProc'[p].ev, p) BY <1>9, LFProcFacts
<1>26. LFFilesAt' BY <1>2, <1>9, <1>24, <1>25, LFProcFacts, LFFrameFile
<1>27. LFNoTear' BY <1>2 DEF LFInv, LFNoTear
<1> QED BY <1>17, <1>20, <1>22, <1>26, <1>27 DEF LFInv

\* The lease is closed and the caller answered.
LEMMA LFCloseInv == ASSUME LFInv, NEW p \in LFProcs, LFClose(p) PROVE LFInv'
<1>1. lfProc[p].pc = "close" /\ lfProc[p].ev \in LFEvents BY LFProcFacts DEF LFClose, LFLock1
<1>2. lfAcked' = lfAcked \/ (lfProc[p].ok /\ lfAcked' = lfAcked \cup {lfProc[p].ev}) BY DEF LFClose
<1>3. lfProc[p].ok => LFDurable(lfProc[p].ev) BY LFProcFacts DEF LFFile1
<1>4. lfAcked' \subseteq LFEvents /\ \A e \in lfAcked' : e \in lfAcked \/ LFDurable(e)
  BY <1>1, <1>2, <1>3 DEF LFInv, LFTypeOK
<1> QED BY <1>4, LFLeaves DEF LFClose

\* A process is gone: what it knew goes with it.
LEMMA LFGone ==
  ASSUME LFInv, NEW p \in LFProcs, lfHeld' = LFDrop(p),
         lfProc' = [lfProc EXCEPT ![p] = [pc |-> "idle", ev |-> NoLFEvent, bound |-> FALSE, ok |-> FALSE]]
  PROVE  /\ LFOthers(p) /\ lfProc' \in [LFProcs -> LFProcRec] /\ lfHeld' \in [LFFlocks -> LFProcs \cup {NoLFProc}]
         /\ LFLocksAt' /\ LFSpace1(p)' /\ LFFile1(p)' /\ LFPlainOnce(lfProc'[p].ev, p)
<1> DEFINE r == [pc |-> "idle", ev |-> NoLFEvent, bound |-> FALSE, ok |-> FALSE]
<1>1. r \in LFProcRec
  <2>1. "idle" \in LFPC BY DEF LFPC
  <2> QED BY <2>1, LFRecMade
<1>2. r.pc = "idle" /\ r.ev = NoLFEvent OBVIOUS
<1>3. ~r.bound OBVIOUS
<1>4. ~r.ok OBVIOUS
<1>5. LFNow(p, r) BY DEF LFNow
<1> HIDE DEF r
<1>6. lfProc'[p] = r /\ LFOthers(p) /\ lfProc' \in [LFProcs -> LFProcRec] BY <1>1, <1>5, LFProcFacts, LFNowFacts
<1>7. LFTheirs(p) /\ lfHeld' \in [LFFlocks -> LFProcs \cup {NoLFProc}] BY LFProcFacts, LFDropFacts
<1>8. LFLock1(p)' /\ LFSpace1(p)' /\ LFFile1(p)' /\ LFPlainOnce(lfProc'[p].ev, p)
  BY <1>2, <1>3, <1>4, <1>6, LFIdleOK
<1>9. LFLocksAt' BY <1>6, <1>7, <1>8, LFFrameLocks
<1> QED BY <1>6, <1>7, <1>8, <1>9

\* A process dies between two writes.
LEMMA LFCrashInv == ASSUME LFInv, NEW p \in LFProcs, LFCrash(p) PROVE LFInv'
<1>1. /\ LFOthers(p) /\ lfProc' \in [LFProcs -> LFProcRec] /\ lfHeld' \in [LFFlocks -> LFProcs \cup {NoLFProc}]
      /\ LFLocksAt' /\ LFSpace1(p)' /\ LFFile1(p)' /\ LFPlainOnce(lfProc'[p].ev, p)
  BY LFGone DEF LFCrash
<1>2. UNCHANGED <<lfFile, lfSynced, lfBind, lfDir, lfNamed, lfLock, lfAcked, lfTears>> BY DEF LFCrash
<1>3. lfRegistry' = lfRegistry \/ (lfProc[p].pc = "registry" /\ lfRegistry = "none" /\ lfBind = "initializing" /\ lfRegistry' = "empty")
  BY DEF LFCrash
<1>4. LFTypeOK' BY <1>1, <1>2, <1>3 DEF LFInv, LFTypeOK, LFProcRec
<1>5. LFGrows BY <1>2, <1>3 DEF LFGrows
<1>6. LFNamesWhatIsThere' BY <1>2, <1>3, LFProcFacts DEF LFNamesWhatIsThere, LFSpace1
<1>7. LFNamespaceAt' BY <1>1, <1>5, <1>6, LFFrameSpace
<1>8. LFFilesAt' BY <1>1, <1>2, LFProcFacts, LFFrameFile
<1>9. LFNoTear' BY <1>2, <1>3 DEF LFInv, LFNoTear
<1> QED BY <1>1, <1>4, <1>7, <1>8, <1>9 DEF LFInv

\* A write stops part way.
LEMMA LFTearInv == ASSUME LFInv, NEW p \in LFProcs, LFTear(p) PROVE LFInv'
<1>1. /\ LFOthers(p) /\ lfProc' \in [LFProcs -> LFProcRec] /\ lfHeld' \in [LFFlocks -> LFProcs \cup {NoLFProc}]
      /\ LFLocksAt' /\ LFSpace1(p)' /\ LFFile1(p)' /\ LFPlainOnce(lfProc'[p].ev, p)
  BY LFGone DEF LFTear
<1>2. UNCHANGED <<lfBind, lfDir, lfNamed, lfAcked>> /\ lfTears < LFTears /\ lfTears' = lfTears + 1 BY DEF LFTear
<1>3. LFTypeOK /\ lfTears' \in 0..LFTears /\ lfTears' \in Nat /\ lfTears' > 0 /\ lfTears' >= lfTears
  <2>1. LFTypeOK /\ lfTears \in 0..LFTears BY DEF LFInv, LFTypeOK
  <2> QED BY <1>2, <2>1, LFAssumption
<1>4. LFNoTear' BY <1>3 DEF LFNoTear
<1>5. CASE /\ lfProc[p].pc = "scan" /\ Len(lfFile) < LFLines
           /\ LET e == lfProc[p].ev IN
              /\ e \in LFPlain \/ (LFScans(e) /\ LFAt(e) = {})
              /\ lfFile' = LFWritten(e, "part") /\ lfSynced' = LFStillSynced
           /\ UNCHANGED <<lfRegistry, lfLock>>
  <2> DEFINE e == lfProc[p].ev
             n == Len(lfFile)
             glue == n > 0 /\ lfFile[n].form = "part"
             m == IF glue THEN n ELSE n + 1
  <2>1. lfFile' = LFWritten(e, "part") /\ lfSynced' = LFStillSynced /\ e \in LFEvents BY <1>5, LFProcFacts DEF LFLock1
  <2>2. lfFile' \in Seq([ev : LFEvents, form : LFForm]) /\ Len(lfFile') = m /\ m \in Nat /\ lfSynced' \in 0..(m - 1)
    BY <1>3, <2>1, LFWrittenFacts
  <2>3. lfSynced' \in 0..Len(lfFile') BY <2>2
  <2>4. LFTypeOK' BY <1>1, <1>2, <1>3, <1>5, <2>2, <2>3 DEF LFTypeOK, LFProcRec
  <2>5. LFNamespaceAt' BY <1>1, <1>2, <1>5, LFSameSpace
  <2>6. LFFilesAt' BY <1>1, <1>2, <1>3, <1>5, <2>1, LFFrameWrite
  <2> QED BY <1>1, <1>4, <2>4, <2>5, <2>6 DEF LFInv
<1>6. CASE UNCHANGED <<lfFile, lfSynced>>
  <2>1. \/ /\ lfProc[p].pc = "registry" /\ lfRegistry \in {"none", "empty"} /\ lfBind = "initializing"
           /\ lfRegistry' = "part" /\ UNCHANGED lfLock
        \/ /\ lfProc[p].pc = "lockfile" /\ lfLock[LFRun(p)] = "none" /\ LFRun(p) \notin lfNamed
           /\ lfLock' = [lfLock EXCEPT ![LFRun(p)] = "part"] /\ UNCHANGED lfRegistry
        \/ /\ lfProc[p].pc = "name" /\ LFRun(p) \notin lfNamed
           /\ lfRegistry' = "torn" /\ UNCHANGED lfLock
        \/ UNCHANGED <<lfRegistry, lfLock>>
    BY DEF LFTear
  <2>2. lfLock' \in [LFRuns -> {"none", "part", "whole"}] /\ lfRegistry' \in {"none", "empty", "part", "whole", "torn"}
    BY <1>3, <2>1 DEF LFTypeOK
  <2>3. LFTypeOK' BY <1>1, <1>2, <1>3, <1>6, <2>2 DEF LFTypeOK, LFProcRec
  <2>4. lfProc[p].pc \in {"lockfile", "name"} => LFRun(p) \in LFRuns /\ lfBind = "established"
    BY LFProcFacts, LFAssumption DEF LFLock1, LFSpace1, LFRun
  <2>5. LFGrows BY <1>2, <1>3, <2>1, <2>4 DEF LFGrows, LFTypeOK
  <2>6. LFNamesWhatIsThere' BY <1>2, <1>3, <2>1, <2>4, LFProcFacts DEF LFNamesWhatIsThere, LFTypeOK, LFSpace1
  <2>7. LFNamespaceAt' BY <1>1, <2>5, <2>6, LFFrameSpace
  <2>8. LFFilesAt' BY <1>1, <1>2, <1>3, <1>6, LFFrameFile
  <2> QED BY <1>1, <1>4, <2>3, <2>7, <2>8 DEF LFInv
<1> QED BY <1>5, <1>6 DEF LFTear

\* The power is lost: everybody is gone, and of the file what no fsync covered.
LEMMA LFPowerInv == ASSUME LFInv, LFPowerLoss PROVE LFInv'
<1> DEFINE r == [pc |-> "idle", ev |-> NoLFEvent, bound |-> FALSE, ok |-> FALSE]
           R == [ev : LFEvents, form : LFForm]
<1>1. PICK n \in lfSynced..Len(lfFile) : lfFile' = SubSeq(lfFile, 1, n) /\ lfSynced' = n BY DEF LFPowerLoss
<1>2. /\ lfHeld' = [f \in LFFlocks |-> NoLFProc] /\ lfProc' = [p \in LFProcs |-> r] /\ lfTears < LFTears /\ lfTears' = lfTears + 1
      /\ UNCHANGED <<lfBind, lfDir, lfRegistry, lfNamed, lfLock, lfAcked>>
  BY DEF LFPowerLoss
<1>3. LFTypeOK BY DEF LFInv
<1>4. lfTears \in Nat /\ lfTears' \in 0..LFTears /\ lfTears' > 0 BY <1>2, <1>3, LFAssumption DEF LFTypeOK
<1>5. lfFile \in Seq(R) /\ lfSynced \in 0..Len(lfFile) /\ n \in Nat /\ n <= Len(lfFile) /\ lfSynced <= n /\ Len(lfFile) \in Nat
  BY <1>1, <1>3 DEF LFTypeOK
<1>6. lfFile' \in Seq(R) /\ Len(lfFile') = n /\ \A i \in 1..n : lfFile'[i] = lfFile[i]
  <2> HIDE DEF R
  <2>1. n \in Int /\ 1 \in Int /\ \A i \in 1..n : lfFile[i] \in R BY <1>5
  <2>2. lfFile' \in Seq(R) /\ Len(lfFile') = (IF 1 <= n THEN n - 1 + 1 ELSE 0) BY <1>1, <2>1, SubSeqProperties
  <2>3. \A i \in 1..(n - 1 + 1) : lfFile'[i] = lfFile[1 + i - 1] BY <1>1, <2>1, SubSeqProperties
  <2>4. Len(lfFile') = n BY <1>5, <2>2
  <2>5. \A i \in 1..n : lfFile'[i] = lfFile[i]
    <3> TAKE i \in 1..n
    <3>1. lfFile'[i] = lfFile[1 + i - 1] /\ 1 + i - 1 = i BY <1>5, <2>3
    <3> QED BY <3>1
  <2> QED BY <2>2, <2>4, <2>5
<1>7. r \in LFProcRec
  <2>1. "idle" \in LFPC BY DEF LFPC
  <2> QED BY <2>1, LFRecMade
<1>8. r.pc = "idle" /\ r.ev = NoLFEvent OBVIOUS
<1>9. ~r.bound OBVIOUS
<1>10. ~r.ok OBVIOUS
<1> HIDE DEF r
<1>11. lfProc' \in [LFProcs -> LFProcRec] /\ \A p \in LFProcs : lfProc'[p] = r BY <1>2, <1>7
<1>12. \A p \in LFProcs : LFLock1(p)' /\ LFSpace1(p)' /\ LFFile1(p)'
  <2> TAKE p \in LFProcs
  <2> QED BY <1>8, <1>9, <1>10, <1>11, LFIdleOK
<1>13. LFTypeOK'
  <2>1. lfFile' \in Seq([ev : LFEvents, form : LFForm]) /\ lfSynced' \in 0..Len(lfFile') BY <1>1, <1>5, <1>6
  <2>2. lfHeld' \in [LFFlocks -> LFProcs \cup {NoLFProc}] BY <1>2
  <2> QED BY <1>2, <1>3, <1>4, <1>11, <2>1, <2>2 DEF LFTypeOK, LFProcRec
<1>14. LFNamesWhatIsThere' BY <1>2 DEF LFInv, LFNamespaceAt, LFNamesWhatIsThere
<1>15. \A e \in lfAcked' : LFDurable(e)'
  <2> SUFFICES ASSUME NEW e \in lfAcked PROVE LFDurable(e)' BY <1>2
  <2>1. LFDurable(e) BY DEF LFInv, LFFilesAt
  <2>2. PICK i \in DOMAIN lfFile : i <= lfSynced /\ LFLineAt(e, i) BY <2>1 DEF LFDurable
  <2>3. i \in 1..n /\ LFAt(e) = {i} BY <1>5, <2>2 DEF LFLineAt
  <2>4. LFAt(e)' = {i}
    <3>1. \A j \in 1..n : j \in 1..Len(lfFile) BY <1>5
    <3>2. lfFile[i].ev = e BY <2>3 DEF LFAt
    <3> QED BY <1>5, <1>6, <2>3, <3>1, <3>2 DEF LFAt
  <2>5. i \in DOMAIN lfFile' BY <1>6, <2>3
  <2>6. LFLineAt(e, i)' BY <1>4, <1>6, <2>2, <2>3, <2>4 DEF LFLineAt
  <2> QED BY <1>1, <2>3, <2>5, <2>6 DEF LFDurable
<1>16. NoLFEvent \notin LFPlain BY LFAssumption
<1>17. LFFilesAt' BY <1>4, <1>8, <1>11, <1>12, <1>15, <1>16 DEF LFFilesAt
<1>18. LFLocksAt' /\ LFNamespaceAt' BY <1>12, <1>14 DEF LFLocksAt, LFNamespaceAt
<1>19. LFNoTear' BY <1>4 DEF LFNoTear
<1> QED BY <1>13, <1>17, <1>18, <1>19 DEF LFInv

\* The ledger's file: its invariant holds in every initial state.
LEMMA LFInitInv == LFInit => LFInv
<1> SUFFICES ASSUME LFInit PROVE LFInv OBVIOUS
<1> DEFINE r == [pc |-> "idle", ev |-> NoLFEvent, bound |-> FALSE, ok |-> FALSE]
<1>1. r \in LFProcRec
  <2>1. "idle" \in LFPC BY DEF LFPC
  <2> QED BY <2>1, LFRecMade
<1>2. r.pc = "idle" /\ r.ev = NoLFEvent OBVIOUS
<1>3. ~r.bound OBVIOUS
<1>4. ~r.ok OBVIOUS
<1>5. lfProc = [p \in LFProcs |-> r] BY DEF LFInit
<1> HIDE DEF r
<1>6. lfProc \in [LFProcs -> LFProcRec] /\ \A p \in LFProcs : lfProc[p] = r BY <1>1, <1>5
<1>7. NoLFEvent \notin LFPlain BY LFAssumption
<1>8. lfFile = <<>> /\ Len(lfFile) = 0 /\ lfSynced = 0 /\ lfTears = 0 BY DEF LFInit
<1>9. LFTypeOK
  <2>1. lfFile \in Seq([ev : LFEvents, form : LFForm]) /\ lfSynced \in 0..Len(lfFile) BY <1>8
  <2>2. lfTears \in 0..LFTears BY <1>8, LFAssumption
  <2>3. lfHeld \in [LFFlocks -> LFProcs \cup {NoLFProc}] /\ lfLock \in [LFRuns -> {"none", "part", "whole"}] BY DEF LFInit
  <2>4. lfDir \in BOOLEAN BY DEF LFInit
  <2>5. lfAcked \subseteq LFEvents /\ lfBind \in {"none", "initializing", "established"}
        /\ lfRegistry \in {"none", "empty", "part", "whole", "torn"} /\ lfNamed \subseteq LFRuns
    BY DEF LFInit
  <2> QED BY <1>6, <2>1, <2>2, <2>3, <2>4, <2>5 DEF LFTypeOK, LFProcRec
<1>10. LFLocksAt BY <1>2, <1>6 DEF LFLocksAt, LFLock1, LFUnderLease
<1>11. LFNamespaceAt
  <2>1. LFNamesWhatIsThere BY DEF LFNamesWhatIsThere, LFInit
  <2>2. \A p \in LFProcs : LFSpace1(p) BY <1>2, <1>3, <1>6 DEF LFSpace1
  <2> QED BY <2>1, <2>2 DEF LFNamespaceAt
<1>12. LFFilesAt
  <2>1. LFClean BY <1>8 DEF LFClean
  <2>2. \A p \in LFProcs : LFFile1(p) BY <1>2, <1>4, <1>6, <1>7 DEF LFFile1
  <2>3. lfAcked = {} BY DEF LFInit
  <2> QED BY <1>2, <1>6, <1>7, <2>1, <2>2, <2>3 DEF LFFilesAt
<1>13. LFNoTear BY DEF LFNoTear, LFInit
<1> QED BY <1>9, <1>10, <1>11, <1>12, <1>13 DEF LFInv

\* Every step of the ledger's file keeps it.
LEMMA LFStepInv == LFInv /\ [LFNext]_lfVars => LFInv'
<1> SUFFICES ASSUME LFInv, [LFNext]_lfVars PROVE LFInv' OBVIOUS
<1>1. CASE UNCHANGED lfVars
  <2>1. UNCHANGED <<lfFile, lfSynced, lfBind, lfDir, lfRegistry, lfNamed, lfLock, lfAcked, lfHeld, lfProc, lfTears>>
    BY <1>1 DEF lfVars, lfDisk
  <2>2. LFTypeOK' BY <2>1 DEF LFInv, LFTypeOK
  <2>3. LFLocksAt' BY <2>1 DEF LFInv, LFLocksAt, LFLock1, LFRun
  <2>4. LFNamespaceAt' BY <2>1 DEF LFInv, LFNamespaceAt, LFNamesWhatIsThere, LFSpace1, LFRun
  <2>5. LFFilesAt' BY <2>1 DEF LFInv, LFFilesAt, LFFile1, LFClean, LFDurable, LFOnce, LFLineAt, LFAt
  <2>6. LFNoTear' BY <2>1 DEF LFInv, LFNoTear
  <2> QED BY <2>2, <2>3, <2>4, <2>5, <2>6 DEF LFInv
<1>2. CASE LFPowerLoss BY <1>2, LFPowerInv
<1>3. ASSUME NEW p \in LFProcs,
             \/ \E e \in LFEvents : appendOrVerify(p, e)
             \/ ensureNamespace(p) \/ bindParent(p) \/ openRunTransitionDirectory(p)
             \/ openRunTransitionRegistry(p) \/ establishNamespace(p)
             \/ acquireRunTransitionLease(p) \/ openRunTransitionLock(p) \/ appendRunTransitionIdentity(p)
             \/ AcquireRunTransition(p) \/ verifyRunTransitionLease(p)
             \/ withFileLock(p) \/ writeEvent(p) \/ syncEvent(p) \/ confirmEvent(p) \/ LFClose(p)
             \/ LFCrash(p) \/ LFTear(p)
      PROVE  LFInv'
  BY <1>3, LFCallInv, LFEnsureInv, LFBindInv, LFDirectoryInv, LFRegistryInv, LFEstablishInv, LFSelectInv, LFLockFileInv,
     LFIdentityInv, LFAcquireInv, LFVerifyInv, LFFileLockInv, LFWriteInv, LFSyncInv, LFConfirmInv, LFCloseInv, LFCrashInv, LFTearInv
<1> QED BY <1>1, <1>2, <1>3 DEF LFNext

\* The ledger's file: an acknowledged event is one line an fsync covered, whatever
\* crashed, retried or appended since; nothing of the namespace is named before it
\* is whole; only a torn write makes a file a process refuses; and two transitions
\* of a run are never between their lease and its close at once.
THEOREM AcknowledgedEventsStay == LFSpec => []LFSound
<1>1. LFInv => LFSound
  <2> SUFFICES ASSUME LFInv PROVE LFSound OBVIOUS
  <2>1. LFTypeOK /\ LFNamesWhatIsThere BY DEF LFInv, LFNamespaceAt
  <2>2. LFAcknowledgedStays
    <3> SUFFICES ASSUME NEW e \in lfAcked
                 PROVE  \E i \in LFAt(e) : /\ i <= lfSynced /\ LFAt(e) = {i}
                                           /\ lfFile[i].form = "whole" \/ (e \in LFPlain /\ lfFile[i].form = "glued" /\ lfTears > 0)
      BY DEF LFAcknowledgedStays
    <3>1. LFDurable(e) BY DEF LFInv, LFFilesAt
    <3> QED BY <3>1 DEF LFDurable, LFLineAt
  <2>3. LFOnlyATearRefuses BY DEF LFInv, LFFilesAt, LFNoTear, LFOnlyATearRefuses
  <2>4. LFOneTransitionAtATime
    <3> SUFFICES ASSUME NEW p \in LFProcs, NEW q \in LFProcs, p # q, lfProc[p].ev \in LFMoves, lfProc[q].ev \in LFMoves,
                        lfProc[p].pc \in {"ledger", "scan", "sync", "confirm", "close"},
                        lfProc[q].pc \in {"ledger", "scan", "sync", "confirm", "close"}, LFRun(p) = LFRun(q)
                 PROVE  FALSE
      BY DEF LFOneTransitionAtATime
    <3>1. lfHeld[LFRun(p)] = p /\ lfHeld[LFRun(q)] = q BY DEF LFInv, LFLocksAt, LFLock1, LFUnderLease
    <3> QED BY <3>1
  <2> QED BY <2>1, <2>2, <2>3, <2>4 DEF LFSound
<1> QED BY <1>1, LFInitInv, LFStepInv, PTL DEF LFSpec

-----------------------------------------------------------------------------
(* PlanHandoff: the copy of the plan, its record and its lock. *)

\* Where a run must hold the lease, and where it may.
PHUnderLease == {"recover", "validate", "lock", "record", "link", "unlink", "mkdir", "copy", "cleanup"}
PHEarly == {"idle", "slots", "lease", "recover", "validate", "lock"}

\* What a run finds of its own handoff where it is.
PHOwn(p, pc, lk, rc, dr, pl) ==
  /\ pl # "none" => dr
  /\ dr => rc = "named"
  /\ pc \in PHEarly => lk # "held"
  /\ pc \in {"validate", "lock"} => lk = "none" /\ rc = "none"
  /\ pc = "record" => lk = "held" /\ rc = "none"
  /\ pc = "link" => lk = "held" /\ rc = "temporary"
  /\ pc = "unlink" => lk = "held" /\ rc = "both"
  /\ pc \in {"mkdir", "copy"} => lk = "held" /\ rc = "named"
  /\ pc = "mkdir" => pl = "none"
  /\ pc = "copy" => dr /\ pl = "none"
  /\ p \notin PHExclusive /\ pc \in {"execute", "retake"} => lk = "held" /\ rc = "named" /\ dr /\ pl = "whole"

\* A copy part way needs a fault, and so does anything that outlives its run.
PHFaulted(pc, lk, rc, dr, pl, torn, faults) ==
  /\ pl = "part" => torn
  /\ torn => faults > 0
  /\ faults = 0 /\ pc \in PHEarly => lk = "none" /\ rc = "none" /\ ~dr

\* The slots a run holds where it is: an exclusive run takes them in order.
PHSlotsAt(p, pc, S) ==
  /\ pc = "idle" => S = {}
  /\ pc = "slots" /\ p \notin PHExclusive => S = {}
  /\ pc = "slots" /\ p \in PHExclusive => \E k \in 0..(PHSlots - 1) : S = 1..k
  /\ pc \notin {"idle", "slots"} => S # {} /\ (p \in PHExclusive => S = PHSlot)

PHLeaseAt ==
  /\ \A p \in PHRuns : phPC[p] \in PHUnderLease => phLease = p
  /\ phLease # NoPHRun => phPC[phLease] \in PHUnderLease \cup {"execute"}
  /\ \A p \in PHExclusive : phPC[p] = "execute" => phLease = p
  /\ \A p \in PHExclusive : phPC[p] \notin {"lock", "record", "link", "unlink", "mkdir", "copy", "retake"}

PHFilesAt == \A p \in PHRuns : PHOwn(p, phPC[p], phLock[p], phRec[p], phDir[p], phPlan[p])
PHFaultsAt == \A p \in PHRuns : PHFaulted(phPC[p], phLock[p], phRec[p], phDir[p], phPlan[p], phTorn, phFaults)
PHSlotsHeld == \A p \in PHRuns : PHSlotsAt(p, phPC[p], PHSlotsOf(p))

\* The inductive invariant of the handoff.
PHInv == PHTypeOK /\ PHLeaseAt /\ PHFilesAt /\ PHFaultsAt /\ PHSlotsHeld

\* The handoff: its invariant holds in every initial state.
LEMMA PHInitInv == PHInit => PHInv
<1> SUFFICES ASSUME PHInit PROVE PHInv OBVIOUS
<1> USE PHAssumption DEF PHInit
<1>1. PHTypeOK
  <2>1. phPC \in [PHRuns -> PHPC] /\ phSlot \in [PHSlot -> PHRuns \cup {NoPHRun}] BY DEF PHPC
  <2>2. phLease \in PHRuns \cup {NoPHRun} /\ phFaults \in 0..PHFaults OBVIOUS
  <2>5. phTorn \in BOOLEAN OBVIOUS
  <2>3. phLock \in [PHRuns -> {"none", "left", "held"}] /\ phRec \in [PHRuns -> {"none", "temporary", "both", "named"}] OBVIOUS
  <2>4. phDir \in [PHRuns -> BOOLEAN] /\ phPlan \in [PHRuns -> {"none", "part", "whole"}] OBVIOUS
  <2> QED BY <2>1, <2>2, <2>3, <2>4, <2>5 DEF PHTypeOK
<1>2. PHLeaseAt BY DEF PHLeaseAt, PHUnderLease
<1>3. PHFilesAt BY DEF PHFilesAt, PHOwn, PHEarly
<1>4. PHFaultsAt BY DEF PHFaultsAt, PHFaulted, PHEarly
<1>5. PHSlotsHeld BY DEF PHSlotsHeld, PHSlotsAt, PHSlotsOf
<1> QED BY <1>1, <1>2, <1>3, <1>4, <1>5 DEF PHInv

\* What the invariant says of one run, for the steps that move that run only.
PHRunOK(p) ==
  /\ PHOwn(p, phPC[p], phLock[p], phRec[p], phDir[p], phPlan[p])
  /\ PHFaulted(phPC[p], phLock[p], phRec[p], phDir[p], phPlan[p], phTorn, phFaults)

\* A run that stays where it is and whose files nobody touches stays sound: the
\* faults, once there, do not go, and a copy torn elsewhere is a fault too.
LEMMA PHOthersStay ==
  ASSUME PHInv, NEW p \in PHRuns, PHRunOK(p)',
         \A r \in PHRuns : r # p => /\ phPC'[r] = phPC[r] /\ phLock'[r] = phLock[r] /\ phRec'[r] = phRec[r]
                                    /\ phDir'[r] = phDir[r] /\ phPlan'[r] = phPlan[r],
         phFaults' = phFaults \/ phFaults' > 0, phTorn => phTorn'
  PROVE  PHFilesAt' /\ PHFaultsAt'
<1>1. phFaults \in Nat /\ (phFaults' = phFaults \/ phFaults' > 0) BY PHAssumption DEF PHInv, PHTypeOK
<1>2. phTorn' => phFaults' > 0 BY DEF PHRunOK, PHFaulted
<1>3. ASSUME NEW r \in PHRuns PROVE PHOwn(r, phPC[r], phLock[r], phRec[r], phDir[r], phPlan[r])'
  <2>1. CASE r = p BY <2>1 DEF PHRunOK
  <2>2. CASE r # p
    <3>1. PHOwn(r, phPC[r], phLock[r], phRec[r], phDir[r], phPlan[r]) BY DEF PHInv, PHFilesAt
    <3> QED BY <2>2, <3>1 DEF PHOwn
  <2> QED BY <2>1, <2>2
<1>4. ASSUME NEW r \in PHRuns PROVE PHFaulted(phPC[r], phLock[r], phRec[r], phDir[r], phPlan[r], phTorn, phFaults)'
  <2>1. CASE r = p BY <2>1 DEF PHRunOK
  <2>2. CASE r # p
    <3>1. PHFaulted(phPC[r], phLock[r], phRec[r], phDir[r], phPlan[r], phTorn, phFaults) BY DEF PHInv, PHFaultsAt
    <3> QED BY <1>1, <1>2, <2>2, <3>1 DEF PHFaulted
  <2> QED BY <2>1, <2>2
<1> QED BY <1>3, <1>4 DEF PHFilesAt, PHFaultsAt

\* The slots are those of the states where nobody takes or leaves one, and whoever
\* moves does not cross the doors of the slots.
LEMMA PHSlotsKept ==
  ASSUME PHInv, NEW p \in PHRuns, phSlot' = phSlot,
         \A r \in PHRuns : r # p => phPC'[r] = phPC[r],
         PHSlotsAt(p, phPC'[p], PHSlotsOf(p))
  PROVE  PHSlotsHeld'
<1>1. \A r \in PHRuns : PHSlotsOf(r)' = PHSlotsOf(r) BY DEF PHSlotsOf
<1>2. \A r \in PHRuns : PHSlotsAt(r, phPC[r], PHSlotsOf(r)) BY DEF PHInv, PHSlotsHeld
<1>3. ASSUME NEW r \in PHRuns PROVE PHSlotsAt(r, phPC'[r], PHSlotsOf(r)')
  <2>1. CASE r = p BY <1>1, <2>1
  <2>2. CASE r # p BY <1>1, <1>2, <2>2
  <2> QED BY <2>1, <2>2
<1> QED BY <1>3 DEF PHSlotsHeld, PHSlotsAt

\* A run that leaves lets its slots and the lease go, and nobody else's.
LEMMA PHLetsGo ==
  ASSUME PHInv, NEW p \in PHRuns, PHLetGo(p)
  PROVE  PHLeaseAt' /\ PHSlotsHeld' /\ phPC' \in [PHRuns -> PHPC] /\ phSlot' \in [PHSlot -> PHRuns \cup {NoPHRun}]
         /\ phLease' \in PHRuns \cup {NoPHRun} /\ phPC'[p] = "idle" /\ \A r \in PHRuns : r # p => phPC'[r] = phPC[r]
<1> USE DEF PHInv, PHTypeOK, PHLetGo, PHGo
<1>1. phPC'[p] = "idle" /\ \A r \in PHRuns : r # p => phPC'[r] = phPC[r] OBVIOUS
<1>2. phPC' \in [PHRuns -> PHPC] BY DEF PHPC
<1>3. phSlot' \in [PHSlot -> PHRuns \cup {NoPHRun}] OBVIOUS
<1>4. phLease' \in PHRuns \cup {NoPHRun} OBVIOUS
<1>5. PHLeaseAt' BY <1>1, PHAssumption DEF PHLeaseAt, PHUnderLease
<1>6. PHSlotsOf(p)' = {} BY PHAssumption DEF PHSlotsOf
<1>7. \A r \in PHRuns : r # p => PHSlotsOf(r)' = PHSlotsOf(r) BY PHAssumption DEF PHSlotsOf
<1>8. \A r \in PHRuns : PHSlotsAt(r, phPC[r], PHSlotsOf(r)) BY DEF PHSlotsHeld
<1>9. ASSUME NEW r \in PHRuns PROVE PHSlotsAt(r, phPC'[r], PHSlotsOf(r)')
  <2>1. CASE r = p BY <1>1, <1>6, <2>1 DEF PHSlotsAt
  <2>2. CASE r # p BY <1>1, <1>7, <1>8, <2>2
  <2> QED BY <2>1, <2>2
<1>10. PHSlotsHeld' BY <1>9 DEF PHSlotsHeld, PHSlotsAt
<1> QED BY <1>1, <1>2, <1>3, <1>4, <1>5, <1>10

\* A run that fails, files included: only its lock changes, from held to left.
LEMMA PHFailInv ==
  ASSUME PHInv, NEW p \in PHRuns, PHFail(p), PHFaulted("idle", PHUnlocked(p)[p], phRec[p], phDir[p], phPlan[p], phTorn, phFaults)
  PROVE  PHInv'
<1> USE DEF PHFail
<1>1. /\ PHLeaseAt' /\ PHSlotsHeld' /\ phPC' \in [PHRuns -> PHPC] /\ phSlot' \in [PHSlot -> PHRuns \cup {NoPHRun}]
      /\ phLease' \in PHRuns \cup {NoPHRun} /\ phPC'[p] = "idle" /\ \A r \in PHRuns : r # p => phPC'[r] = phPC[r]
  BY PHLetsGo
<1>2. PHTypeOK' BY <1>1 DEF PHInv, PHTypeOK, PHUnlocked
<1>3. phLock'[p] = PHUnlocked(p)[p] /\ phLock'[p] # "held" /\ \A r \in PHRuns : r # p => phLock'[r] = phLock[r]
  BY DEF PHUnlocked, PHInv, PHTypeOK
<1>4. PHOwn(p, "idle", phLock'[p], phRec[p], phDir[p], phPlan[p]) BY <1>3 DEF PHInv, PHFilesAt, PHOwn
<1>5. PHRunOK(p)' BY <1>1, <1>3, <1>4 DEF PHRunOK, PHFaulted, PHOwn
<1>6. PHFilesAt' /\ PHFaultsAt' BY <1>1, <1>3, <1>5, PHOthersStay
<1> QED BY <1>1, <1>2, <1>6 DEF PHInv

\* A run starts.
LEMMA PHStartInv == ASSUME PHInv, NEW p \in PHRuns, PHStart(p) PROVE PHInv'
<1> USE DEF PHStart, PHGo, PHAt, phFiles
<1>1. PHTypeOK' BY DEF PHInv, PHTypeOK, PHPC
<1>2. phPC'[p] = "slots" /\ \A r \in PHRuns : r # p => phPC'[r] = phPC[r] BY DEF PHInv, PHTypeOK
<1>3. PHLeaseAt' BY <1>2, PHAssumption DEF PHInv, PHLeaseAt, PHUnderLease, PHTypeOK
<1>4. PHRunOK(p)'
  BY <1>2 DEF PHInv, PHFilesAt, PHFaultsAt, PHRunOK, PHOwn, PHFaulted, PHEarly
<1>5. PHFilesAt' /\ PHFaultsAt' BY <1>2, <1>4, PHOthersStay
<1>6. PHSlotsOf(p) = {} BY DEF PHInv, PHSlotsHeld, PHSlotsAt
<1>7. {} = 1..0 /\ 0 \in 0..(PHSlots - 1) BY PHAssumption
<1>8. PHSlotsAt(p, "slots", PHSlotsOf(p)) BY <1>6, <1>7 DEF PHSlotsAt
<1>9. PHSlotsHeld' BY <1>2, <1>8, PHSlotsKept
<1> QED BY <1>1, <1>3, <1>5, <1>9 DEF PHInv

\* A run takes a slot: one is enough for a worktree run, an exclusive run takes
\* the next in order until it has them all.
LEMMA PHSlotsInv == ASSUME PHInv, NEW p \in PHRuns, acquireExecutionSlots(p) PROVE PHInv'
<1> USE DEF PHAt
<1>1. PICK s \in PHNextSlots(p) :
         /\ phSlot' = [phSlot EXCEPT ![s] = p]
         /\ IF p \in PHExclusive /\ PHSlotsOf(p) \cup {s} # PHSlot THEN UNCHANGED phPC ELSE PHGo(p, "lease")
  BY DEF acquireExecutionSlots
<1>2. s \in PHSlot /\ phSlot[s] = NoPHRun BY DEF PHNextSlots, PHFreeSlots
<1>3. phPC[p] = "slots" /\ UNCHANGED <<phLease, phLock, phRec, phDir, phPlan, phTorn, phFaults>>
  BY DEF acquireExecutionSlots, phFiles
<1>4. phPC'[p] \in {"slots", "lease"} /\ \A r \in PHRuns : r # p => phPC'[r] = phPC[r]
  BY <1>1, <1>3 DEF PHInv, PHTypeOK, PHGo
<1>5. PHTypeOK' BY <1>1, <1>2, <1>3, PHAssumption DEF PHInv, PHTypeOK, PHPC, PHGo
<1>6. PHLeaseAt' BY <1>3, <1>4, PHAssumption DEF PHInv, PHLeaseAt, PHUnderLease, PHTypeOK
<1>7. PHRunOK(p)'
  BY <1>3, <1>4 DEF PHInv, PHFilesAt, PHFaultsAt, PHRunOK, PHOwn, PHFaulted, PHEarly
<1>8. PHFilesAt' /\ PHFaultsAt' BY <1>3, <1>4, <1>7, PHOthersStay
<1>9. PHSlotsOf(p)' = PHSlotsOf(p) \cup {s} BY <1>1, <1>2, PHAssumption DEF PHSlotsOf, PHInv, PHTypeOK
<1>10. \A r \in PHRuns : r # p => PHSlotsOf(r)' = PHSlotsOf(r)
  BY <1>1, <1>2, PHAssumption DEF PHSlotsOf, PHInv, PHTypeOK
<1>11. \A r \in PHRuns : PHSlotsAt(r, phPC[r], PHSlotsOf(r)) BY DEF PHInv, PHSlotsHeld
<1>12. PHSlotsAt(p, phPC'[p], PHSlotsOf(p)')
  <2>1. CASE p \notin PHExclusive
    <3>1. phPC'[p] = "lease" BY <1>1, <2>1 DEF PHGo, PHInv, PHTypeOK
    <3> QED BY <1>9, <2>1, <3>1 DEF PHSlotsAt
  <2>2. CASE p \in PHExclusive
    <3>1. PICK k \in 0..(PHSlots - 1) : PHSlotsOf(p) = 1..k BY <1>3, <1>11, <2>2 DEF PHSlotsAt
    <3>2. \A t \in 1..(s - 1) : phSlot[t] = p BY <2>2 DEF PHNextSlots
    <3>3. s \notin 1..k BY <1>2, <3>1, PHAssumption DEF PHSlotsOf
    <3>4. \A t \in 1..(s - 1) : t \in 1..k
      BY <1>2, <3>1, <3>2, PHAssumption DEF PHSlotsOf, PHSlot
    <3>5. s = k + 1
      <4>1. s \in Nat /\ s >= 1 /\ k \in Nat BY <1>2, <3>1, PHAssumption DEF PHSlot
      <4>2. s > k BY <3>3, <4>1
      <4>3. s - 1 >= 1 => s - 1 <= k BY <3>4, <4>1
      <4> QED BY <4>1, <4>2, <4>3
    <3>6. PHSlotsOf(p)' = 1..(k + 1) BY <1>9, <3>1, <3>5, PHAssumption
    <3>7. CASE PHSlotsOf(p) \cup {s} # PHSlot
      <4>1. phPC'[p] = "slots" BY <1>1, <1>3, <2>2, <3>7
      <4>2. k + 1 # PHSlots BY <1>9, <3>6, <3>7 DEF PHSlot
      <4>3. k + 1 \in 0..(PHSlots - 1) BY <4>2, PHAssumption
      <4> QED BY <2>2, <3>6, <4>1, <4>3 DEF PHSlotsAt
    <3>8. CASE PHSlotsOf(p) \cup {s} = PHSlot
      <4>1. phPC'[p] = "lease" BY <1>1, <3>8 DEF PHGo, PHInv, PHTypeOK
      <4> QED BY <1>2, <1>9, <3>8, <4>1 DEF PHSlotsAt
    <3> QED BY <3>7, <3>8
  <2> QED BY <2>1, <2>2
<1>13. ASSUME NEW r \in PHRuns PROVE PHSlotsAt(r, phPC'[r], PHSlotsOf(r)')
  <2>1. CASE r = p BY <1>12, <2>1
  <2>2. CASE r # p BY <1>4, <1>10, <1>11, <2>2
  <2> QED BY <2>1, <2>2
<1>14. PHSlotsHeld' BY <1>13 DEF PHSlotsHeld, PHSlotsAt
<1> QED BY <1>5, <1>6, <1>8, <1>14 DEF PHInv

\* The lease is taken, before the recovery or again for the cleanup.
LEMMA PHLeaseInv == ASSUME PHInv, NEW p \in PHRuns, acquireRepositoryExecutionLease(p) PROVE PHInv'
<1> USE DEF acquireRepositoryExecutionLease, PHGo, PHAt, phFiles
<1>1. PHTypeOK' BY DEF PHInv, PHTypeOK, PHPC
<1>2. (phPC[p] = "lease" /\ phPC'[p] = "recover") \/ (phPC[p] = "retake" /\ phPC'[p] = "cleanup")
  BY DEF PHInv, PHTypeOK
<1>3. \A r \in PHRuns : r # p => phPC'[r] = phPC[r] BY DEF PHInv, PHTypeOK
<1>4. PHLeaseAt'
  <2>1. \A r \in PHRuns : phPC[r] \notin PHUnderLease BY PHAssumption DEF PHInv, PHLeaseAt
  <2>2. \A r \in PHExclusive : phPC[r] # "execute" BY PHAssumption DEF PHInv, PHLeaseAt
  <2> QED BY <1>2, <1>3, <2>1, <2>2, PHAssumption DEF PHInv, PHLeaseAt, PHUnderLease
<1>5. PHRunOK(p)'
  BY <1>2 DEF PHInv, PHFilesAt, PHFaultsAt, PHRunOK, PHOwn, PHFaulted, PHEarly, PHLeaseAt
<1>6. PHFilesAt' /\ PHFaultsAt' BY <1>3, <1>5, PHOthersStay
<1>7. PHSlotsAt(p, phPC'[p], PHSlotsOf(p)) BY <1>2 DEF PHInv, PHSlotsHeld, PHSlotsAt
<1>8. PHSlotsHeld' BY <1>3, <1>7, PHSlotsKept
<1> QED BY <1>1, <1>4, <1>6, <1>8 DEF PHInv

\* A wait that is cancelled.
LEMMA PHCancelledInv == ASSUME PHInv, NEW p \in PHRuns, PHCancelled(p) PROVE PHInv'
<1>1. PHFail(p) /\ phPC[p] \in {"slots", "lease"} BY DEF PHCancelled, PHAt
<1>2. phLock[p] # "held" BY <1>1 DEF PHInv, PHFilesAt, PHOwn, PHEarly
<1>3. PHUnlocked(p)[p] = phLock[p] BY <1>2 DEF PHUnlocked
<1>4. PHFaulted("idle", PHUnlocked(p)[p], phRec[p], phDir[p], phPlan[p], phTorn, phFaults)
  BY <1>1, <1>3 DEF PHInv, PHFaultsAt, PHFaulted, PHEarly
<1> QED BY <1>1, <1>4, PHFailInv

\* What recovery or cleanup removes next, of a handoff nobody lives in or its own.
LEMMA PHRemoves ==
  ASSUME PHInv, NEW r \in PHRuns, PHRemoveNext(r), phPlan[r] # "part",
         phPC[r] \in PHEarly \cup {"cleanup"} \/ r \in PHExclusive \/ phLock[r] # "held",
         phPC[r] \notin {"record", "link", "unlink", "mkdir", "copy"},
         UNCHANGED <<phPC, phSlot, phLease, phTorn, phFaults>>
  PROVE  PHInv'
<1>1. PHTypeOK' BY DEF PHInv, PHTypeOK, PHRemoveNext
<1>2. PHLeaseAt' BY DEF PHInv, PHLeaseAt
<1>3. PHSlotsHeld' BY DEF PHInv, PHSlotsHeld, PHSlotsAt, PHSlotsOf
<1>4. \A q \in PHRuns : q # r => /\ phLock'[q] = phLock[q] /\ phRec'[q] = phRec[q] /\ phDir'[q] = phDir[q] /\ phPlan'[q] = phPlan[q]
  BY DEF PHRemoveNext, PHInv, PHTypeOK
<1>5. PHOwn(r, phPC[r], phLock[r], phRec[r], phDir[r], phPlan[r]) /\ PHFaulted(phPC[r], phLock[r], phRec[r], phDir[r], phPlan[r], phTorn, phFaults)
  BY DEF PHInv, PHFilesAt, PHFaultsAt
<1>6. /\ phLock'[r] \in {phLock[r], "none"} /\ phPlan'[r] \in {phPlan[r], "none"}
      /\ phPlan'[r] # "none" => UNCHANGED <<phDir, phRec>>
      /\ phDir'[r] => phDir[r] /\ UNCHANGED phRec
      /\ phRec[r] = "none" => phRec'[r] = "none"
  BY <1>5 DEF PHRemoveNext, PHInv, PHTypeOK, PHOwn
<1>7. PHRunOK(r)'
  <2>1. PHOwn(r, phPC[r], phLock[r], phRec[r], phDir[r], phPlan[r])'
    <3>1. phPC[r] \in {"execute", "retake"} => r \in PHExclusive \/ phLock[r] # "held" BY DEF PHEarly
    <3> QED BY <1>5, <1>6, <3>1 DEF PHOwn, PHEarly
  <2>2. PHFaulted(phPC[r], phLock[r], phRec[r], phDir[r], phPlan[r], phTorn, phFaults)' BY <1>5, <1>6 DEF PHFaulted
  <2> QED BY <2>1, <2>2 DEF PHRunOK
<1>8. PHFilesAt' /\ PHFaultsAt' BY <1>4, <1>7, PHOthersStay
<1> QED BY <1>1, <1>2, <1>3, <1>8 DEF PHInv

\* A copy part way in the repository names a fault.
LEMMA PHRefusedFaults ==
  ASSUME PHInv, NEW r \in PHRuns, PHRefused(r)
  PROVE  phTorn /\ phFaults > 0
BY DEF PHInv, PHFaultsAt, PHFaulted, PHRefused

\* One step of the recovery, or its end, or the end of the run that tried.
LEMMA PHRecoverInv == ASSUME PHInv, NEW p \in PHRuns, recoverExecutionPlanHandoffs(p) PROVE PHInv'
<1> DEFINE dead == {r \in PHRuns : PHLeft(r) /\ ~executionPlanHandoffLive(r)}
<1>1. phPC[p] = "recover" /\ phLease = p
  BY DEF recoverExecutionPlanHandoffs, PHAt, PHInv, PHLeaseAt, PHUnderLease
<1>2. CASE \E r \in dead : PHRefused(r) /\ PHFail(p)
  <2>1. phTorn /\ phFaults > 0 BY <1>2, PHRefusedFaults
  <2>2. PHFaulted(phPC[p], phLock[p], phRec[p], phDir[p], phPlan[p], phTorn, phFaults) BY DEF PHInv, PHFaultsAt
  <2>3. phFaults \in Nat BY PHAssumption DEF PHInv, PHTypeOK
  <2>4. PHFaulted("idle", PHUnlocked(p)[p], phRec[p], phDir[p], phPlan[p], phTorn, phFaults) BY <2>1, <2>2, <2>3 DEF PHFaulted
  <2> QED BY <1>2, <2>4, PHFailInv
<1>3. CASE \E r \in dead : ~PHRefused(r) /\ PHRemoveNext(r) /\ UNCHANGED <<phPC, phSlot, phLease, phTorn, phFaults>>
  <2>1. PICK r \in dead : ~PHRefused(r) /\ PHRemoveNext(r) /\ UNCHANGED <<phPC, phSlot, phLease, phTorn, phFaults>> BY <1>3
  <2>2. r \in PHRuns /\ phLock[r] # "held" BY <2>1 DEF executionPlanHandoffLive
  <2>3. phPlan[r] # "part" BY <2>1, <2>2 DEF PHRefused, PHInv, PHFilesAt, PHOwn
  <2>4. phPC[r] \notin {"record", "link", "unlink", "mkdir", "copy"} BY <2>2 DEF PHInv, PHFilesAt, PHOwn
  <2> QED BY <2>1, <2>2, <2>3, <2>4, PHRemoves
<1>4. CASE dead = {} /\ PHGo(p, "validate") /\ UNCHANGED <<phSlot, phLease, phFiles, phTorn, phFaults>>
  <2> USE <1>4 DEF PHGo, phFiles
  <2>1. PHTypeOK' BY DEF PHInv, PHTypeOK, PHPC
  <2>2. phPC'[p] = "validate" /\ \A r \in PHRuns : r # p => phPC'[r] = phPC[r] BY DEF PHInv, PHTypeOK
  <2>3. PHLeaseAt' BY <1>1, <2>2, PHAssumption DEF PHInv, PHLeaseAt, PHUnderLease
  <2>4. phLock[p] # "held" BY <1>1 DEF PHInv, PHFilesAt, PHOwn, PHEarly
  <2>5. phLock[p] = "none" /\ phRec[p] = "none"
    <3>1. ~PHLeft(p) BY <2>4 DEF executionPlanHandoffLive
    <3> QED BY <3>1 DEF PHLeft
  <2>6. PHRunOK(p)'
    BY <1>1, <2>2, <2>5 DEF PHInv, PHFilesAt, PHFaultsAt, PHRunOK, PHOwn, PHFaulted, PHEarly
  <2>7. PHFilesAt' /\ PHFaultsAt' BY <2>2, <2>6, PHOthersStay
  <2>8. PHSlotsAt(p, phPC'[p], PHSlotsOf(p)) BY <1>1, <2>2 DEF PHInv, PHSlotsHeld, PHSlotsAt
  <2>9. PHSlotsHeld' BY <2>2, <2>8, PHSlotsKept
  <2> QED BY <2>1, <2>3, <2>7, <2>9 DEF PHInv
<1> QED BY <1>2, <1>3, <1>4 DEF recoverExecutionPlanHandoffs

\* The clean-tree check, which may refuse, and the way on to the build.
LEMMA PHValidateInv == ASSUME PHInv, NEW p \in PHRuns, validatePinnedIdentity(p) PROVE PHInv'
<1>1. phPC[p] = "validate" BY DEF validatePinnedIdentity, PHAt
<1>2. PHOwn(p, phPC[p], phLock[p], phRec[p], phDir[p], phPlan[p]) /\ PHFaulted(phPC[p], phLock[p], phRec[p], phDir[p], phPlan[p], phTorn, phFaults)
  BY DEF PHInv, PHFilesAt, PHFaultsAt
<1>3. CASE ~PHClean /\ PHFail(p)
  <2>1. PHUnlocked(p)[p] = phLock[p] BY <1>1, <1>2 DEF PHUnlocked, PHOwn
  <2>2. PHFaulted("idle", PHUnlocked(p)[p], phRec[p], phDir[p], phPlan[p], phTorn, phFaults)
    BY <1>1, <1>2, <2>1 DEF PHFaulted, PHEarly
  <2> QED BY <1>3, <2>2, PHFailInv
<1>4. CASE /\ PHGo(p, IF p \in PHExclusive THEN "execute" ELSE "lock")
           /\ UNCHANGED <<phSlot, phLease, phFiles, phTorn, phFaults>>
  <2> USE <1>4 DEF PHGo, phFiles
  <2>1. PHTypeOK' BY DEF PHInv, PHTypeOK, PHPC
  <2>2. phPC'[p] = (IF p \in PHExclusive THEN "execute" ELSE "lock") /\ \A r \in PHRuns : r # p => phPC'[r] = phPC[r]
    BY DEF PHInv, PHTypeOK
  <2>3. phLease = p BY <1>1 DEF PHInv, PHLeaseAt, PHUnderLease
  <2>4. PHLeaseAt' BY <1>1, <2>2, <2>3, PHAssumption DEF PHInv, PHLeaseAt, PHUnderLease
  <2>5. PHRunOK(p)' BY <1>1, <1>2, <2>2 DEF PHRunOK, PHOwn, PHFaulted, PHEarly
  <2>6. PHFilesAt' /\ PHFaultsAt' BY <2>2, <2>5, PHOthersStay
  <2>7. PHSlotsAt(p, phPC'[p], PHSlotsOf(p)) BY <1>1, <2>2 DEF PHInv, PHSlotsHeld, PHSlotsAt
  <2>8. PHSlotsHeld' BY <2>2, <2>7, PHSlotsKept
  <2> QED BY <2>1, <2>4, <2>6, <2>8 DEF PHInv
<1> QED BY <1>3, <1>4 DEF validatePinnedIdentity

\* A run that moves on under the lease, from one place that holds it to another.
LEMMA PHMoves ==
  ASSUME PHInv, NEW p \in PHRuns, NEW pc \in PHPC, PHGo(p, pc), UNCHANGED <<phSlot, phLease>>,
         phPC[p] \in PHUnderLease \cup {"execute"}, phPC[p] \notin {"idle", "slots"},
         pc \in PHUnderLease \cup {"execute", "retake"}, pc \in PHUnderLease => phLease = p,
         phLease = p => pc # "retake",
         p \in PHExclusive => pc = "cleanup"
  PROVE  PHLeaseAt' /\ PHSlotsHeld' /\ phPC' \in [PHRuns -> PHPC] /\ phPC'[p] = pc /\ \A r \in PHRuns : r # p => phPC'[r] = phPC[r]
<1> USE DEF PHGo
<1>1. phPC'[p] = pc /\ \A r \in PHRuns : r # p => phPC'[r] = phPC[r] BY DEF PHInv, PHTypeOK
<1>2. phPC' \in [PHRuns -> PHPC] BY DEF PHInv, PHTypeOK
<1>3. PHLeaseAt' BY <1>1, PHAssumption DEF PHInv, PHTypeOK, PHLeaseAt, PHUnderLease
<1>4. pc \notin {"idle", "slots"} BY DEF PHUnderLease
<1>5. PHSlotsAt(p, phPC[p], PHSlotsOf(p)) BY DEF PHInv, PHSlotsHeld
<1>6. PHSlotsAt(p, phPC'[p], PHSlotsOf(p)) BY <1>1, <1>4, <1>5 DEF PHSlotsAt
<1>7. PHSlotsHeld' BY <1>1, <1>6, PHSlotsKept
<1> QED BY <1>1, <1>2, <1>3, <1>7

\* The facts of one run, taken from the invariant.
LEMMA PHRunFacts ==
  ASSUME PHInv, NEW p \in PHRuns
  PROVE  /\ PHOwn(p, phPC[p], phLock[p], phRec[p], phDir[p], phPlan[p])
         /\ PHFaulted(phPC[p], phLock[p], phRec[p], phDir[p], phPlan[p], phTorn, phFaults)
         /\ phPC[p] \in PHUnderLease => phLease = p
         /\ phPC[p] \in {"lock", "record", "link", "unlink", "mkdir", "copy", "retake"} => p \notin PHExclusive
         /\ phPC[p] = "execute" /\ p \in PHExclusive => phLease = p
         /\ phFaults \in Nat
BY PHAssumption DEF PHInv, PHFilesAt, PHFaultsAt, PHLeaseAt, PHTypeOK

\* The lock of the record is made and held.
LEMMA PHLockInv == ASSUME PHInv, NEW p \in PHRuns, lockExecutionPlanHandoff(p) PROVE PHInv'
<1> USE DEF lockExecutionPlanHandoff, PHAt
<1>1. /\ PHLeaseAt' /\ PHSlotsHeld' /\ phPC' \in [PHRuns -> PHPC] /\ phPC'[p] = "record"
      /\ \A r \in PHRuns : r # p => phPC'[r] = phPC[r]
  BY PHRunFacts, PHMoves DEF PHUnderLease, PHPC
<1>2. PHTypeOK' BY <1>1 DEF PHInv, PHTypeOK
<1>3. phLock'[p] = "held" /\ \A r \in PHRuns : r # p => phLock'[r] = phLock[r] BY DEF PHInv, PHTypeOK
<1>4. PHRunOK(p)' BY <1>1, <1>3, PHRunFacts DEF PHRunOK, PHOwn, PHFaulted, PHEarly
<1>5. PHFilesAt' /\ PHFaultsAt' BY <1>1, <1>3, <1>4, PHOthersStay
<1> QED BY <1>1, <1>2, <1>5 DEF PHInv

\* The record: its temporary name, its name beside it, its name alone.
LEMMA PHOwnerInv == ASSUME PHInv, NEW p \in PHRuns, writeExecutionPlanHandoffOwner(p) PROVE PHInv'
<1>1. PICK rec \in {"temporary", "both", "named"}, pc \in {"link", "unlink", "mkdir"} :
         /\ phRec' = [phRec EXCEPT ![p] = rec] /\ PHGo(p, pc)
         /\ \/ phPC[p] = "record" /\ rec = "temporary" /\ pc = "link"
            \/ phPC[p] = "link" /\ rec = "both" /\ pc = "unlink"
            \/ phPC[p] = "unlink" /\ rec = "named" /\ pc = "mkdir"
  BY DEF writeExecutionPlanHandoffOwner, PHAt
<1>2. UNCHANGED <<phSlot, phLease, phLock, phDir, phPlan, phTorn, phFaults>> BY DEF writeExecutionPlanHandoffOwner
<1>3. phPC[p] \in {"record", "link", "unlink"} BY <1>1
<1>4. /\ PHLeaseAt' /\ PHSlotsHeld' /\ phPC' \in [PHRuns -> PHPC] /\ phPC'[p] = pc
      /\ \A r \in PHRuns : r # p => phPC'[r] = phPC[r]
  <2>1. pc \in PHPC /\ pc \in PHUnderLease BY DEF PHPC, PHUnderLease
  <2>2. phPC[p] \in PHUnderLease /\ phLease = p /\ p \notin PHExclusive BY <1>3, PHRunFacts DEF PHUnderLease
  <2> QED BY <1>1, <1>2, <1>3, <2>1, <2>2, PHMoves
<1>5. PHTypeOK' BY <1>1, <1>2, <1>4 DEF PHInv, PHTypeOK
<1>6. phRec'[p] = rec /\ \A r \in PHRuns : r # p => phRec'[r] = phRec[r] BY <1>1 DEF PHInv, PHTypeOK
<1>7. PHRunOK(p)' BY <1>1, <1>2, <1>4, <1>6, PHRunFacts DEF PHRunOK, PHOwn, PHFaulted, PHEarly
<1>8. PHFilesAt' /\ PHFaultsAt' BY <1>2, <1>4, <1>6, <1>7, PHOthersStay
<1> QED BY <1>4, <1>5, <1>8 DEF PHInv

\* A record that could not be written is taken away again.
LEMMA PHAbandonInv == ASSUME PHInv, NEW p \in PHRuns, abandonExecutionPlanHandoff(p) PROVE PHInv'
<1> USE DEF abandonExecutionPlanHandoff, PHAt
<1>1. /\ PHLeaseAt' /\ PHSlotsHeld' /\ phPC' \in [PHRuns -> PHPC] /\ phSlot' \in [PHSlot -> PHRuns \cup {NoPHRun}]
      /\ phLease' \in PHRuns \cup {NoPHRun} /\ phPC'[p] = "idle" /\ \A r \in PHRuns : r # p => phPC'[r] = phPC[r]
  BY PHLetsGo
<1>2. phFaults \in 0..PHFaults /\ phFaults' = phFaults + 1 /\ phFaults < PHFaults BY DEF PHInv, PHTypeOK
<1>3. phFaults' \in 0..PHFaults /\ phFaults' > 0 BY <1>2, PHAssumption
<1>4. PHTypeOK' BY <1>1, <1>3 DEF PHInv, PHTypeOK
<1>5. /\ phLock'[p] = "none" /\ phRec'[p] = "none"
      /\ \A r \in PHRuns : r # p => phLock'[r] = phLock[r] /\ phRec'[r] = phRec[r]
  BY DEF PHInv, PHTypeOK
<1>6. ~phDir[p] /\ phPlan[p] = "none" BY PHRunFacts DEF PHOwn
<1>7. PHRunOK(p)' BY <1>1, <1>3, <1>5, <1>6 DEF PHRunOK, PHOwn, PHFaulted, PHEarly
<1>8. PHFilesAt' /\ PHFaultsAt' BY <1>1, <1>3, <1>5, <1>7, PHOthersStay
<1> QED BY <1>1, <1>4, <1>8 DEF PHInv

\* The directory, and then the copy.
LEMMA PHPrepareInv == ASSUME PHInv, NEW p \in PHRuns, prepareExecutionPlan(p) PROVE PHInv'
<1> USE DEF PHAt
<1>1. CASE /\ PHAt(p, "mkdir") /\ ~phDir[p] /\ phDir' = [phDir EXCEPT ![p] = TRUE] /\ PHGo(p, "copy")
           /\ UNCHANGED <<phSlot, phLease, phLock, phRec, phPlan, phTorn, phFaults>>
  <2> USE <1>1
  <2>1. /\ PHLeaseAt' /\ PHSlotsHeld' /\ phPC' \in [PHRuns -> PHPC] /\ phPC'[p] = "copy"
        /\ \A r \in PHRuns : r # p => phPC'[r] = phPC[r]
    BY PHRunFacts, PHMoves DEF PHUnderLease, PHPC
  <2>2. PHTypeOK' BY <2>1 DEF PHInv, PHTypeOK
  <2>3. phDir'[p] /\ \A r \in PHRuns : r # p => phDir'[r] = phDir[r] BY DEF PHInv, PHTypeOK
  <2>4. PHRunOK(p)' BY <2>1, <2>3, PHRunFacts DEF PHRunOK, PHOwn, PHFaulted, PHEarly
  <2>5. PHFilesAt' /\ PHFaultsAt' BY <2>1, <2>3, <2>4, PHOthersStay
  <2> QED BY <2>1, <2>2, <2>5 DEF PHInv
<1>2. CASE /\ PHAt(p, "copy") /\ phPlan' = [phPlan EXCEPT ![p] = "whole"] /\ PHGo(p, "execute")
           /\ UNCHANGED <<phSlot, phLease, phLock, phRec, phDir, phTorn, phFaults>>
  <2> USE <1>2
  <2>1. /\ PHLeaseAt' /\ PHSlotsHeld' /\ phPC' \in [PHRuns -> PHPC] /\ phPC'[p] = "execute"
        /\ \A r \in PHRuns : r # p => phPC'[r] = phPC[r]
    BY PHRunFacts, PHMoves DEF PHUnderLease, PHPC
  <2>2. PHTypeOK' BY <2>1 DEF PHInv, PHTypeOK
  <2>3. phPlan'[p] = "whole" /\ \A r \in PHRuns : r # p => phPlan'[r] = phPlan[r] BY DEF PHInv, PHTypeOK
  <2>4. PHRunOK(p)' BY <2>1, <2>3, PHRunFacts DEF PHRunOK, PHOwn, PHFaulted, PHEarly
  <2>5. PHFilesAt' /\ PHFaultsAt' BY <2>1, <2>3, <2>4, PHOthersStay
  <2> QED BY <2>1, <2>2, <2>5 DEF PHInv
<1> QED BY <1>1, <1>2 DEF prepareExecutionPlan

\* The copy may be left part way, by a failure or by a death.
LEMMA PHTornFacts ==
  ASSUME PHInv, NEW p \in PHRuns, phFaults < PHFaults, phFaults' = phFaults + 1,
         \/ UNCHANGED <<phPlan, phTorn>>
         \/ phPC[p] = "copy" /\ phPlan' = [phPlan EXCEPT ![p] = "part"] /\ phTorn' = TRUE
  PROVE  /\ phFaults' \in 0..PHFaults /\ phFaults' > 0
         /\ phPlan' \in [PHRuns -> {"none", "part", "whole"}] /\ phTorn' \in BOOLEAN /\ phTorn => phTorn'
         /\ phPlan'[p] = "part" => phTorn'
         /\ phPlan'[p] # "none" => phDir[p]
         /\ \A r \in PHRuns : r # p => phPlan'[r] = phPlan[r]
<1>1. phFaults' \in 0..PHFaults /\ phFaults' > 0 BY PHAssumption DEF PHInv, PHTypeOK
<1>2. CASE UNCHANGED <<phPlan, phTorn>>
  <2>1. phPlan'[p] = "part" => phTorn' BY <1>2, PHRunFacts DEF PHFaulted
  <2>2. phPlan'[p] # "none" => phDir[p] BY <1>2, PHRunFacts DEF PHOwn
  <2> QED BY <1>1, <1>2, <2>1, <2>2 DEF PHInv, PHTypeOK
<1>3. CASE phPC[p] = "copy" /\ phPlan' = [phPlan EXCEPT ![p] = "part"] /\ phTorn' = TRUE
  <2>1. phDir[p] BY <1>3, PHRunFacts DEF PHOwn
  <2> QED BY <1>1, <1>3, <2>1 DEF PHInv, PHTypeOK
<1> QED BY <1>2, <1>3

\* A preparation that fails goes to the cleanup of the build.
LEMMA PHPrepareFailsInv == ASSUME PHInv, NEW p \in PHRuns, prepareExecutionPlanFails(p) PROVE PHInv'
<1> USE DEF prepareExecutionPlanFails, PHAt
<1>1. /\ PHLeaseAt' /\ PHSlotsHeld' /\ phPC' \in [PHRuns -> PHPC] /\ phPC'[p] = "cleanup"
      /\ \A r \in PHRuns : r # p => phPC'[r] = phPC[r]
  BY PHRunFacts, PHMoves DEF PHUnderLease, PHPC
<1>2. /\ phFaults' \in 0..PHFaults /\ phFaults' > 0
      /\ phPlan' \in [PHRuns -> {"none", "part", "whole"}] /\ phTorn' \in BOOLEAN /\ phTorn => phTorn'
      /\ phPlan'[p] = "part" => phTorn'
      /\ phPlan'[p] # "none" => phDir[p]
      /\ \A r \in PHRuns : r # p => phPlan'[r] = phPlan[r]
  BY PHTornFacts
<1>3. PHTypeOK' BY <1>1, <1>2 DEF PHInv, PHTypeOK
<1>4. PHRunOK(p)' BY <1>1, <1>2, PHRunFacts DEF PHRunOK, PHOwn, PHFaulted, PHEarly
<1>5. PHFilesAt' /\ PHFaultsAt' BY <1>1, <1>2, <1>4, PHOthersStay
<1> QED BY <1>1, <1>3, <1>5 DEF PHInv

\* The lease is let go before the build.
LEMMA PHReleaseInv == ASSUME PHInv, NEW p \in PHRuns, releaseLeaseAfterWorktreeSetup(p) PROVE PHInv'
<1> USE DEF releaseLeaseAfterWorktreeSetup, PHAt, phFiles
<1>1. PHTypeOK' BY DEF PHInv, PHTypeOK
<1>2. PHLeaseAt' BY PHAssumption DEF PHInv, PHLeaseAt, PHUnderLease
<1>3. PHFilesAt' /\ PHFaultsAt' BY DEF PHInv, PHFilesAt, PHFaultsAt
<1>4. PHSlotsHeld' BY DEF PHInv, PHSlotsHeld, PHSlotsOf
<1> QED BY <1>1, <1>2, <1>3, <1>4 DEF PHInv

\* The builder exits.
LEMMA PHExitsInv == ASSUME PHInv, NEW p \in PHRuns, PHExits(p) PROVE PHInv'
<1> DEFINE pc == IF phLease = p THEN "cleanup" ELSE "retake"
<1>1. phPC[p] = "execute" /\ PHGo(p, pc) /\ UNCHANGED <<phSlot, phLease, phLock, phRec, phDir, phPlan, phTorn, phFaults>>
  BY DEF PHExits, PHAt, phFiles
<1>2. /\ PHLeaseAt' /\ PHSlotsHeld' /\ phPC' \in [PHRuns -> PHPC] /\ phPC'[p] = pc
      /\ \A r \in PHRuns : r # p => phPC'[r] = phPC[r]
  BY <1>1, PHRunFacts, PHMoves DEF PHUnderLease, PHPC
<1>3. PHTypeOK' BY <1>1, <1>2 DEF PHInv, PHTypeOK
<1>4. PHRunOK(p)' BY <1>1, <1>2, PHRunFacts DEF PHRunOK, PHOwn, PHFaulted, PHEarly
<1>5. PHFilesAt' /\ PHFaultsAt' BY <1>1, <1>2, <1>4, PHOthersStay
<1> QED BY <1>2, <1>3, <1>5 DEF PHInv

\* The cleanup of a build, one removal at a time, its end, or its refusal.
LEMMA PHCleanupInv == ASSUME PHInv, NEW p \in PHRuns, cleanupExecutionPlan(p) PROVE PHInv'
<1>1. phPC[p] = "cleanup" BY DEF cleanupExecutionPlan, PHAt
<1>2. CASE PHRefused(p) /\ PHFail(p)
  <2>1. phTorn /\ phFaults > 0 BY <1>2, PHRefusedFaults
  <2>2. PHFaulted("idle", PHUnlocked(p)[p], phRec[p], phDir[p], phPlan[p], phTorn, phFaults)
    BY <2>1, PHRunFacts DEF PHFaulted
  <2> QED BY <1>2, <2>2, PHFailInv
<1>3. CASE ~PHRefused(p) /\ PHRemoveNext(p) /\ UNCHANGED <<phPC, phSlot, phLease, phTorn, phFaults>>
  <2>1. phPlan[p] # "part" BY <1>3, PHRunFacts DEF PHRefused, PHOwn
  <2> QED BY <1>1, <1>3, <2>1, PHRemoves
<1>4. CASE ~PHLeft(p) /\ ~phDir[p] /\ PHLetGo(p) /\ UNCHANGED <<phFiles, phTorn, phFaults>>
  <2> USE <1>4 DEF phFiles
  <2>1. /\ PHLeaseAt' /\ PHSlotsHeld' /\ phPC' \in [PHRuns -> PHPC] /\ phSlot' \in [PHSlot -> PHRuns \cup {NoPHRun}]
        /\ phLease' \in PHRuns \cup {NoPHRun} /\ phPC'[p] = "idle" /\ \A r \in PHRuns : r # p => phPC'[r] = phPC[r]
    BY PHLetsGo
  <2>2. PHTypeOK' BY <2>1 DEF PHInv, PHTypeOK
  <2>3. PHRunOK(p)' BY <2>1, PHRunFacts DEF PHRunOK, PHOwn, PHFaulted, PHEarly, PHLeft
  <2>4. PHFilesAt' /\ PHFaultsAt' BY <2>1, <2>3, PHOthersStay
  <2> QED BY <2>1, <2>2, <2>4 DEF PHInv
<1> QED BY <1>2, <1>3, <1>4 DEF cleanupExecutionPlan

\* The process dies.
LEMMA PHDiesInv == ASSUME PHInv, NEW p \in PHRuns, PHDies(p) PROVE PHInv'
<1> USE DEF PHDies, PHAt
<1>1. /\ PHLeaseAt' /\ PHSlotsHeld' /\ phPC' \in [PHRuns -> PHPC] /\ phSlot' \in [PHSlot -> PHRuns \cup {NoPHRun}]
      /\ phLease' \in PHRuns \cup {NoPHRun} /\ phPC'[p] = "idle" /\ \A r \in PHRuns : r # p => phPC'[r] = phPC[r]
  BY PHLetsGo
<1>2. /\ phFaults' \in 0..PHFaults /\ phFaults' > 0
      /\ phPlan' \in [PHRuns -> {"none", "part", "whole"}] /\ phTorn' \in BOOLEAN /\ phTorn => phTorn'
      /\ phPlan'[p] = "part" => phTorn'
      /\ phPlan'[p] # "none" => phDir[p]
      /\ \A r \in PHRuns : r # p => phPlan'[r] = phPlan[r]
  BY PHTornFacts
<1>3. phLock' = PHUnlocked(p) /\ UNCHANGED <<phRec, phDir>> OBVIOUS
<1>4. phLock'[p] # "held" /\ \A r \in PHRuns : r # p => phLock'[r] = phLock[r] BY <1>3 DEF PHUnlocked, PHInv, PHTypeOK
<1>5. PHTypeOK' BY <1>1, <1>2, <1>3 DEF PHInv, PHTypeOK, PHUnlocked
<1>6. PHRunOK(p)' BY <1>1, <1>2, <1>3, <1>4, PHRunFacts DEF PHRunOK, PHOwn, PHFaulted, PHEarly
<1>7. PHFilesAt' /\ PHFaultsAt' BY <1>1, <1>2, <1>3, <1>4, <1>6, PHOthersStay
<1> QED BY <1>1, <1>5, <1>7 DEF PHInv

\* Every step of the handoff keeps its invariant.
LEMMA PHStepInv == PHInv /\ [PHNext]_phVars => PHInv'
<1> SUFFICES ASSUME PHInv, [PHNext]_phVars PROVE PHInv' OBVIOUS
<1>1. CASE UNCHANGED phVars
  <2>1. UNCHANGED <<phPC, phSlot, phLease, phLock, phRec, phDir, phPlan, phTorn, phFaults>> BY <1>1 DEF phVars, phFiles
  <2>2. PHTypeOK' BY <2>1 DEF PHInv, PHTypeOK
  <2>3. PHLeaseAt' BY <2>1 DEF PHInv, PHLeaseAt
  <2>4. PHFilesAt' /\ PHFaultsAt' BY <2>1 DEF PHInv, PHFilesAt, PHFaultsAt
  <2>5. PHSlotsHeld' BY <2>1 DEF PHInv, PHSlotsHeld, PHSlotsOf
  <2> QED BY <2>2, <2>3, <2>4, <2>5 DEF PHInv
<1>2. CASE PHNext
  <2>1. PICK p \in PHRuns :
          \/ PHStart(p) \/ acquireExecutionSlots(p) \/ acquireRepositoryExecutionLease(p) \/ PHCancelled(p)
          \/ recoverExecutionPlanHandoffs(p) \/ validatePinnedIdentity(p)
          \/ lockExecutionPlanHandoff(p) \/ writeExecutionPlanHandoffOwner(p) \/ abandonExecutionPlanHandoff(p)
          \/ prepareExecutionPlan(p) \/ prepareExecutionPlanFails(p)
          \/ releaseLeaseAfterWorktreeSetup(p) \/ PHExits(p) \/ cleanupExecutionPlan(p)
          \/ PHDies(p)
    BY <1>2 DEF PHNext
  <2> QED BY <2>1, PHStartInv, PHSlotsInv, PHLeaseInv, PHCancelledInv, PHRecoverInv, PHValidateInv, PHLockInv, PHOwnerInv,
             PHAbandonInv, PHPrepareInv, PHPrepareFailsInv, PHReleaseInv, PHExitsInv, PHCleanupInv, PHDiesInv
<1> QED BY <1>1, <1>2

\* When all that started wait, somebody can take what it waits for: who holds the
\* lease does not wait, and the slots are taken in order by those who want them all.
LEMMA PHNobodyBlocks == PHInv => PHNobodyBlocksAll
<1> SUFFICES ASSUME PHInv, NEW p \in PHRuns, phPC[p] # "idle",
                    \A q \in PHRuns : phPC[q] # "idle" => phPC[q] \in {"slots", "lease", "retake"}
             PROVE  \E q \in PHRuns : phPC[q] # "idle" /\ PHCanTake(q)
  BY DEF PHNobodyBlocksAll, PHAt
<1>1. phLease = NoPHRun BY DEF PHInv, PHTypeOK, PHLeaseAt, PHUnderLease
<1>2. CASE \E q \in PHRuns : phPC[q] \in {"lease", "retake"}
  BY <1>1, <1>2 DEF PHCanTake, PHAt
<1>3. CASE \A q \in PHRuns : phPC[q] \in {"idle", "slots"}
  <2>1. \A q \in PHRuns : PHSlotsAt(q, phPC[q], PHSlotsOf(q)) BY DEF PHInv, PHSlotsHeld
  <2>2. 1 \in PHSlot BY PHAssumption DEF PHSlot
  <2>3. CASE phSlot[1] = NoPHRun
    <3>1. 1 \in PHFreeSlots BY <2>2, <2>3 DEF PHFreeSlots
    <3>2. 1 \in PHNextSlots(p)
      <4>1. \A t \in 1..(1 - 1) : phSlot[t] = p OBVIOUS
      <4> QED BY <3>1, <4>1 DEF PHNextSlots
    <3> QED BY <1>3, <3>2 DEF PHCanTake, PHAt
  <2>4. CASE phSlot[1] # NoPHRun
    <3>1. PICK q \in PHRuns : phSlot[1] = q BY <2>2, <2>4 DEF PHInv, PHTypeOK
    <3>2. 1 \in PHSlotsOf(q) BY <2>2, <3>1 DEF PHSlotsOf
    <3>3. phPC[q] = "slots" /\ q \in PHExclusive BY <1>3, <2>1, <3>2 DEF PHSlotsAt
    <3>4. PICK k \in 0..(PHSlots - 1) : PHSlotsOf(q) = 1..k BY <2>1, <3>3 DEF PHSlotsAt
    <3>5. k \in Nat /\ k + 1 \in PHSlot /\ k + 1 \notin 1..k BY <3>4, PHAssumption DEF PHSlot
    <3>6. phSlot[k + 1] = NoPHRun
      <4>1. SUFFICES ASSUME NEW o \in PHRuns, phSlot[k + 1] = o PROVE FALSE BY <3>5 DEF PHInv, PHTypeOK
      <4>2. k + 1 \in PHSlotsOf(o) BY <3>5, <4>1 DEF PHSlotsOf
      <4>3. o # q BY <3>4, <3>5, <4>2
      <4>4. phPC[o] = "slots" /\ o \in PHExclusive BY <1>3, <2>1, <4>2 DEF PHSlotsAt
      <4>5. PICK j \in 0..(PHSlots - 1) : PHSlotsOf(o) = 1..j BY <2>1, <4>4 DEF PHSlotsAt
      <4>6. 1 \in 1..j BY <3>5, <4>2, <4>5
      <4>7. phSlot[1] = o BY <4>5, <4>6 DEF PHSlotsOf
      <4> QED BY <3>1, <4>3, <4>7
    <3>7. \A t \in 1..((k + 1) - 1) : phSlot[t] = q
      <4>1. 1..((k + 1) - 1) = 1..k BY <3>5
      <4> QED BY <3>4, <4>1 DEF PHSlotsOf
    <3>8. k + 1 \in PHNextSlots(q) BY <3>3, <3>5, <3>6, <3>7 DEF PHNextSlots, PHFreeSlots
    <3> QED BY <3>3, <3>8 DEF PHCanTake, PHAt
  <2> QED BY <2>3, <2>4
<1> QED BY <1>2, <1>3

\* The handoff: while its builder runs nobody's recovery touches a run's copy, its
\* record or its lock; whatever died, a directory or a copy is named by a record;
\* only a copy left part way blocks a repository; a run in the repository itself
\* builds alone; and the waits for slots and lease never block one another.
THEOREM TheHandoffStays == PHSpec => []PHSound
<1>1. PHInv => PHSound
  <2> SUFFICES ASSUME PHInv PROVE PHSound OBVIOUS
  <2>1. PHTypeOK BY DEF PHInv
  <2>2. PHLiveCopyStays BY DEF PHInv, PHFilesAt, PHOwn, PHLiveCopyStays
  <2>3. PHNothingUnowned BY DEF PHInv, PHFilesAt, PHOwn, PHNothingUnowned
  <2>4. PHOnlyATornCopyBlocks BY DEF PHInv, PHFaultsAt, PHFaulted, PHOnlyATornCopyBlocks, PHRefused, PHLeft, PHEarly
  <2>5. PHBuildsOnSlots BY DEF PHInv, PHSlotsHeld, PHSlotsAt, PHBuildsOnSlots
  <2>6. PHNobodyBlocksAll BY PHNobodyBlocks
  <2> QED BY <2>1, <2>2, <2>3, <2>4, <2>5, <2>6 DEF PHSound
<1> QED BY <1>1, PHInitInv, PHStepInv, PTL DEF PHSpec

-----------------------------------------------------------------------------
(* ActivityStore: the numbers, the logs and the forgetting of activity. *)

ASPCs == {"closed", "made", "found", "fresh", "check", "open", "registry", "sequence", "load", "create", "header", "anchor first",
          "append", "write", "anchor", "read", "remove", "remove anchor"}
\* Where the process is that has the store.
ASH == IF asLock = NoASProc THEN "closed" ELSE asPC[asLock]
ASOutside == {"closed", "made", "found"}
ASQuietAt == {"closed", "check", "fresh"}
ASBeginsAt == {"registry", "sequence", "create", "header", "anchor first"}

ASRec == [run : ASRuns, ev : ASEvents, ord : 1..ASMaxNext]
ASTypes ==
  /\ asWitness \in {"none", "empty", "whole"} /\ asRegistry \in SUBSET ASRuns
  /\ asSeq \in [there : BOOLEAN, next : 0..ASMaxNext, runs : SUBSET ASRuns]
  /\ asLog \in [ASRuns -> [at : {"none", "part", "whole"}, recs : Seq(ASRec), torn : BOOLEAN]]
  /\ asAnchor \in [ASRuns -> 0..NoASAnchor]
  /\ asLock \in ASProcs \cup {NoASProc} /\ asPC \in [ASProcs -> ASPCs]
  /\ asMem \in [next : 0..ASMaxNext, runs : SUBSET ASRuns, cache : [ASRuns -> {"none", "ok", "err"}], replaced : SUBSET {"registry", "sequence"}]
  /\ asOp = NoASOp \/ asOp \in [kind : {"append", "read", "forget"}, run : ASRuns, ev : ASEvents]
  /\ asShown \in SUBSET ASRec /\ asForgot \in SUBSET ASRuns /\ asCut \in BOOLEAN /\ asFaults \in 0..ASMaxFaults

\* One process has the store; one made the witness, and until it wrote it nobody
\* opens the store.
ASLocks ==
  /\ \A p \in ASProcs : asPC[p] \notin ASOutside <=> asLock = p
  /\ \A p, q \in ASProcs : asPC[p] \in {"made", "fresh"} /\ asPC[q] \in {"made", "fresh"} => p = q
  /\ asWitness = "none" => \A p \in ASProcs : asPC[p] = "closed"
  /\ asWitness = "whole" => \A p \in ASProcs : asPC[p] \notin {"made", "fresh"}
  /\ asWitness = "empty" /\ ~asCut => \E p \in ASProcs : asPC[p] \in {"made", "fresh"}

ASUnmade ==
  asWitness # "whole" => /\ asSeq.next = 0 /\ asRegistry = {} /\ asShown = {} /\ asForgot = {}
                         /\ ASH \in ASQuietAt /\ \A r \in ASRuns : asLog[r] = NoASLog

\* What the process that has the store remembers of the files.
ASMemory ==
  /\ ASH \in ASQuietAt => asMem = NoASMem
  /\ ASH \notin ASQuietAt => /\ asRegistry \subseteq asMem.runs
                             /\ asMem.next <= asSeq.next /\ asSeq.next <= asMem.next + 1
                             /\ "sequence" \notin asMem.replaced => asMem.next = asSeq.next
  /\ ASH \in {"sequence", "create", "header", "anchor first"} => asRegistry = asMem.runs

ASOps ==
  /\ ASH \in ASQuietAt \cup {"open"} => asOp = NoASOp
  /\ ASH \notin ASQuietAt \cup {"open", "registry", "sequence"} => asOp # NoASOp
  /\ ASH \in ASBeginsAt \cup {"load"} => asOp.kind # "forget"

\* A log that is begun is nobody's yet.
ASBeginning ==
  ASH \in ASBeginsAt /\ asOp # NoASOp =>
    /\ asOp.run \in asMem.runs /\ asOp.run \notin asForgot /\ asMem.cache[asOp.run] = "none"
    /\ \A x \in asShown : x.run # asOp.run
    /\ asLog[asOp.run].at = (IF ASH = "header" THEN "part" ELSE IF ASH = "anchor first" THEN "whole" ELSE "none")
    /\ asLog[asOp.run].recs = <<>> /\ ~asLog[asOp.run].torn

ASWorking ==
  /\ \A r \in ASRuns : asMem.cache[r] = "ok" => asLog[r].at \in {"none", "whole"}
  /\ ASH \in {"append", "write", "anchor", "read"} => asLog[asOp.run].at = "whole"
  /\ ASH = "remove anchor" => asLog[asOp.run].at = "none"
  /\ ASH = "write" => /\ "sequence" \notin asMem.replaced /\ asMem.next > 0
                      /\ \A x \in asShown : x.ord < asMem.next
                      /\ \A r \in ASRuns : \A i \in DOMAIN asLog[r].recs : asLog[r].recs[i].ord < asMem.next
                      /\ \A i \in DOMAIN asLog[asOp.run].recs : asLog[asOp.run].recs[i].ev # asOp.ev

\* The records of a log: its own, each once, in the order of their ordinals, and
\* none beyond the sequence.
ASLogOK(r, l, next) ==
  /\ l.at # "whole" => l.recs = <<>>
  /\ l.at = "none" => l = NoASLog
  /\ \A i \in DOMAIN l.recs : l.recs[i].run = r /\ i <= l.recs[i].ord /\ l.recs[i].ord <= next
  /\ \A i, j \in DOMAIN l.recs : i < j => l.recs[i].ord < l.recs[j].ord /\ l.recs[i].ev # l.recs[j].ev
ASLogs == \A r \in ASRuns : ASLogOK(r, asLog[r], asSeq.next) /\ (asLog[r].at # "none" => r \in asRegistry)

ASAllShown ==
  /\ \A x \in asShown : x.run \in asRegistry /\ x.ord <= asSeq.next
  /\ asForgot \subseteq asRegistry

\* Nothing was cut short: the sequence names the registry, and every log but the
\* one that is being begun loads.
ASWhole ==
  ~asCut =>
    /\ asWitness = "whole" /\ ASH \notin {"registry", "sequence"} => asSeq.there /\ asSeq.runs = asRegistry
    /\ \A r \in ASRuns : asLog[r].at # "none" /\ ~(ASH \in {"header", "anchor first"} /\ asOp.run = r) =>
         asLog[r].at = "whole" /\ ~asLog[r].torn /\ asAnchor[r] <= Len(asLog[r].recs)

\* The inductive invariant of the store.
ASInv ==
  /\ ASTypes /\ ASLocks /\ ASUnmade /\ ASMemory /\ ASOps /\ ASBeginning /\ ASWorking /\ ASLogs /\ ASAllShown /\ ASWhole
  /\ ASOrdinalsAreOnce /\ ASShownStays /\ ASForgottenStaysGone

\* The values that stand for nothing.
LEMMA ASNothing ==
  /\ NoASMem \in [next : 0..ASMaxNext, runs : SUBSET ASRuns, cache : [ASRuns -> {"none", "ok", "err"}], replaced : SUBSET {"registry", "sequence"}]
  /\ NoASMem.next = 0 /\ NoASMem.runs = {} /\ NoASMem.replaced = {} /\ \A r \in ASRuns : NoASMem.cache[r] = "none"
  /\ NoASOp.kind = "none" /\ NoASLog.at = "none" /\ NoASLog.recs = <<>> /\ ~NoASLog.torn /\ NoASAnchor \in 0..NoASAnchor
<1>1. ASMaxNext \in Nat BY ASAssumption
<1>2. NoASMem \in [next : 0..ASMaxNext, runs : SUBSET ASRuns, cache : [ASRuns -> {"none", "ok", "err"}], replaced : SUBSET {"registry", "sequence"}]
  BY <1>1 DEF NoASMem
<1>3. NoASMem.next = 0 /\ NoASMem.runs = {} /\ NoASMem.replaced = {} /\ \A r \in ASRuns : NoASMem.cache[r] = "none"
  BY DEF NoASMem
<1>4. NoASOp.kind = "none" /\ NoASLog.at = "none" /\ NoASLog.recs = <<>> BY DEF NoASOp, NoASLog
<1>5. ~NoASLog.torn BY DEF NoASLog
<1>6. NoASAnchor \in 0..NoASAnchor BY <1>1 DEF NoASAnchor
<1> QED BY <1>2, <1>3, <1>4, <1>5, <1>6

\* Who is neither outside nor closed has the store.
LEMMA ASHeld ==
  ASSUME ASInv, NEW p \in ASProcs, asPC[p] \notin ASOutside
  PROVE  asLock = p /\ ASH = asPC[p]
BY ASAssumption DEF ASInv, ASLocks, ASH

\* The process that has the store goes on.
LEMMA ASGoesOn ==
  ASSUME ASInv, NEW p \in ASProcs, asPC[p] \notin ASOutside, NEW to \in ASPCs, ASTo(p, to), UNCHANGED asLock,
         to \notin ASOutside \cup {"fresh"}, asCut => asCut',
         IF asPC[p] = "fresh" THEN asWitness' = "whole" ELSE asWitness' = asWitness
  PROVE  /\ asLock = p /\ ASH = asPC[p] /\ ASH' = to /\ asPC' \in [ASProcs -> ASPCs] /\ ASLocks'
         /\ asLock' \in ASProcs \cup {NoASProc}
<1>1. asLock = p /\ ASH = asPC[p] /\ p # NoASProc BY ASHeld, ASAssumption
<1>2. asPC \in [ASProcs -> ASPCs] BY DEF ASInv, ASTypes
<1>3. asPC'[p] = to /\ asPC' \in [ASProcs -> ASPCs] /\ \A q \in ASProcs : q # p => asPC'[q] = asPC[q] BY <1>2 DEF ASTo
<1>4. ASH' = to BY <1>1, <1>3 DEF ASH
<1>5. ASLocks BY DEF ASInv
<1>6. \A q \in ASProcs : asPC'[q] \notin ASOutside <=> asLock' = q BY <1>1, <1>3, <1>5 DEF ASLocks
<1>7. \A q, o \in ASProcs : asPC'[q] \in {"made", "fresh"} /\ asPC'[o] \in {"made", "fresh"} => q = o
  BY <1>3, <1>5 DEF ASLocks, ASOutside
<1>8. asWitness' # "none" /\ (asWitness' = "whole" => \A q \in ASProcs : asPC'[q] \notin {"made", "fresh"})
  BY <1>3, <1>5 DEF ASLocks, ASOutside
<1>9. asWitness' = "empty" /\ ~asCut' => \E q \in ASProcs : asPC'[q] \in {"made", "fresh"}
  BY <1>3, <1>5 DEF ASLocks, ASOutside
<1>10. ASLocks' BY <1>6, <1>7, <1>8, <1>9 DEF ASLocks
<1> QED BY <1>1, <1>3, <1>4, <1>10

\* The files, with what was shown of them and what was forgotten.
ASAllFiles == ASLogs /\ ASAllShown /\ ASOrdinalsAreOnce /\ ASShownStays /\ ASForgottenStaysGone
LEMMA ASFilesKept ==
  ASSUME ASInv, UNCHANGED <<asRegistry, asSeq, asLog, asShown, asForgot>>
  PROVE  ASAllFiles'
<1>1. ASLogs' BY DEF ASInv, ASLogs
<1>2. ASAllShown' BY DEF ASInv, ASAllShown
<1>3. ASOrdinalsAreOnce' BY DEF ASInv, ASOrdinalsAreOnce, ASWritten
<1>4. ASShownStays' BY DEF ASInv, ASShownStays
<1>5. ASForgottenStaysGone' BY DEF ASInv, ASForgottenStaysGone
<1> QED BY <1>1, <1>2, <1>3, <1>4, <1>5 DEF ASAllFiles

\* A log that stays as it is stays so for an ordinal that grows.
LEMMA ASFilesGrow ==
  ASSUME ASInv, UNCHANGED <<asLog, asShown, asForgot>>, asSeq'.next \in Nat, asSeq'.next >= asSeq.next, asRegistry \subseteq asRegistry'
  PROVE  ASAllFiles'
<1>0. asSeq.next \in Nat BY ASAssumption DEF ASInv, ASTypes
<1>1. ASLogs'
  <2> SUFFICES ASSUME NEW r \in ASRuns PROVE ASLogOK(r, asLog[r], asSeq'.next) /\ (asLog[r].at # "none" => r \in asRegistry')
    BY DEF ASLogs
  <2>1. ASLogOK(r, asLog[r], asSeq.next) /\ (asLog[r].at # "none" => r \in asRegistry) BY DEF ASInv, ASLogs
  <2>2. asLog[r].recs \in Seq(ASRec) BY DEF ASInv, ASTypes
  <2>3. \A i \in DOMAIN asLog[r].recs : asLog[r].recs[i].ord \in Nat
    <3>1. \A i \in DOMAIN asLog[r].recs : asLog[r].recs[i] \in ASRec BY <2>2
    <3>2. \A x \in ASRec : x.ord \in Nat BY ASAssumption DEF ASRec
    <3> QED BY <3>1, <3>2
  <2> QED BY <1>0, <2>1, <2>3 DEF ASLogOK
<1>2. ASAllShown'
  <2>1. \A x \in asShown : x.ord \in Nat BY DEF ASInv, ASTypes, ASRec
  <2> QED BY <1>0, <2>1 DEF ASInv, ASAllShown
<1>3. ASOrdinalsAreOnce' BY DEF ASInv, ASOrdinalsAreOnce, ASWritten
<1>4. ASShownStays' BY DEF ASInv, ASShownStays
<1>5. ASForgottenStaysGone' BY DEF ASInv, ASForgottenStaysGone
<1> QED BY <1>1, <1>2, <1>3, <1>4, <1>5 DEF ASAllFiles

\* The witness is found or made.
LEMMA ASWitnessInv == ASSUME ASInv, NEW p \in ASProcs, ASWitness(p) PROVE ASInv'
<1> DEFINE to == IF asWitness = "none" THEN "made" ELSE "found"
<1>1. /\ asPC[p] = "closed" /\ asPC' = [asPC EXCEPT ![p] = to] /\ asWitness' = (IF asWitness = "none" THEN "empty" ELSE asWitness)
      /\ UNCHANGED <<asRegistry, asSeq, asLog, asAnchor, asLock, asMem, asOp, asShown, asForgot, asCut, asFaults>>
  BY DEF ASWitness, ASAt, ASTo, asGhosts
<1>2. ASTypes /\ ASLocks BY DEF ASInv
<1>3. asPC'[p] = to /\ asPC' \in [ASProcs -> ASPCs] /\ \A q \in ASProcs : q # p => asPC'[q] = asPC[q]
  BY <1>1, <1>2 DEF ASTypes, ASPCs
<1>4. asLock # p BY <1>1, <1>2 DEF ASLocks, ASOutside
<1>5. ASH' = ASH BY <1>1, <1>2, <1>3, <1>4 DEF ASH, ASTypes
<1>6. ASTypes' BY <1>1, <1>2, <1>3 DEF ASTypes
<1>7. ASLocks'
  <2>1. \A q \in ASProcs : asPC'[q] \notin ASOutside <=> asLock' = q BY <1>1, <1>2, <1>3, <1>4 DEF ASLocks, ASOutside
  <2>2. \A q, o \in ASProcs : asPC'[q] \in {"made", "fresh"} /\ asPC'[o] \in {"made", "fresh"} => q = o
    BY <1>1, <1>2, <1>3 DEF ASLocks
  <2>3. asWitness' # "none" BY <1>1
  <2>4. asWitness' = "whole" => \A q \in ASProcs : asPC'[q] \notin {"made", "fresh"} BY <1>1, <1>2, <1>3 DEF ASLocks
  <2>5. asWitness' = "empty" /\ ~asCut' => \E q \in ASProcs : asPC'[q] \in {"made", "fresh"} BY <1>1, <1>2, <1>3 DEF ASLocks, ASTypes
  <2> QED BY <2>1, <2>2, <2>3, <2>4, <2>5 DEF ASLocks
<1>8. ASUnmade' BY <1>1, <1>5 DEF ASInv, ASUnmade
<1>9. ASMemory' /\ ASOps' BY <1>1, <1>5 DEF ASInv, ASMemory, ASOps
<1>10. ASBeginning' BY <1>1, <1>5 DEF ASInv, ASBeginning
<1>11. ASWorking' BY <1>1, <1>5 DEF ASInv, ASWorking
<1>12. ASWhole'
  <2>1. asWitness' = "whole" => asWitness = "whole" BY <1>1
  <2> QED BY <1>1, <1>5, <2>1 DEF ASInv, ASWhole
<1>13. ASAllFiles' BY <1>1, ASFilesKept
<1> QED BY <1>6, <1>7, <1>8, <1>9, <1>10, <1>11, <1>12, <1>13 DEF ASInv, ASAllFiles

\* The flock is taken, or its process is refused.
LEMMA ASTakeLockInv == ASSUME ASInv, NEW p \in ASProcs, ASTakeLock(p) PROVE ASInv'
<1>1. asPC[p] \in {"made", "found"} /\ UNCHANGED <<asWitness, asRegistry, asSeq, asLog, asAnchor, asMem, asOp, asShown, asForgot, asFaults>>
  BY DEF ASTakeLock, asFiles
<1>2. ASTypes /\ ASLocks /\ asLock # p /\ p # NoASProc BY <1>1, ASAssumption DEF ASInv, ASLocks, ASOutside
<1>3. PICK to \in {"fresh", "check", "closed"} : /\ asPC' = [asPC EXCEPT ![p] = to]
        /\ IF asLock = NoASProc THEN asLock' = p /\ to = (IF asPC[p] = "made" THEN "fresh" ELSE "check") /\ asCut' = asCut
                                ELSE asLock' = asLock /\ to = "closed" /\ asCut' = (asCut \/ asPC[p] = "made")
  BY DEF ASTakeLock, ASTo, ASAt
<1>4. asPC'[p] = to /\ asPC' \in [ASProcs -> ASPCs] /\ \A q \in ASProcs : q # p => asPC'[q] = asPC[q]
  BY <1>2, <1>3 DEF ASTypes, ASPCs
<1>5. asCut => asCut' BY <1>3
<1>6. asCut' \in BOOLEAN BY <1>2, <1>3 DEF ASTypes
<1>7. ASTypes' BY <1>1, <1>2, <1>3, <1>4, <1>6 DEF ASTypes
<1>8. ASLocks'
  <2>1. \A q \in ASProcs : asPC'[q] \notin ASOutside <=> asLock' = q
    BY <1>1, <1>2, <1>3, <1>4, ASAssumption DEF ASLocks, ASOutside
  <2>2. \A q, o \in ASProcs : asPC'[q] \in {"made", "fresh"} /\ asPC'[o] \in {"made", "fresh"} => q = o
    BY <1>1, <1>2, <1>3, <1>4 DEF ASLocks
  <2>3. asWitness' # "none" BY <1>1, <1>2 DEF ASLocks
  <2>4. asWitness' = "whole" => \A q \in ASProcs : asPC'[q] \notin {"made", "fresh"} BY <1>1, <1>2, <1>3, <1>4 DEF ASLocks
  <2>5. asWitness' = "empty" /\ ~asCut' => \E q \in ASProcs : asPC'[q] \in {"made", "fresh"}
    <3> SUFFICES ASSUME asWitness' = "empty", ~asCut' PROVE \E q \in ASProcs : asPC'[q] \in {"made", "fresh"} OBVIOUS
    <3>1. PICK q \in ASProcs : asPC[q] \in {"made", "fresh"} BY <1>1, <1>2, <1>5 DEF ASLocks
    <3>2. CASE q # p BY <1>4, <3>1, <3>2
    <3>3. CASE q = p /\ asLock = NoASProc BY <1>1, <1>3, <1>4, <3>1, <3>3
    <3>4. CASE q = p /\ asLock # NoASProc
      <4>1. asPC[p] = "made" BY <1>1, <3>1, <3>4
      <4> QED BY <1>3, <3>4, <4>1
    <3> QED BY <3>2, <3>3, <3>4
  <2> QED BY <2>1, <2>2, <2>3, <2>4, <2>5 DEF ASLocks
<1>9. (ASH' = ASH) \/ (ASH = "closed" /\ ASH' \in {"fresh", "check"})
  BY <1>2, <1>3, <1>4 DEF ASH, ASTypes
<1>10. ASUnmade' BY <1>1, <1>9 DEF ASInv, ASUnmade, ASQuietAt
<1>11. ASMemory' BY <1>1, <1>9 DEF ASInv, ASMemory, ASQuietAt
<1>12. ASOps' BY <1>1, <1>9 DEF ASInv, ASOps, ASQuietAt, ASBeginsAt
<1>13. ASBeginning' BY <1>1, <1>9 DEF ASInv, ASBeginning, ASBeginsAt
<1>14. ASWorking' BY <1>1, <1>9 DEF ASInv, ASWorking
<1>15. ASWhole' BY <1>1, <1>5, <1>9 DEF ASInv, ASWhole
<1>16. ASAllFiles' BY <1>1, ASFilesKept
<1> QED BY <1>7, <1>8, <1>10, <1>11, <1>12, <1>13, <1>14, <1>15, <1>16 DEF ASInv, ASAllFiles

\* A process that leaves lets go of the flock.
LEMMA ASLeaves ==
  ASSUME ASInv, NEW p \in ASProcs, asPC[p] # "closed", ASLeave(p), UNCHANGED asWitness,
         asCut => asCut', asPC[p] \in {"made", "fresh"} => asCut'
  PROVE  /\ asPC' \in [ASProcs -> ASPCs] /\ ASLocks' /\ asLock' \in ASProcs \cup {NoASProc}
         /\ \/ ASH' = "closed" /\ asLock = p /\ ASH = asPC[p] /\ asMem' = NoASMem /\ asOp' = NoASOp
            \/ ASH' = ASH /\ asPC[p] \in {"made", "found"} /\ UNCHANGED <<asMem, asOp>>
<1>1. ASTypes /\ ASLocks /\ p # NoASProc BY ASAssumption DEF ASInv
<1>2. asPC' = [asPC EXCEPT ![p] = "closed"] BY DEF ASLeave, ASTo
<1>3. asPC'[p] = "closed" /\ asPC' \in [ASProcs -> ASPCs] /\ \A q \in ASProcs : q # p => asPC'[q] = asPC[q]
  BY <1>1, <1>2 DEF ASTypes, ASPCs
<1>4. asLock' = IF asLock = p THEN NoASProc ELSE asLock BY DEF ASLeave
<1>5. asLock' \in ASProcs \cup {NoASProc} BY <1>1, <1>4 DEF ASTypes
<1>6. ASLocks'
  <2>1. \A q \in ASProcs : asPC'[q] \notin ASOutside <=> asLock' = q
    BY <1>1, <1>3, <1>4, ASAssumption DEF ASLocks, ASOutside
  <2>2. \A q, o \in ASProcs : asPC'[q] \in {"made", "fresh"} /\ asPC'[o] \in {"made", "fresh"} => q = o
    BY <1>1, <1>3 DEF ASLocks
  <2>3. asWitness' # "none" BY <1>1 DEF ASLocks
  <2>4. asWitness' = "whole" => \A q \in ASProcs : asPC'[q] \notin {"made", "fresh"} BY <1>1, <1>3 DEF ASLocks
  <2>5. asWitness' = "empty" /\ ~asCut' => \E q \in ASProcs : asPC'[q] \in {"made", "fresh"} BY <1>1, <1>3 DEF ASLocks
  <2> QED BY <2>1, <2>2, <2>3, <2>4, <2>5 DEF ASLocks
<1>7. CASE asLock = p
  <2>1. ASH = asPC[p] /\ asMem' = NoASMem /\ asOp' = NoASOp BY <1>1, <1>7 DEF ASH, ASLeave
  <2>2. ASH' = "closed" BY <1>4, <1>7 DEF ASH
  <2> QED BY <1>3, <1>5, <1>6, <1>7, <2>1, <2>2
<1>8. CASE asLock # p
  <2>1. asPC[p] \in {"made", "found"} BY <1>1, <1>8 DEF ASLocks, ASOutside
  <2>2. UNCHANGED <<asLock, asMem, asOp>> BY <1>8 DEF ASLeave
  <2>3. ASH' = ASH BY <1>1, <1>3, <1>8, <2>2 DEF ASH, ASTypes
  <2> QED BY <1>3, <1>5, <1>6, <2>1, <2>2, <2>3
<1> QED BY <1>7, <1>8

\* Who is past the check found or wrote a whole witness.
LEMMA ASWitnessed == ASSUME ASInv, ASH \notin ASQuietAt PROVE asWitness = "whole"
BY DEF ASInv, ASUnmade

\* The witness is written.
LEMMA ASWriteWitnessInv == ASSUME ASInv, NEW p \in ASProcs, ASWriteWitness(p) PROVE ASInv'
<1>1. /\ asPC[p] = "fresh" /\ ASTo(p, "registry") /\ asWitness' = "whole"
      /\ UNCHANGED <<asLock, asRegistry, asSeq, asLog, asAnchor, asMem, asOp, asShown, asForgot, asCut, asFaults>>
  BY DEF ASWriteWitness, ASStep, ASAt, asGhosts
<1>2. /\ asLock = p /\ ASH = "fresh" /\ ASH' = "registry" /\ asPC' \in [ASProcs -> ASPCs] /\ ASLocks'
  <2>1. asPC[p] \notin ASOutside /\ "registry" \in ASPCs /\ "registry" \notin ASOutside \cup {"fresh"} BY <1>1 DEF ASOutside, ASPCs
  <2> QED BY <1>1, <2>1, ASGoesOn
<1>3. /\ asMem = NoASMem /\ asOp = NoASOp /\ asWitness # "whole"
  <2>1. asMem = NoASMem /\ asOp = NoASOp BY <1>2 DEF ASInv, ASMemory, ASOps, ASQuietAt
  <2>2. asWitness # "whole" BY <1>1 DEF ASInv, ASLocks
  <2> QED BY <2>1, <2>2
<1>4. asSeq.next = 0 /\ asRegistry = {} /\ \A r \in ASRuns : asLog[r] = NoASLog BY <1>3 DEF ASInv, ASUnmade
<1>5. ASTypes' BY <1>1, <1>2 DEF ASInv, ASTypes
<1>6. ASUnmade' BY <1>1 DEF ASUnmade
<1>7. ASMemory' BY <1>1, <1>2, <1>3, <1>4, ASNothing DEF ASMemory, ASQuietAt
<1>8. ASOps' BY <1>1, <1>2, <1>3, ASNothing DEF ASOps, ASQuietAt
<1>9. ASBeginning' BY <1>1, <1>3 DEF ASBeginning
<1>10. ASWorking' BY <1>1, <1>2, <1>3, ASNothing DEF ASWorking
<1>11. ASWhole' BY <1>1, <1>2, <1>4, ASNothing DEF ASWhole
<1>12. ASAllFiles' BY <1>1, ASFilesKept
<1> QED BY <1>2, <1>5, <1>6, <1>7, <1>8, <1>9, <1>10, <1>11, <1>12 DEF ASInv, ASAllFiles

\* A process that leaves with the files as they are, and nothing of its own cut short.
LEMMA ASLeavesFiles ==
  ASSUME ASInv, NEW p \in ASProcs, asPC[p] # "closed", ASLeave(p), UNCHANGED <<asWitness, asRegistry, asSeq, asLog, asAnchor, asShown, asForgot>>,
         asCut' \in BOOLEAN, asCut => asCut', asPC[p] \in ASInitializing => asCut', asFaults' \in 0..ASMaxFaults
  PROVE  ASInv'
<1>1. /\ asPC' \in [ASProcs -> ASPCs] /\ ASLocks' /\ asLock' \in ASProcs \cup {NoASProc}
      /\ \/ ASH' = "closed" /\ asLock = p /\ ASH = asPC[p] /\ asMem' = NoASMem /\ asOp' = NoASOp
         \/ ASH' = ASH /\ asPC[p] \in {"made", "found"} /\ UNCHANGED <<asMem, asOp>>
  <2>1. asPC[p] \in {"made", "fresh"} => asCut' BY DEF ASInitializing
  <2> QED BY <2>1, ASLeaves
<1>2. ASTypes' BY <1>1, ASNothing DEF ASInv, ASTypes
<1>3. ASUnmade' BY <1>1 DEF ASInv, ASUnmade, ASQuietAt
<1>4. ASMemory' BY <1>1 DEF ASInv, ASMemory, ASQuietAt
<1>5. ASOps' BY <1>1 DEF ASInv, ASOps, ASQuietAt, ASBeginsAt
<1>6. ASBeginning' BY <1>1 DEF ASInv, ASBeginning, ASBeginsAt
<1>7. ASWorking' BY <1>1, ASNothing DEF ASInv, ASWorking
<1>8. ASWhole'
  <2>1. CASE ASH' = "closed" /\ ASH = asPC[p]
    <3> SUFFICES ASSUME ~asCut' PROVE /\ asWitness' = "whole" => asSeq.there /\ asSeq.runs = asRegistry
          /\ \A r \in ASRuns : asLog[r].at # "none" => asLog[r].at = "whole" /\ ~asLog[r].torn /\ asAnchor[r] <= Len(asLog[r].recs)
      BY <2>1 DEF ASWhole
    <3>1. ~asCut /\ ASH \notin ASInitializing BY <2>1
    <3> QED BY <3>1 DEF ASInv, ASWhole, ASInitializing
  <2>2. CASE ASH' = ASH /\ UNCHANGED <<asMem, asOp>> BY <2>2 DEF ASInv, ASWhole
  <2> QED BY <1>1, <2>1, <2>2
<1>9. ASAllFiles' BY ASFilesKept
<1> QED BY <1>1, <1>2, <1>3, <1>4, <1>5, <1>6, <1>7, <1>8, <1>9 DEF ASInv, ASAllFiles

\* The store is closed.
LEMMA ASCloseInv == ASSUME ASInv, NEW p \in ASProcs, ASClose(p) PROVE ASInv'
<1>1. asPC[p] = "open" /\ ASLeave(p) /\ UNCHANGED <<asWitness, asRegistry, asSeq, asLog, asAnchor, asShown, asForgot, asCut, asFaults>>
  BY DEF ASClose, ASAt, asFiles, asGhosts
<1>2. asPC[p] # "closed" /\ asPC[p] \notin ASInitializing BY <1>1 DEF ASInitializing
<1>3. asCut' \in BOOLEAN /\ asFaults' \in 0..ASMaxFaults BY <1>1 DEF ASInv, ASTypes
<1>4. asCut => asCut' BY <1>1
<1> QED BY <1>1, <1>2, <1>3, <1>4, ASLeavesFiles

\* The store is opened, or refused.
LEMMA OpenStoreInv == ASSUME ASInv, NEW p \in ASProcs, OpenStore(p) PROVE ASInv'
<1>1. asPC[p] = "check" /\ UNCHANGED <<asWitness, asRegistry, asSeq, asLog, asAnchor, asShown, asForgot, asCut, asFaults>>
  BY DEF OpenStore, ASAt, asFiles, asGhosts
<1>2. CASE ~ASOpens
  <2>1. ASLeave(p) BY <1>2 DEF OpenStore
  <2>2. asPC[p] # "closed" /\ asPC[p] \notin ASInitializing BY <1>1 DEF ASInitializing
  <2>3. asCut' \in BOOLEAN /\ asFaults' \in 0..ASMaxFaults BY <1>1 DEF ASInv, ASTypes
  <2>4. asCut => asCut' BY <1>1
  <2> QED BY <1>1, <2>1, <2>2, <2>3, <2>4, ASLeavesFiles
<1>3. CASE ASOpens
  <2>1. /\ ASTo(p, "open") /\ asMem' = [NoASMem EXCEPT !.next = asSeq.next, !.runs = asRegistry] /\ UNCHANGED <<asLock, asOp>>
        /\ asWitness = "whole"
    BY <1>3 DEF OpenStore, ASOpens
  <2>2. /\ asLock = p /\ ASH = "check" /\ ASH' = "open" /\ asPC' \in [ASProcs -> ASPCs] /\ ASLocks'
    <3>1. asPC[p] \notin ASOutside /\ "open" \in ASPCs /\ "open" \notin ASOutside \cup {"fresh"} BY <1>1 DEF ASOutside, ASPCs
    <3> QED BY <1>1, <2>1, <3>1, ASGoesOn
  <2>3. asSeq.next \in 0..ASMaxNext /\ asRegistry \in SUBSET ASRuns BY DEF ASInv, ASTypes
  <2>4. /\ asMem' \in [next : 0..ASMaxNext, runs : SUBSET ASRuns, cache : [ASRuns -> {"none", "ok", "err"}], replaced : SUBSET {"registry", "sequence"}]
        /\ asMem'.next = asSeq.next /\ asMem'.runs = asRegistry /\ asMem'.replaced = {} /\ \A r \in ASRuns : asMem'.cache[r] = "none"
    BY <2>1, <2>3 DEF NoASMem
  <2>5. asOp' = NoASOp BY <2>1, <2>2 DEF ASInv, ASOps, ASQuietAt
  <2>6. ASTypes' BY <1>1, <2>1, <2>2, <2>4 DEF ASInv, ASTypes
  <2>7. ASUnmade' BY <1>1, <2>1 DEF ASUnmade
  <2>8. ASMemory'
    <3>1. asSeq.next \in Int BY <2>3, ASAssumption
    <3> QED BY <1>1, <2>2, <2>4, <3>1 DEF ASMemory, ASQuietAt
  <2>9. ASOps' BY <2>2, <2>5 DEF ASOps, ASQuietAt, ASBeginsAt
  <2>10. ASBeginning' BY <2>5 DEF ASBeginning
  <2>11. ASWorking' BY <2>2, <2>4 DEF ASWorking
  <2>12. ASWhole' BY <1>1, <2>2 DEF ASInv, ASWhole
  <2>13. ASAllFiles' BY <1>1, ASFilesKept
  <2> QED BY <2>2, <2>6, <2>7, <2>8, <2>9, <2>10, <2>11, <2>12, <2>13 DEF ASInv, ASAllFiles
<1> QED BY <1>2, <1>3

\* A call returns: the process that has the store is at rest again.
LEMMA ASReturns ==
  ASSUME ASInv, NEW p \in ASProcs, asPC[p] \notin ASOutside \cup {"fresh", "check"}, ASReturn(p), UNCHANGED <<asWitness, asLock>>, asCut => asCut'
  PROVE  /\ asLock = p /\ ASH = asPC[p] /\ ASH' = "open" /\ asPC' \in [ASProcs -> ASPCs] /\ asOp' = NoASOp
         /\ ASLocks' /\ ASUnmade' /\ ASOps' /\ ASBeginning'
<1>1. ASTo(p, "open") /\ asOp' = NoASOp BY DEF ASReturn
<1>2. asLock = p /\ ASH = asPC[p] /\ ASH' = "open" /\ asPC' \in [ASProcs -> ASPCs] /\ ASLocks'
  <2>1. asPC[p] \notin ASOutside /\ "open" \in ASPCs /\ "open" \notin ASOutside \cup {"fresh"} BY DEF ASOutside, ASPCs
  <2> QED BY <1>1, <2>1, ASGoesOn
<1>3. ASUnmade'
  <2>1. asWitness = "whole" BY <1>2, ASWitnessed DEF ASQuietAt, ASOutside
  <2> QED BY <2>1 DEF ASUnmade
<1>4. ASOps' BY <1>1, <1>2 DEF ASOps, ASQuietAt, ASBeginsAt
<1>5. ASBeginning' BY <1>1 DEF ASBeginning
<1> QED BY <1>1, <1>2, <1>3, <1>4, <1>5

\* The process that has the store goes from one position of a call to the next.
LEMMA ASSteps ==
  ASSUME ASInv, NEW p \in ASProcs, NEW from, NEW to \in ASPCs, ASStep(p, from, to), UNCHANGED asWitness,
         from \notin ASOutside \cup {"fresh", "check"}, to \notin ASOutside \cup {"fresh", "check"}
  PROVE  /\ asLock = p /\ asPC[p] = from /\ ASH = from /\ ASH' = to /\ asPC' \in [ASProcs -> ASPCs]
         /\ UNCHANGED <<asLock, asShown, asForgot, asCut, asFaults>> /\ ASLocks' /\ ASUnmade'
<1>1. asPC[p] = from /\ ASTo(p, to) /\ UNCHANGED <<asLock, asShown, asForgot, asCut, asFaults>> BY DEF ASStep, ASAt, asGhosts
<1>2. asLock = p /\ ASH = from /\ ASH' = to /\ asPC' \in [ASProcs -> ASPCs] /\ ASLocks' BY <1>1, ASGoesOn
<1>3. asWitness = "whole" BY <1>2, ASWitnessed DEF ASQuietAt, ASOutside
<1> QED BY <1>1, <1>2, <1>3 DEF ASUnmade

\* The registry is saved.
LEMMA saveRegistryInv == ASSUME ASInv, NEW p \in ASProcs, saveRegistry(p) PROVE ASInv'
<1>1. ASStep(p, "registry", "sequence") /\ asRegistry' = asMem.runs /\ UNCHANGED <<asWitness, asSeq, asLog, asAnchor, asMem, asOp>>
  BY DEF saveRegistry
<1>2. /\ asLock = p /\ ASH = "registry" /\ ASH' = "sequence" /\ asPC' \in [ASProcs -> ASPCs]
      /\ UNCHANGED <<asLock, asShown, asForgot, asCut, asFaults>> /\ ASLocks' /\ ASUnmade'
  BY <1>1, ASSteps DEF ASPCs, ASOutside
<1>3. asRegistry' \in SUBSET ASRuns /\ asSeq.next \in Nat BY <1>1, ASAssumption DEF ASInv, ASTypes
<1>4. ASTypes' BY <1>1, <1>2, <1>3 DEF ASInv, ASTypes
<1>5. asRegistry \subseteq asRegistry' BY <1>1, <1>2 DEF ASInv, ASMemory, ASQuietAt
<1>6. ASMemory' BY <1>1, <1>2 DEF ASInv, ASMemory, ASQuietAt
<1>7. ASOps' BY <1>1, <1>2 DEF ASInv, ASOps, ASQuietAt, ASBeginsAt
<1>8. ASBeginning' BY <1>1, <1>2 DEF ASInv, ASBeginning, ASBeginsAt
<1>9. ASWorking' BY <1>1, <1>2 DEF ASInv, ASWorking
<1>10. ASWhole' BY <1>1, <1>2 DEF ASInv, ASWhole
<1>11. ASAllFiles' BY <1>1, <1>2, <1>3, <1>5, ASFilesGrow
<1> QED BY <1>2, <1>4, <1>6, <1>7, <1>8, <1>9, <1>10, <1>11 DEF ASInv, ASAllFiles

\* The sequence is saved.
LEMMA saveSequenceInv == ASSUME ASInv, NEW p \in ASProcs, saveSequence(p) PROVE ASInv'
<1> DEFINE to == IF asOp = NoASOp THEN "open" ELSE "create"
<1>1. /\ ASStep(p, "sequence", to) /\ asSeq' = [there |-> TRUE, next |-> asMem.next, runs |-> asMem.runs]
      /\ "sequence" \notin asMem.replaced /\ UNCHANGED <<asWitness, asRegistry, asLog, asAnchor, asMem, asOp>>
  BY DEF saveSequence
<1>2. /\ asLock = p /\ ASH = "sequence" /\ ASH' = to /\ asPC' \in [ASProcs -> ASPCs]
      /\ UNCHANGED <<asLock, asShown, asForgot, asCut, asFaults>> /\ ASLocks' /\ ASUnmade'
  BY <1>1, ASSteps DEF ASPCs, ASOutside
<1>3. asMem.next \in 0..ASMaxNext /\ asMem.runs \in SUBSET ASRuns /\ asSeq.next \in 0..ASMaxNext BY DEF ASInv, ASTypes
<1>4. /\ asSeq' \in [there : BOOLEAN, next : 0..ASMaxNext, runs : SUBSET ASRuns]
      /\ asSeq'.there /\ asSeq'.next = asMem.next /\ asSeq'.runs = asMem.runs
  BY <1>1, <1>3
<1>5. ASTypes' BY <1>1, <1>2, <1>4 DEF ASInv, ASTypes
<1>6. asSeq'.next = asSeq.next /\ asRegistry = asMem.runs BY <1>1, <1>2, <1>4 DEF ASInv, ASMemory, ASQuietAt
<1>7. ASMemory' BY <1>1, <1>2, <1>6 DEF ASInv, ASMemory, ASQuietAt
<1>8. ASOps' BY <1>1, <1>2 DEF ASInv, ASOps, ASQuietAt, ASBeginsAt
<1>9. ASBeginning' BY <1>1, <1>2 DEF ASInv, ASBeginning, ASBeginsAt
<1>10. ASWorking' BY <1>1, <1>2 DEF ASInv, ASWorking
<1>11. ASWhole'
  <2>1. asSeq'.there /\ asSeq'.runs = asRegistry BY <1>4, <1>6
  <2> QED BY <1>1, <1>2, <2>1 DEF ASInv, ASWhole
<1>12. ASAllFiles'
  <2>1. asSeq'.next \in Nat /\ asSeq'.next >= asSeq.next BY <1>3, <1>6, ASAssumption
  <2> QED BY <1>1, <1>2, <2>1, ASFilesGrow
<1> QED BY <1>2, <1>5, <1>7, <1>8, <1>9, <1>10, <1>11, <1>12 DEF ASInv, ASAllFiles

\* The files the process does not know are noted.
LEMMA ASMemMarked ==
  ASSUME ASInv, NEW s \in SUBSET {"registry", "sequence"}, asMem' = [asMem EXCEPT !.replaced = s]
  PROVE  /\ asMem' \in [next : 0..ASMaxNext, runs : SUBSET ASRuns, cache : [ASRuns -> {"none", "ok", "err"}], replaced : SUBSET {"registry", "sequence"}]
         /\ asMem'.next = asMem.next /\ asMem'.runs = asMem.runs /\ asMem'.cache = asMem.cache /\ asMem'.replaced = s
BY DEF ASInv, ASTypes

\* A sequence that was not written by this process is refused.
LEMMA ASStaleSequenceInv == ASSUME ASInv, NEW p \in ASProcs, ASStaleSequence(p) PROVE ASInv'
<1>1. /\ asPC[p] = "sequence" /\ "sequence" \in asMem.replaced /\ ASReturn(p)
      /\ asMem' = [asMem EXCEPT !.replaced = asMem.replaced \cup {"registry"}] /\ asCut' = TRUE
      /\ UNCHANGED <<asWitness, asRegistry, asSeq, asLog, asAnchor, asLock, asShown, asForgot, asFaults>>
  BY DEF ASStaleSequence, ASAt, asFiles
<1>2. /\ asLock = p /\ ASH = "sequence" /\ ASH' = "open" /\ asPC' \in [ASProcs -> ASPCs] /\ asOp' = NoASOp
      /\ ASLocks' /\ ASUnmade' /\ ASOps' /\ ASBeginning'
  <2>1. asPC[p] \notin ASOutside \cup {"fresh", "check"} BY <1>1 DEF ASOutside
  <2> QED BY <1>1, <2>1, ASReturns
<1>3. /\ asMem' \in [next : 0..ASMaxNext, runs : SUBSET ASRuns, cache : [ASRuns -> {"none", "ok", "err"}], replaced : SUBSET {"registry", "sequence"}]
      /\ asMem'.next = asMem.next /\ asMem'.runs = asMem.runs /\ asMem'.cache = asMem.cache /\ asMem'.replaced = asMem.replaced \cup {"registry"}
  <2>1. asMem.replaced \cup {"registry"} \in SUBSET {"registry", "sequence"} BY DEF ASInv, ASTypes
  <2> QED BY <1>1, <2>1, ASMemMarked
<1>4. ASTypes' BY <1>1, <1>2, <1>3 DEF ASInv, ASTypes
<1>5. ASMemory' BY <1>1, <1>2, <1>3 DEF ASInv, ASMemory, ASQuietAt
<1>6. ASWorking' BY <1>1, <1>2, <1>3 DEF ASInv, ASWorking
<1>7. ASWhole' BY <1>1 DEF ASWhole
<1>8. ASAllFiles' BY <1>1, ASFilesKept
<1> QED BY <1>2, <1>4, <1>5, <1>6, <1>7, <1>8 DEF ASInv, ASAllFiles

\* A call begins.
LEMMA ASCallInv == ASSUME ASInv, NEW p \in ASProcs, ASCall(p) PROVE ASInv'
<1>1. PICK kind \in {"append", "read", "forget"}, r \in ASRuns, e \in ASEvents :
        /\ asOp' = [kind |-> kind, run |-> r, ev |-> e] /\ ASStep(p, "open", IF kind = "forget" THEN "remove" ELSE "load")
        /\ UNCHANGED <<asWitness, asRegistry, asSeq, asLog, asAnchor, asMem>>
  BY DEF ASCall, asFiles
<1> DEFINE to == IF kind = "forget" THEN "remove" ELSE "load"
<1>2. /\ asLock = p /\ ASH = "open" /\ ASH' = to /\ asPC' \in [ASProcs -> ASPCs]
      /\ UNCHANGED <<asLock, asShown, asForgot, asCut, asFaults>> /\ ASLocks' /\ ASUnmade'
  <2>1. to \in ASPCs /\ to \notin ASOutside \cup {"fresh", "check"} /\ "open" \notin ASOutside \cup {"fresh", "check"} BY DEF ASPCs, ASOutside
  <2> QED BY <1>1, <2>1, ASSteps
<1>3. /\ asOp' \in [kind : {"append", "read", "forget"}, run : ASRuns, ev : ASEvents] /\ asOp'.kind = kind /\ asOp' # NoASOp
  BY <1>1, ASNothing
<1>4. ASTypes' BY <1>1, <1>2, <1>3 DEF ASInv, ASTypes
<1>5. ASMemory' BY <1>1, <1>2 DEF ASInv, ASMemory, ASQuietAt
<1>6. ASOps' BY <1>2, <1>3 DEF ASOps, ASQuietAt, ASBeginsAt
<1>7. ASBeginning' BY <1>2 DEF ASBeginning, ASBeginsAt
<1>8. ASWorking' BY <1>1, <1>2 DEF ASInv, ASWorking
<1>9. ASWhole' BY <1>1, <1>2 DEF ASInv, ASWhole
<1>10. ASAllFiles' BY <1>1, <1>2, ASFilesKept
<1> QED BY <1>2, <1>4, <1>5, <1>6, <1>7, <1>8, <1>9, <1>10 DEF ASInv, ASAllFiles

\* A log's records are no more than the ordinals.
LEMMA ASLogLength ==
  ASSUME ASInv, NEW r \in ASRuns
  PROVE  asLog[r].recs \in Seq(ASRec) /\ Len(asLog[r].recs) \in 0..NoASAnchor
<1>1. asLog[r].recs \in Seq(ASRec) /\ asSeq.next \in 0..ASMaxNext /\ ASMaxNext \in Nat BY ASAssumption DEF ASInv, ASTypes
<1>2. \A i \in DOMAIN asLog[r].recs : i <= asLog[r].recs[i].ord /\ asLog[r].recs[i].ord <= asSeq.next
  BY DEF ASInv, ASLogs, ASLogOK
<1> DEFINE s == asLog[r].recs
<1>3. Len(s) \in Nat /\ DOMAIN s = 1..Len(s) BY <1>1
<1>4. \A i \in 1..Len(s) : s[i] \in ASRec BY <1>1
<1>5. \A x \in ASRec : x.ord \in Nat BY ASAssumption DEF ASRec
<1>6. CASE Len(s) = 0 BY <1>1, <1>6 DEF NoASAnchor
<1>7. CASE Len(s) # 0
  <2>1. Len(s) \in DOMAIN s BY <1>3, <1>7
  <2>2. Len(s) <= s[Len(s)].ord /\ s[Len(s)].ord <= asSeq.next /\ s[Len(s)].ord \in Nat BY <1>2, <1>3, <1>4, <1>5, <2>1
  <2> HIDE DEF s
  <2>3. Len(s) \in 0..NoASAnchor BY <1>1, <1>3, <2>2 DEF NoASAnchor
  <2> QED BY <1>1, <2>3 DEF s
<1> QED BY <1>6, <1>7

\* A log is taken into the cache, in the place of another when it is full.
LEMMA ASCacheKeeps ==
  ASSUME ASInv, NEW r \in ASRuns, ASCache(r)
  PROVE  /\ asMem' \in [next : 0..ASMaxNext, runs : SUBSET ASRuns, cache : [ASRuns -> {"none", "ok", "err"}], replaced : SUBSET {"registry", "sequence"}]
         /\ asMem'.next = asMem.next /\ asMem'.runs = asMem.runs /\ asMem'.replaced = asMem.replaced
         /\ \A q \in ASRuns : asMem'.cache[q] = "ok" => q = r \/ asMem.cache[q] = "ok"
<1>1. asMem \in [next : 0..ASMaxNext, runs : SUBSET ASRuns, cache : [ASRuns -> {"none", "ok", "err"}], replaced : SUBSET {"registry", "sequence"}]
  BY DEF ASInv, ASTypes
<1>2. CASE asMem' = [asMem EXCEPT !.cache[r] = "ok"] BY <1>1, <1>2
<1>3. CASE \E q \in ASRuns : asMem' = [asMem EXCEPT !.cache = [asMem.cache EXCEPT ![q] = "none", ![r] = "ok"]] BY <1>1, <1>3
<1> QED BY <1>2, <1>3 DEF ASCache

\* A log is loaded, begun or refused.
LEMMA ASLoadInv == ASSUME ASInv, NEW p \in ASProcs, ASLoad(p) PROVE ASInv'
<1> DEFINE r == asOp.run
<1>1. asPC[p] = "load" /\ UNCHANGED <<asWitness, asRegistry, asSeq, asLog, asLock, asShown, asForgot, asCut, asFaults>>
  BY DEF ASLoad, ASAt, asGhosts
<1>2. asLock = p /\ ASH = "load"
  <2>1. asPC[p] \notin ASOutside BY <1>1 DEF ASOutside
  <2> QED BY <1>1, <2>1, ASHeld
<1>3. asOp \in [kind : {"append", "read", "forget"}, run : ASRuns, ev : ASEvents] /\ asOp.kind \in {"append", "read"}
  <2>1. asOp # NoASOp /\ asOp.kind # "forget" BY <1>2 DEF ASInv, ASOps, ASQuietAt, ASBeginsAt
  <2> QED BY <2>1 DEF ASInv, ASTypes
<1>4. asWitness = "whole" BY <1>2, ASWitnessed DEF ASQuietAt
<1>5. asPC[p] \notin ASOutside \cup {"fresh", "check"} BY <1>1 DEF ASOutside
<1>6. asCut => asCut' BY <1>1
<1>7. ASAllFiles' BY <1>1, ASFilesKept
<1>8. ASUnmade' BY <1>1, <1>4 DEF ASUnmade
<1>9. CASE ASReturn(p) /\ UNCHANGED <<asMem, asAnchor>>
  <2>1. /\ ASH' = "open" /\ asPC' \in [ASProcs -> ASPCs] /\ asOp' = NoASOp /\ ASLocks' /\ ASOps' /\ ASBeginning'
    BY <1>1, <1>5, <1>6, <1>9, ASReturns
  <2>2. ASTypes' BY <1>1, <1>9, <2>1 DEF ASInv, ASTypes
  <2>3. ASMemory' BY <1>1, <1>2, <1>9, <2>1 DEF ASInv, ASMemory, ASQuietAt
  <2>4. ASWorking' BY <1>1, <1>9, <2>1 DEF ASInv, ASWorking
  <2>5. ASWhole' BY <1>1, <1>2, <1>9, <2>1 DEF ASInv, ASWhole
  <2> QED BY <1>7, <1>8, <2>1, <2>2, <2>3, <2>4, <2>5 DEF ASInv, ASAllFiles
<1>10. CASE /\ ~ASRefuses(r) /\ asLog[r].at = "none"
            /\ asMem' = [asMem EXCEPT !.runs = @ \cup {r}] /\ ASTo(p, "registry") /\ UNCHANGED <<asOp, asAnchor>>
  <2>1. ASH' = "registry" /\ asPC' \in [ASProcs -> ASPCs] /\ ASLocks'
    <3>1. asPC[p] \notin ASOutside /\ "registry" \in ASPCs /\ "registry" \notin ASOutside \cup {"fresh"} BY <1>1 DEF ASOutside, ASPCs
    <3> QED BY <1>1, <1>6, <1>10, <3>1, ASGoesOn
  <2>2. /\ asMem' \in [next : 0..ASMaxNext, runs : SUBSET ASRuns, cache : [ASRuns -> {"none", "ok", "err"}], replaced : SUBSET {"registry", "sequence"}]
        /\ asMem'.next = asMem.next /\ asMem'.runs = asMem.runs \cup {r} /\ asMem'.replaced = asMem.replaced /\ asMem'.cache = asMem.cache
    <3>1. asMem \in [next : 0..ASMaxNext, runs : SUBSET ASRuns, cache : [ASRuns -> {"none", "ok", "err"}], replaced : SUBSET {"registry", "sequence"}]
      BY DEF ASInv, ASTypes
    <3> QED BY <1>3, <1>10, <3>1
  <2>3. asMem.cache[r] = "none" /\ r \notin asMem.runs BY <1>10 DEF ASRefuses
  <2>4. asRegistry \subseteq asMem.runs BY <1>2 DEF ASInv, ASMemory, ASQuietAt
  <2>5. r \notin asForgot /\ (\A x \in asShown : x.run # r) BY <2>3, <2>4 DEF ASInv, ASAllShown
  <2>6. asLog[r] = NoASLog BY <1>3, <1>10 DEF ASInv, ASLogs, ASLogOK
  <2>7. ASTypes' BY <1>1, <1>10, <2>1, <2>2 DEF ASInv, ASTypes
  <2>8. ASMemory' BY <1>1, <1>2, <2>1, <2>2, <2>4 DEF ASInv, ASMemory, ASQuietAt
  <2>9. ASOps' BY <1>2, <1>10, <2>1 DEF ASInv, ASOps, ASQuietAt, ASBeginsAt
  <2>10. ASBeginning' BY <1>1, <1>10, <2>1, <2>2, <2>3, <2>5, <2>6, ASNothing DEF ASBeginning
  <2>11. ASWorking' BY <1>1, <2>1, <2>2 DEF ASInv, ASWorking
  <2>12. ASWhole' BY <1>1, <1>2, <1>10, <2>1 DEF ASInv, ASWhole
  <2> QED BY <1>7, <1>8, <2>1, <2>7, <2>8, <2>9, <2>10, <2>11, <2>12 DEF ASInv, ASAllFiles
<1>11. CASE /\ ~ASRefuses(r) /\ asLog[r].at # "none" /\ asAnchor' = [asAnchor EXCEPT ![r] = Len(asLog[r].recs)]
            /\ ASCache(r) /\ ASTo(p, asOp.kind) /\ UNCHANGED asOp
  <2>1. ASH' = asOp.kind /\ asPC' \in [ASProcs -> ASPCs] /\ ASLocks'
    <3>1. asPC[p] \notin ASOutside /\ asOp.kind \in ASPCs /\ asOp.kind \notin ASOutside \cup {"fresh"} BY <1>1, <1>3 DEF ASOutside, ASPCs
    <3> QED BY <1>1, <1>6, <1>11, <3>1, ASGoesOn
  <2>2. /\ asMem' \in [next : 0..ASMaxNext, runs : SUBSET ASRuns, cache : [ASRuns -> {"none", "ok", "err"}], replaced : SUBSET {"registry", "sequence"}]
        /\ asMem'.next = asMem.next /\ asMem'.runs = asMem.runs /\ asMem'.replaced = asMem.replaced
        /\ \A q \in ASRuns : asMem'.cache[q] = "ok" => q = r \/ asMem.cache[q] = "ok"
    BY <1>3, <1>11, ASCacheKeeps
  <2>3. asLog[r].at = "whole"
    <3>1. CASE asMem.cache[r] = "none" BY <1>11, <3>1 DEF ASRefuses, ASLoads
    <3>2. CASE asMem.cache[r] # "none"
      <4>1. asMem.cache[r] = "ok" BY <1>3, <1>11, <3>2 DEF ASRefuses, ASInv, ASTypes
      <4> QED BY <1>3, <1>11, <4>1 DEF ASInv, ASWorking
    <3> QED BY <3>1, <3>2
  <2>4. Len(asLog[r].recs) \in 0..NoASAnchor /\ Len(asLog[r].recs) \in Nat BY <1>3, ASLogLength, ASAssumption DEF NoASAnchor
  <2>5. asAnchor \in [ASRuns -> 0..NoASAnchor] BY DEF ASInv, ASTypes
  <2>6. /\ asAnchor' \in [ASRuns -> 0..NoASAnchor] /\ asAnchor'[r] = Len(asLog[r].recs) /\ \A q \in ASRuns : q # r => asAnchor'[q] = asAnchor[q]
    BY <1>3, <1>11, <2>4, <2>5
  <2>7. ASTypes' BY <1>1, <1>11, <2>1, <2>2, <2>6 DEF ASInv, ASTypes
  <2>8. ASMemory' BY <1>1, <1>2, <1>3, <2>1, <2>2 DEF ASInv, ASMemory, ASQuietAt
  <2>9. ASOps' BY <1>2, <1>3, <1>11, <2>1 DEF ASInv, ASOps, ASQuietAt, ASBeginsAt
  <2>10. ASBeginning' BY <1>3, <2>1 DEF ASBeginning, ASBeginsAt
  <2>11. ASWorking' BY <1>1, <1>3, <1>11, <2>1, <2>2, <2>3 DEF ASInv, ASWorking
  <2>12. ASWhole'
    <3> SUFFICES ASSUME ~asCut
                 PROVE  /\ asSeq.there /\ asSeq.runs = asRegistry
                        /\ \A q \in ASRuns : asLog[q].at # "none" => asLog[q].at = "whole" /\ ~asLog[q].torn /\ asAnchor'[q] <= Len(asLog[q].recs)
      BY <1>1 DEF ASWhole
    <3>1. /\ asSeq.there /\ asSeq.runs = asRegistry
          /\ \A q \in ASRuns : asLog[q].at # "none" => asLog[q].at = "whole" /\ ~asLog[q].torn /\ asAnchor[q] <= Len(asLog[q].recs)
      BY <1>2, <1>4 DEF ASInv, ASWhole
    <3> HIDE DEF r
    <3>2. asAnchor'[r] <= Len(asLog[r].recs) BY <2>4, <2>6
    <3> QED BY <2>6, <3>1, <3>2
  <2> QED BY <1>7, <1>8, <2>1, <2>7, <2>8, <2>9, <2>10, <2>11, <2>12 DEF ASInv, ASAllFiles
<1> QED BY <1>9, <1>10, <1>11 DEF ASLoad

\* The log of a run that is begun: its file, then its header.
LEMMA ASLogBegins ==
  ASSUME ASInv, NEW from \in {"create", "header"}, ASH = from, NEW a \in {"part", "whole"}, asLog' = [asLog EXCEPT ![asOp.run].at = a],
         UNCHANGED <<asRegistry, asSeq, asShown, asForgot>>
  PROVE  /\ asOp.run \in ASRuns /\ asLog' \in [ASRuns -> [at : {"none", "part", "whole"}, recs : Seq(ASRec), torn : BOOLEAN]]
         /\ asLog'[asOp.run].at = a /\ asLog'[asOp.run].recs = <<>> /\ ~asLog'[asOp.run].torn
         /\ \A r \in ASRuns : r # asOp.run => asLog'[r] = asLog[r]
         /\ asMem.cache[asOp.run] = "none" /\ ASAllFiles'
<1>1. asOp # NoASOp /\ asOp.run \in ASRuns BY DEF ASInv, ASOps, ASTypes, ASQuietAt
<1>2. /\ asOp.run \in asMem.runs /\ asOp.run \notin asForgot /\ asMem.cache[asOp.run] = "none" /\ (\A x \in asShown : x.run # asOp.run)
      /\ asLog[asOp.run].recs = <<>> /\ ~asLog[asOp.run].torn
  BY <1>1 DEF ASInv, ASBeginning, ASBeginsAt
<1>3. asRegistry = asMem.runs BY DEF ASInv, ASMemory
<1>4. asLog \in [ASRuns -> [at : {"none", "part", "whole"}, recs : Seq(ASRec), torn : BOOLEAN]] BY DEF ASInv, ASTypes
<1>5. /\ asLog' \in [ASRuns -> [at : {"none", "part", "whole"}, recs : Seq(ASRec), torn : BOOLEAN]]
      /\ asLog'[asOp.run].at = a /\ asLog'[asOp.run].recs = asLog[asOp.run].recs /\ \A r \in ASRuns : r # asOp.run => asLog'[r] = asLog[r]
  BY <1>1, <1>4
<1>6. ~asLog'[asOp.run].torn BY <1>1, <1>2, <1>4
<1>7. \A r \in ASRuns : asLog'[r].recs = asLog[r].recs BY <1>5
<1>8. ASLogs'
  <2> SUFFICES ASSUME NEW r \in ASRuns PROVE ASLogOK(r, asLog'[r], asSeq.next) /\ (asLog'[r].at # "none" => r \in asRegistry) BY DEF ASLogs
  <2>1. CASE r # asOp.run BY <1>5, <2>1 DEF ASInv, ASLogs
  <2>2. CASE r = asOp.run BY <1>2, <1>3, <1>5, <2>2 DEF ASLogOK
  <2> QED BY <2>1, <2>2
<1>9. ASAllShown' BY DEF ASInv, ASAllShown
<1>10. ASOrdinalsAreOnce'
  <2>1. ASWritten' = ASWritten BY <1>7 DEF ASWritten
  <2> QED BY <2>1 DEF ASInv, ASOrdinalsAreOnce
<1>11. ASShownStays'
  <2>1. \A x \in asShown : x.run \in ASRuns BY DEF ASInv, ASTypes, ASRec
  <2>2. \A x \in asShown : asLog'[x.run].at = "none" \/ x \in ToSet(asLog'[x.run].recs)
    BY <1>2, <1>5, <2>1 DEF ASInv, ASShownStays
  <2> QED BY <1>7, <2>2 DEF ASInv, ASShownStays
<1>12. ASForgottenStaysGone' BY <1>2, <1>5 DEF ASInv, ASForgottenStaysGone, ASTypes
<1> QED BY <1>1, <1>2, <1>5, <1>6, <1>8, <1>9, <1>10, <1>11, <1>12 DEF ASAllFiles

\* The file of a log is made.
LEMMA ASCreateLogInv == ASSUME ASInv, NEW p \in ASProcs, ASCreateLog(p) PROVE ASInv'
<1>1. ASStep(p, "create", "header") /\ asLog' = [asLog EXCEPT ![asOp.run].at = "part"] /\ UNCHANGED <<asWitness, asRegistry, asSeq, asAnchor, asMem, asOp>>
  BY DEF ASCreateLog
<1>2. /\ asLock = p /\ ASH = "create" /\ ASH' = "header" /\ asPC' \in [ASProcs -> ASPCs]
      /\ UNCHANGED <<asLock, asShown, asForgot, asCut, asFaults>> /\ ASLocks'
  BY <1>1, ASSteps DEF ASPCs, ASOutside
<1>3. /\ asOp.run \in ASRuns /\ asLog' \in [ASRuns -> [at : {"none", "part", "whole"}, recs : Seq(ASRec), torn : BOOLEAN]]
      /\ asLog'[asOp.run].at = "part" /\ asLog'[asOp.run].recs = <<>> /\ ~asLog'[asOp.run].torn
      /\ \A r \in ASRuns : r # asOp.run => asLog'[r] = asLog[r]
      /\ asMem.cache[asOp.run] = "none" /\ ASAllFiles'
  BY <1>1, <1>2, ASLogBegins
<1>4. ASTypes' BY <1>1, <1>2, <1>3 DEF ASInv, ASTypes
<1>5. ASMemory' BY <1>1, <1>2 DEF ASInv, ASMemory, ASQuietAt
<1>6. ASOps' BY <1>1, <1>2 DEF ASInv, ASOps, ASQuietAt, ASBeginsAt
<1>7. ASBeginning' BY <1>1, <1>2, <1>3 DEF ASInv, ASBeginning, ASBeginsAt
<1>8. ASWorking' BY <1>1, <1>2, <1>3 DEF ASInv, ASWorking
<1>9. ASWhole' BY <1>1, <1>2, <1>3 DEF ASInv, ASWhole
<1>10. ASUnmade'
  <2>1. asWitness = "whole" BY <1>2, ASWitnessed DEF ASQuietAt
  <2> QED BY <1>1, <2>1 DEF ASUnmade
<1> QED BY <1>2, <1>3, <1>4, <1>5, <1>6, <1>7, <1>8, <1>9, <1>10 DEF ASInv, ASAllFiles

\* Its header is written.
LEMMA ASWriteHeaderInv == ASSUME ASInv, NEW p \in ASProcs, ASWriteHeader(p) PROVE ASInv'
<1>1. ASStep(p, "header", "anchor first") /\ asLog' = [asLog EXCEPT ![asOp.run].at = "whole"] /\ UNCHANGED <<asWitness, asRegistry, asSeq, asAnchor, asMem, asOp>>
  BY DEF ASWriteHeader
<1>2. /\ asLock = p /\ ASH = "header" /\ ASH' = "anchor first" /\ asPC' \in [ASProcs -> ASPCs]
      /\ UNCHANGED <<asLock, asShown, asForgot, asCut, asFaults>> /\ ASLocks'
  BY <1>1, ASSteps DEF ASPCs, ASOutside
<1>3. /\ asOp.run \in ASRuns /\ asLog' \in [ASRuns -> [at : {"none", "part", "whole"}, recs : Seq(ASRec), torn : BOOLEAN]]
      /\ asLog'[asOp.run].at = "whole" /\ asLog'[asOp.run].recs = <<>> /\ ~asLog'[asOp.run].torn
      /\ \A r \in ASRuns : r # asOp.run => asLog'[r] = asLog[r]
      /\ asMem.cache[asOp.run] = "none" /\ ASAllFiles'
  BY <1>1, <1>2, ASLogBegins
<1>4. ASTypes' BY <1>1, <1>2, <1>3 DEF ASInv, ASTypes
<1>5. ASMemory' BY <1>1, <1>2 DEF ASInv, ASMemory, ASQuietAt
<1>6. ASOps' BY <1>1, <1>2 DEF ASInv, ASOps, ASQuietAt, ASBeginsAt
<1>7. ASBeginning' BY <1>1, <1>2, <1>3 DEF ASInv, ASBeginning, ASBeginsAt
<1>8. ASWorking' BY <1>1, <1>2, <1>3 DEF ASInv, ASWorking
<1>9. ASWhole' BY <1>1, <1>2, <1>3 DEF ASInv, ASWhole
<1>10. ASUnmade'
  <2>1. asWitness = "whole" BY <1>2, ASWitnessed DEF ASQuietAt
  <2> QED BY <1>1, <2>1 DEF ASUnmade
<1> QED BY <1>2, <1>3, <1>4, <1>5, <1>6, <1>7, <1>8, <1>9, <1>10 DEF ASInv, ASAllFiles

\* Its first anchor is saved.
LEMMA ASFirstAnchorInv == ASSUME ASInv, NEW p \in ASProcs, ASFirstAnchor(p) PROVE ASInv'
<1>1. ASStep(p, "anchor first", "load") /\ asAnchor' = [asAnchor EXCEPT ![asOp.run] = 0] /\ UNCHANGED <<asWitness, asRegistry, asSeq, asLog, asMem, asOp>>
  BY DEF ASFirstAnchor
<1>2. /\ asLock = p /\ ASH = "anchor first" /\ ASH' = "load" /\ asPC' \in [ASProcs -> ASPCs]
      /\ UNCHANGED <<asLock, asShown, asForgot, asCut, asFaults>> /\ ASLocks' /\ ASUnmade'
  BY <1>1, ASSteps DEF ASPCs, ASOutside
<1>3. asOp # NoASOp /\ asOp.run \in ASRuns BY <1>2 DEF ASInv, ASOps, ASTypes, ASQuietAt
<1>4. asLog[asOp.run].at = "whole" /\ asLog[asOp.run].recs = <<>> /\ ~asLog[asOp.run].torn
  BY <1>2, <1>3 DEF ASInv, ASBeginning, ASBeginsAt
<1>5. asAnchor \in [ASRuns -> 0..NoASAnchor] /\ 0 \in 0..NoASAnchor BY ASAssumption DEF ASInv, ASTypes, NoASAnchor
<1>6. asAnchor' \in [ASRuns -> 0..NoASAnchor] /\ asAnchor'[asOp.run] = 0 /\ \A r \in ASRuns : r # asOp.run => asAnchor'[r] = asAnchor[r]
  BY <1>1, <1>3, <1>5
<1>7. ASTypes' BY <1>1, <1>2, <1>6 DEF ASInv, ASTypes
<1>8. ASMemory' BY <1>1, <1>2 DEF ASInv, ASMemory, ASQuietAt
<1>9. ASOps' BY <1>1, <1>2 DEF ASInv, ASOps, ASQuietAt, ASBeginsAt
<1>10. ASBeginning' BY <1>2 DEF ASBeginning, ASBeginsAt
<1>11. ASWorking' BY <1>1, <1>2 DEF ASInv, ASWorking
<1>12. ASWhole'
  <2>1. Len(asLog[asOp.run].recs) = 0 BY <1>4
  <2>2. asWitness = "whole" BY <1>2, ASWitnessed DEF ASQuietAt
  <2> SUFFICES ASSUME ~asCut
               PROVE  /\ asSeq.there /\ asSeq.runs = asRegistry
                      /\ \A q \in ASRuns : asLog[q].at # "none" => asLog[q].at = "whole" /\ ~asLog[q].torn /\ asAnchor'[q] <= Len(asLog[q].recs)
    BY <1>1, <1>2 DEF ASWhole
  <2>3. /\ asSeq.there /\ asSeq.runs = asRegistry
        /\ \A q \in ASRuns : asLog[q].at # "none" /\ q # asOp.run => asLog[q].at = "whole" /\ ~asLog[q].torn /\ asAnchor[q] <= Len(asLog[q].recs)
    BY <1>2, <2>2 DEF ASInv, ASWhole
  <2>4. asAnchor'[asOp.run] <= Len(asLog[asOp.run].recs) BY <1>6, <2>1
  <2> QED BY <1>4, <1>6, <2>3, <2>4
<1>13. ASAllFiles' BY <1>1, <1>2, ASFilesKept
<1> QED BY <1>2, <1>7, <1>8, <1>9, <1>10, <1>11, <1>12, <1>13 DEF ASInv, ASAllFiles

\* What is there of a log is shown.
LEMMA ASShowsMore ==
  ASSUME ASInv, NEW r \in ASRuns, asLog[r].at = "whole", asShown \subseteq asShown', asShown' \subseteq asShown \cup ToSet(asLog[r].recs),
         UNCHANGED <<asRegistry, asSeq, asLog, asForgot>>
  PROVE  asShown' \in SUBSET ASRec /\ ASAllFiles'
<1>1. asLog[r].recs \in Seq(ASRec) BY DEF ASInv, ASTypes
<1>2. ASLogOK(r, asLog[r], asSeq.next) /\ r \in asRegistry BY DEF ASInv, ASLogs
<1>3. \A x \in ToSet(asLog[r].recs) : x \in ASRec /\ x.run = r /\ x.ord <= asSeq.next /\ x \in ASWritten
  <2> SUFFICES ASSUME NEW x \in ToSet(asLog[r].recs) PROVE x \in ASRec /\ x.run = r /\ x.ord <= asSeq.next /\ x \in ASWritten OBVIOUS
  <2>1. PICK i \in DOMAIN asLog[r].recs : x = asLog[r].recs[i] BY DEF ToSet
  <2>2. x \in ASRec BY <1>1, <2>1
  <2>3. x.run = r /\ x.ord <= asSeq.next BY <1>2, <2>1 DEF ASLogOK
  <2>4. x \in ASWritten BY DEF ASWritten
  <2> QED BY <2>2, <2>3, <2>4
<1>4. asShown' \in SUBSET ASRec BY <1>3 DEF ASInv, ASTypes
<1>5. ASLogs' BY DEF ASInv, ASLogs
<1>6. ASAllShown' BY <1>2, <1>3 DEF ASInv, ASAllShown
<1>7. ASOrdinalsAreOnce'
  <2>1. ASWritten' = ASWritten BY DEF ASWritten
  <2>2. asShown' \cup ASWritten' \subseteq asShown \cup ASWritten BY <1>3, <2>1
  <2> QED BY <2>2 DEF ASInv, ASOrdinalsAreOnce
<1>8. ASShownStays' BY <1>3 DEF ASInv, ASShownStays
<1>9. ASForgottenStaysGone' BY DEF ASInv, ASForgottenStaysGone
<1> QED BY <1>4, <1>5, <1>6, <1>7, <1>8, <1>9 DEF ASAllFiles

\* What is found of an event is of the log.
LEMMA ASFoundThere == ASFound \subseteq ToSet(asLog[asOp.run].recs)
BY DEF ASFound

\* An append is on a whole log of a run.
LEMMA ASAppendAt ==
  ASSUME ASInv, ASH \in {"append", "write", "anchor", "read"}
  PROVE  asOp # NoASOp /\ asOp.run \in ASRuns /\ asOp.ev \in ASEvents /\ asLog[asOp.run].at = "whole" /\ asWitness = "whole"
<1>1. asOp # NoASOp BY DEF ASInv, ASOps, ASQuietAt
<1>2. asOp.run \in ASRuns /\ asOp.ev \in ASEvents BY <1>1 DEF ASInv, ASTypes
<1>3. asLog[asOp.run].at = "whole" BY DEF ASInv, ASWorking
<1>4. asWitness = "whole" BY ASWitnessed DEF ASQuietAt
<1> QED BY <1>1, <1>2, <1>3, <1>4

\* A call that showed something returns.
LEMMA ASShowsAndReturns ==
  ASSUME ASInv, NEW p \in ASProcs, asPC[p] \in {"append", "anchor", "read"}, ASReturn(p),
         asShown \subseteq asShown', asShown' \subseteq asShown \cup ToSet(asLog[asOp.run].recs),
         asAnchor' \in {asAnchor, [asAnchor EXCEPT ![asOp.run] = Len(asLog[asOp.run].recs)]},
         UNCHANGED <<asWitness, asRegistry, asSeq, asLog, asLock, asMem, asForgot, asCut, asFaults>>
  PROVE  ASInv'
<1>1. /\ asLock = p /\ ASH = asPC[p] /\ ASH' = "open" /\ asPC' \in [ASProcs -> ASPCs] /\ asOp' = NoASOp
      /\ ASLocks' /\ ASUnmade' /\ ASOps' /\ ASBeginning'
  <2>1. asPC[p] \notin ASOutside \cup {"fresh", "check"} BY DEF ASOutside
  <2>2. asCut => asCut' OBVIOUS
  <2> QED BY <2>1, <2>2, ASReturns
<1>2. asOp.run \in ASRuns /\ asLog[asOp.run].at = "whole" BY <1>1, ASAppendAt
<1>3. asShown' \in SUBSET ASRec /\ ASAllFiles' BY <1>2, ASShowsMore
<1>4. Len(asLog[asOp.run].recs) \in 0..NoASAnchor /\ Len(asLog[asOp.run].recs) \in Nat BY <1>2, ASLogLength, ASAssumption DEF NoASAnchor
<1>5. asAnchor \in [ASRuns -> 0..NoASAnchor] BY DEF ASInv, ASTypes
<1>6. /\ asAnchor' \in [ASRuns -> 0..NoASAnchor]
      /\ \A q \in ASRuns : asAnchor'[q] = asAnchor[q] \/ (q = asOp.run /\ asAnchor'[q] = Len(asLog[q].recs))
  BY <1>2, <1>4, <1>5
<1>7. ASTypes' BY <1>1, <1>3, <1>6 DEF ASInv, ASTypes
<1>8. ASMemory' BY <1>1 DEF ASInv, ASMemory, ASQuietAt
<1>9. ASWorking' BY <1>1 DEF ASInv, ASWorking
<1>10. ASWhole'
  <2> SUFFICES ASSUME ~asCut
               PROVE  /\ asSeq.there /\ asSeq.runs = asRegistry
                      /\ \A q \in ASRuns : asLog[q].at # "none" => asLog[q].at = "whole" /\ ~asLog[q].torn /\ asAnchor'[q] <= Len(asLog[q].recs)
    BY DEF ASWhole
  <2>1. asWitness = "whole" BY <1>1, ASAppendAt
  <2>2. /\ asSeq.there /\ asSeq.runs = asRegistry
        /\ \A q \in ASRuns : asLog[q].at # "none" => asLog[q].at = "whole" /\ ~asLog[q].torn /\ asAnchor[q] <= Len(asLog[q].recs)
    BY <1>1, <2>1 DEF ASInv, ASWhole
  <2>3. \A q \in ASRuns : asLog[q].at # "none" => asAnchor'[q] <= Len(asLog[q].recs)
    <3> TAKE q \in ASRuns
    <3>1. CASE asAnchor'[q] = asAnchor[q] BY <2>2, <3>1
    <3>2. CASE q = asOp.run /\ asAnchor'[q] = Len(asLog[q].recs) BY <1>4, <3>2
    <3> QED BY <1>6, <3>1, <3>2
  <2> QED BY <2>2, <2>3
<1> QED BY <1>1, <1>3, <1>7, <1>8, <1>9, <1>10 DEF ASInv, ASAllFiles

\* An event that is there is answered.
LEMMA ASAnswerInv == ASSUME ASInv, NEW p \in ASProcs, ASAnswer(p) PROVE ASInv'
<1>1. /\ asPC[p] = "append" /\ asShown' = asShown \cup ASFound /\ ASReturn(p)
      /\ UNCHANGED <<asWitness, asRegistry, asSeq, asLog, asAnchor, asLock, asMem, asForgot, asCut, asFaults>>
  BY DEF ASAnswer, ASAt, asFiles
<1> QED BY <1>1, ASFoundThere, ASShowsAndReturns

\* An anchor is saved and its event answered.
LEMMA saveAnchorInv == ASSUME ASInv, NEW p \in ASProcs, saveAnchor(p) PROVE ASInv'
<1>1. /\ asPC[p] = "anchor" /\ asShown' = asShown \cup ASFound /\ ASReturn(p)
      /\ asAnchor' = [asAnchor EXCEPT ![asOp.run] = Len(asLog[asOp.run].recs)]
      /\ UNCHANGED <<asWitness, asRegistry, asSeq, asLog, asLock, asMem, asForgot, asCut, asFaults>>
  BY DEF saveAnchor, ASAt
<1> QED BY <1>1, ASFoundThere, ASShowsAndReturns

\* A page is read.
LEMMA ASReadInv == ASSUME ASInv, NEW p \in ASProcs, ASRead(p) PROVE ASInv'
<1>1. /\ asPC[p] = "read" /\ asShown' = asShown \cup ToSet(asLog[asOp.run].recs) /\ ASReturn(p)
      /\ UNCHANGED <<asWitness, asRegistry, asSeq, asLog, asAnchor, asLock, asMem, asForgot, asCut, asFaults>>
  BY DEF ASRead, ASAt, asFiles
<1> QED BY <1>1, ASShowsAndReturns

\* A log's place in the cache is changed, to an error or to nothing.
LEMMA ASCacheSpoils ==
  ASSUME ASInv, NEW r \in ASRuns, NEW c \in {"none", "err"}, NEW s \in SUBSET {"registry", "sequence"},
         asMem' = [asMem EXCEPT !.cache[r] = c, !.replaced = s]
  PROVE  /\ asMem' \in [next : 0..ASMaxNext, runs : SUBSET ASRuns, cache : [ASRuns -> {"none", "ok", "err"}], replaced : SUBSET {"registry", "sequence"}]
         /\ asMem'.next = asMem.next /\ asMem'.runs = asMem.runs /\ asMem'.replaced = s
         /\ \A q \in ASRuns : asMem'.cache[q] = "ok" => q # r /\ asMem.cache[q] = "ok"
<1>1. asMem \in [next : 0..ASMaxNext, runs : SUBSET ASRuns, cache : [ASRuns -> {"none", "ok", "err"}], replaced : SUBSET {"registry", "sequence"}]
  BY DEF ASInv, ASTypes
<1> QED BY <1>1

\* An append is refused its ordinal.
LEMMA ASNoSequenceInv == ASSUME ASInv, NEW p \in ASProcs, ASNoSequence(p) PROVE ASInv'
<1>1. /\ asPC[p] = "append" /\ asMem' = [asMem EXCEPT !.cache[asOp.run] = "err"] /\ ASReturn(p)
      /\ UNCHANGED <<asWitness, asRegistry, asSeq, asLog, asAnchor, asLock, asShown, asForgot, asCut, asFaults>>
  BY DEF ASNoSequence, ASAt, asFiles, asGhosts
<1>2. /\ asLock = p /\ ASH = "append" /\ ASH' = "open" /\ asPC' \in [ASProcs -> ASPCs] /\ asOp' = NoASOp
      /\ ASLocks' /\ ASUnmade' /\ ASOps' /\ ASBeginning'
  <2>1. asPC[p] \notin ASOutside \cup {"fresh", "check"} BY <1>1 DEF ASOutside
  <2>2. asCut => asCut' BY <1>1
  <2> QED BY <1>1, <2>1, <2>2, ASReturns
<1>3. asOp.run \in ASRuns BY <1>2, ASAppendAt
<1>4. /\ asMem' \in [next : 0..ASMaxNext, runs : SUBSET ASRuns, cache : [ASRuns -> {"none", "ok", "err"}], replaced : SUBSET {"registry", "sequence"}]
      /\ asMem'.next = asMem.next /\ asMem'.runs = asMem.runs /\ asMem'.replaced = asMem.replaced
      /\ \A q \in ASRuns : asMem'.cache[q] = "ok" => asMem.cache[q] = "ok"
  <2>1. asMem \in [next : 0..ASMaxNext, runs : SUBSET ASRuns, cache : [ASRuns -> {"none", "ok", "err"}], replaced : SUBSET {"registry", "sequence"}]
    BY DEF ASInv, ASTypes
  <2> QED BY <1>1, <1>3, <2>1
<1>5. ASTypes' BY <1>1, <1>2, <1>4 DEF ASInv, ASTypes
<1>6. ASMemory' BY <1>1, <1>2, <1>4 DEF ASInv, ASMemory, ASQuietAt
<1>7. ASWorking' BY <1>1, <1>2, <1>4 DEF ASInv, ASWorking
<1>8. ASWhole' BY <1>1, <1>2 DEF ASInv, ASWhole
<1>9. ASAllFiles' BY <1>1, ASFilesKept
<1> QED BY <1>2, <1>5, <1>6, <1>7, <1>8, <1>9 DEF ASInv, ASAllFiles

\* An ordinal is made durable.
LEMMA ASAllocateInv == ASSUME ASInv, NEW p \in ASProcs, ASAllocate(p) PROVE ASInv'
<1>1. /\ ASStep(p, "append", "write") /\ ASFound = {} /\ "sequence" \notin asMem.replaced /\ asMem.next < ASMaxNext
      /\ asMem' = [asMem EXCEPT !.next = @ + 1] /\ asSeq' = [asSeq EXCEPT !.next = asMem.next + 1]
      /\ UNCHANGED <<asWitness, asRegistry, asLog, asAnchor, asOp>>
  BY DEF ASAllocate
<1>2. /\ asLock = p /\ ASH = "append" /\ ASH' = "write" /\ asPC' \in [ASProcs -> ASPCs]
      /\ UNCHANGED <<asLock, asShown, asForgot, asCut, asFaults>> /\ ASLocks' /\ ASUnmade'
  BY <1>1, ASSteps DEF ASPCs, ASOutside
<1>3. asOp # NoASOp /\ asOp.run \in ASRuns /\ asLog[asOp.run].at = "whole" BY <1>2, ASAppendAt
<1>4. /\ asMem \in [next : 0..ASMaxNext, runs : SUBSET ASRuns, cache : [ASRuns -> {"none", "ok", "err"}], replaced : SUBSET {"registry", "sequence"}]
      /\ asSeq \in [there : BOOLEAN, next : 0..ASMaxNext, runs : SUBSET ASRuns]
  BY DEF ASInv, ASTypes
<1>5. asMem.next + 1 \in 0..ASMaxNext BY <1>1, <1>4, ASAssumption
<1>6. /\ asMem' \in [next : 0..ASMaxNext, runs : SUBSET ASRuns, cache : [ASRuns -> {"none", "ok", "err"}], replaced : SUBSET {"registry", "sequence"}]
      /\ asMem'.next = asMem.next + 1 /\ asMem'.runs = asMem.runs /\ asMem'.replaced = asMem.replaced /\ asMem'.cache = asMem.cache
  BY <1>1, <1>4, <1>5
<1>7. asSeq' \in [there : BOOLEAN, next : 0..ASMaxNext, runs : SUBSET ASRuns] /\ asSeq'.next = asMem.next + 1 /\ asSeq'.runs = asSeq.runs
  BY <1>1, <1>4, <1>5
<1>8. asSeq'.there = asSeq.there BY <1>1, <1>4
<1>9. asMem.next = asSeq.next /\ asRegistry \subseteq asMem.runs BY <1>1, <1>2 DEF ASInv, ASMemory, ASQuietAt
<1>10. ASTypes' BY <1>1, <1>2, <1>6, <1>7 DEF ASInv, ASTypes
<1>11. asMem.next \in Nat /\ asSeq.next \in Nat BY <1>4, ASAssumption
<1>12. ASMemory' BY <1>1, <1>2, <1>6, <1>7, <1>9, <1>11 DEF ASMemory, ASQuietAt
<1>13. ASOps' BY <1>1, <1>2, <1>3 DEF ASOps, ASQuietAt, ASBeginsAt
<1>14. ASBeginning' BY <1>2 DEF ASBeginning, ASBeginsAt
<1>15. ASWorking'
  <2>1. \A r \in ASRuns : asMem'.cache[r] = "ok" => asLog'[r].at \in {"none", "whole"} BY <1>1, <1>6 DEF ASInv, ASWorking
  <2>2. \A x \in asShown : x.ord < asMem'.next
    <3>1. \A x \in asShown : x.ord \in Nat /\ x.ord <= asSeq.next BY ASAssumption DEF ASInv, ASTypes, ASRec, ASAllShown
    <3> QED BY <1>6, <1>9, <1>11, <3>1
  <2>3. \A r \in ASRuns : \A i \in DOMAIN asLog[r].recs : asLog[r].recs[i].ord < asMem'.next
    <3> TAKE r \in ASRuns
    <3> TAKE i \in DOMAIN asLog[r].recs
    <3>1. asLog[r].recs[i] \in ASRec BY ASLogLength
    <3>2. asLog[r].recs[i].ord \in Nat BY <3>1, ASAssumption DEF ASRec
    <3>3. asLog[r].recs[i].ord <= asSeq.next BY DEF ASInv, ASLogs, ASLogOK
    <3> QED BY <1>6, <1>9, <1>11, <3>2, <3>3
  <2>4. \A i \in DOMAIN asLog[asOp.run].recs : asLog[asOp.run].recs[i].ev # asOp.ev BY <1>1 DEF ASFound, ToSet
  <2>5. "sequence" \notin asMem'.replaced /\ asMem'.next > 0 BY <1>1, <1>6, <1>11
  <2> QED BY <1>1, <1>2, <1>3, <2>1, <2>2, <2>3, <2>4, <2>5 DEF ASWorking
<1>16. ASWhole'
  <2> SUFFICES ASSUME ~asCut
               PROVE  /\ asWitness = "whole" => asSeq'.there /\ asSeq'.runs = asRegistry
                      /\ \A q \in ASRuns : asLog[q].at # "none" => asLog[q].at = "whole" /\ ~asLog[q].torn /\ asAnchor[q] <= Len(asLog[q].recs)
    BY <1>1, <1>2 DEF ASWhole
  <2>1. /\ asWitness = "whole" => asSeq.there /\ asSeq.runs = asRegistry
        /\ \A q \in ASRuns : asLog[q].at # "none" => asLog[q].at = "whole" /\ ~asLog[q].torn /\ asAnchor[q] <= Len(asLog[q].recs)
    BY <1>2 DEF ASInv, ASWhole
  <2> QED BY <1>7, <1>8, <2>1
<1>17. ASAllFiles'
  <2>1. asSeq'.next \in Nat /\ asSeq'.next >= asSeq.next BY <1>7, <1>9, <1>11
  <2> QED BY <1>1, <1>2, <2>1, ASFilesGrow
<1> QED BY <1>2, <1>10, <1>12, <1>13, <1>14, <1>15, <1>16, <1>17 DEF ASInv, ASAllFiles

\* A record is written after the others: its ordinal is above them all.
LEMMA ASFilesWritten ==
  ASSUME ASInv, ASH = "write",
         asLog' = [asLog EXCEPT ![asOp.run].recs = Append(@, [run |-> asOp.run, ev |-> asOp.ev, ord |-> asMem.next])],
         UNCHANGED <<asRegistry, asSeq, asShown, asForgot>>
  PROVE  /\ asLog' \in [ASRuns -> [at : {"none", "part", "whole"}, recs : Seq(ASRec), torn : BOOLEAN]]
         /\ asLog'[asOp.run].at = "whole" /\ Len(asLog'[asOp.run].recs) = Len(asLog[asOp.run].recs) + 1
         /\ asLog'[asOp.run].torn = asLog[asOp.run].torn
         /\ \A r \in ASRuns : r # asOp.run => asLog'[r] = asLog[r]
         /\ ASAllFiles'
<1> DEFINE w == asOp.run
           x == [run |-> asOp.run, ev |-> asOp.ev, ord |-> asMem.next]
           s == asLog[w].recs
           n == asMem.next
<1>1. w \in ASRuns /\ asOp.ev \in ASEvents /\ asLog[w].at = "whole" BY ASAppendAt
<1>2. /\ n > 0 /\ (\A y \in asShown : y.ord < n)
      /\ (\A r \in ASRuns : \A i \in DOMAIN asLog[r].recs : asLog[r].recs[i].ord < n)
      /\ (\A i \in DOMAIN s : s[i].ev # asOp.ev) /\ "sequence" \notin asMem.replaced
  BY DEF ASInv, ASWorking
<1>3. n \in 0..ASMaxNext /\ n = asSeq.next BY <1>2 DEF ASInv, ASTypes, ASMemory, ASQuietAt
<1>4. n \in Nat BY <1>3, ASAssumption
<1>5. x \in ASRec /\ x.run = w /\ x.ev = asOp.ev /\ x.ord = n BY <1>1, <1>2, <1>3, <1>4, ASAssumption DEF ASRec
<1>6. asLog \in [ASRuns -> [at : {"none", "part", "whole"}, recs : Seq(ASRec), torn : BOOLEAN]] BY DEF ASInv, ASTypes
<1>7. s \in Seq(ASRec) BY <1>1, <1>6
<1>8. ASLogOK(w, asLog[w], n) /\ w \in asRegistry BY <1>1, <1>3 DEF ASInv, ASLogs
<1> DEFINE t == Append(s, x)
<1>9. asLog' = [asLog EXCEPT ![w].recs = t] OBVIOUS
<1> HIDE DEF x
<1>10. /\ t \in Seq(ASRec) /\ Len(t) = Len(s) + 1 /\ Len(s) \in Nat /\ DOMAIN s = 1..Len(s) /\ DOMAIN t = 1..(Len(s) + 1)
       /\ (\A i \in 1..Len(s) : t[i] = s[i]) /\ t[Len(s) + 1] = x
  BY <1>5, <1>7
<1> HIDE DEF t
<1>11. /\ asLog' \in [ASRuns -> [at : {"none", "part", "whole"}, recs : Seq(ASRec), torn : BOOLEAN]]
       /\ asLog'[w].at = "whole" /\ asLog'[w].recs = t /\ \A r \in ASRuns : r # w => asLog'[r] = asLog[r]
  <2>1. asLog' = [asLog EXCEPT ![w] = [asLog[w] EXCEPT !.recs = t]] BY <1>1, <1>6, <1>9
  <2>2. asLog[w] \in [at : {"none", "part", "whole"}, recs : Seq(ASRec), torn : BOOLEAN] BY <1>1, <1>6
  <2> DEFINE l == [asLog[w] EXCEPT !.recs = t]
  <2>3. l \in [at : {"none", "part", "whole"}, recs : Seq(ASRec), torn : BOOLEAN] /\ l.recs = t BY <1>10, <2>2
  <2>4. l.at = "whole" BY <1>1, <2>2
  <2> HIDE DEF l
  <2>5. asLog' = [asLog EXCEPT ![w] = l] BY <2>1 DEF l
  <2> HIDE DEF w
  <2>6. asLog'[w] = l /\ (\A r \in ASRuns : r # w => asLog'[r] = asLog[r])
        /\ asLog' \in [ASRuns -> [at : {"none", "part", "whole"}, recs : Seq(ASRec), torn : BOOLEAN]]
    <3> DEFINE S == [at : {"none", "part", "whole"}, recs : Seq(ASRec), torn : BOOLEAN]
    <3>1. asLog \in [ASRuns -> S] /\ l \in S /\ w \in ASRuns BY <1>1, <1>6, <2>3
    <3> HIDE DEF S
    <3>2. asLog'[w] = l /\ (\A r \in ASRuns : r # w => asLog'[r] = asLog[r]) /\ asLog' \in [ASRuns -> S] BY <2>5, <3>1
    <3> QED BY <3>2 DEF S
  <2> QED BY <2>3, <2>4, <2>6
<1>12. asLog'[w].torn = asLog[w].torn BY <1>1, <1>6, <1>9
<1>13. \A i \in DOMAIN s : s[i].run = w /\ i <= s[i].ord /\ s[i].ord < n /\ s[i].ord \in Nat /\ s[i].ev # asOp.ev
  <2> TAKE i \in DOMAIN s
  <2>1. s[i] \in ASRec BY <1>7
  <2>2. s[i].ord \in Nat BY <2>1, ASAssumption DEF ASRec
  <2> QED BY <1>1, <1>2, <1>8, <2>2 DEF ASLogOK
<1> HIDE DEF s
<1>14. Len(s) + 1 <= n
  <2>1. CASE Len(s) = 0 BY <1>2, <1>4, <2>1
  <2>2. CASE Len(s) # 0
    <3>1. Len(s) \in DOMAIN s BY <1>10, <2>2
    <3>2. Len(s) <= s[Len(s)].ord /\ s[Len(s)].ord < n /\ s[Len(s)].ord \in Nat BY <1>13, <3>1
    <3> QED BY <1>4, <1>10, <3>2
  <2> QED BY <2>1, <2>2
<1>15. \A i, j \in DOMAIN s : i < j => s[i].ord < s[j].ord /\ s[i].ev # s[j].ev BY <1>8 DEF ASLogOK, s
<1>16. \A i \in DOMAIN t : t[i].run = w /\ i <= t[i].ord /\ t[i].ord <= n
  <2> TAKE i \in DOMAIN t
  <2>1. CASE i = Len(s) + 1 BY <1>4, <1>5, <1>10, <1>14, <2>1
  <2>2. CASE i \in DOMAIN s BY <1>4, <1>10, <1>13, <2>2
  <2> QED BY <1>10, <2>1, <2>2
<1>17. \A i, j \in DOMAIN t : i < j => t[i].ord < t[j].ord /\ t[i].ev # t[j].ev
  <2> SUFFICES ASSUME NEW i \in DOMAIN t, NEW j \in DOMAIN t, i < j PROVE t[i].ord < t[j].ord /\ t[i].ev # t[j].ev OBVIOUS
  <2>1. i \in DOMAIN s BY <1>10
  <2>2. t[i] = s[i] BY <1>10, <2>1
  <2>3. CASE j = Len(s) + 1
    <3>1. t[j].ord = n /\ t[j].ev = asOp.ev BY <1>5, <1>10, <2>3
    <3> QED BY <1>13, <2>1, <2>2, <3>1
  <2>4. CASE j \in DOMAIN s
    <3>1. t[j] = s[j] BY <1>10, <2>4
    <3> QED BY <1>15, <2>1, <2>2, <2>4, <3>1
  <2> QED BY <1>10, <2>3, <2>4
<1>18. ASLogOK(w, asLog'[w], n)
  <2> DEFINE l == asLog'[w]
  <2>2. l.at = "whole" /\ l.recs = t BY <1>11
  <2> HIDE DEF l, w
  <2>3. ASLogOK(w, l, n) BY <1>16, <1>17, <2>2 DEF ASLogOK
  <2> QED BY <2>3 DEF l
<1>19. ASLogs'
  <2> SUFFICES ASSUME NEW r \in ASRuns PROVE ASLogOK(r, asLog'[r], asSeq.next) /\ (asLog'[r].at # "none" => r \in asRegistry) BY DEF ASLogs
  <2>1. CASE r # w BY <1>11, <2>1 DEF ASInv, ASLogs
  <2>2. CASE r = w BY <1>3, <1>8, <1>18, <2>2
  <2> QED BY <2>1, <2>2
<1>20. ASAllShown' BY DEF ASInv, ASAllShown
<1>21. ToSet(t) = ToSet(s) \cup {x}
  <2>1. ToSet(t) = {t[i] : i \in DOMAIN t} /\ ToSet(s) = {s[i] : i \in DOMAIN s} BY DEF ToSet
  <2> QED BY <1>10, <2>1
<1>22. \A r \in ASRuns : \A y \in ToSet(asLog[r].recs) : y.ord < n /\ y.ord \in Nat
  <2> SUFFICES ASSUME NEW r \in ASRuns, NEW y \in ToSet(asLog[r].recs) PROVE y.ord < n /\ y.ord \in Nat OBVIOUS
  <2>1. PICK i \in DOMAIN asLog[r].recs : y = asLog[r].recs[i] BY DEF ToSet
  <2>2. y \in ASRec BY <2>1, ASLogLength
  <2> QED BY <1>2, <2>1, <2>2, ASAssumption DEF ASRec
<1>23. ASOrdinalsAreOnce'
  <2>1. \A y \in ASWritten' : y \in ASWritten \/ y = x
    <3> SUFFICES ASSUME NEW y \in ASWritten' PROVE y \in ASWritten \/ y = x OBVIOUS
    <3>1. PICK r \in ASRuns : y \in ToSet(asLog'[r].recs) BY DEF ASWritten
    <3>2. CASE r # w BY <1>11, <3>1, <3>2 DEF ASWritten
    <3>3. CASE r = w
      <4>1. y \in ToSet(s) \/ y = x BY <1>11, <1>21, <3>1, <3>3
      <4> QED BY <1>1, <4>1 DEF ASWritten, s
    <3> QED BY <3>2, <3>3
  <2>2. \A y \in asShown \cup ASWritten : y.ord < n /\ y.ord \in Nat
    <3>1. \A y \in asShown : y.ord < n /\ y.ord \in Nat BY <1>2, ASAssumption DEF ASInv, ASTypes, ASRec
    <3>2. \A y \in ASWritten : y.ord < n /\ y.ord \in Nat BY <1>22 DEF ASWritten
    <3> QED BY <3>1, <3>2
  <2>3. \A y \in asShown \cup ASWritten : y.ord # x.ord BY <1>4, <1>5, <2>2
  <2>4. \A y, z \in asShown \cup ASWritten : y.ord = z.ord => y = z BY DEF ASInv, ASOrdinalsAreOnce
  <2>5. \A y \in asShown' \cup ASWritten' : y = x \/ y \in asShown \cup ASWritten BY <2>1
  <2> QED BY <2>3, <2>4, <2>5 DEF ASOrdinalsAreOnce
<1>24. ASShownStays'
  <2>1. \A y \in asShown : y.run \in ASRuns BY DEF ASInv, ASTypes, ASRec
  <2>2. \A y \in asShown : asLog[y.run].at = "none" \/ y \in ToSet(asLog[y.run].recs) BY DEF ASInv, ASShownStays
  <2>3. \A y \in asShown : asLog'[y.run].at = "none" \/ y \in ToSet(asLog'[y.run].recs)
    <3> TAKE y \in asShown
    <3>1. CASE y.run # w BY <1>11, <2>1, <2>2, <3>1
    <3>2. CASE y.run = w
      <4>1. y \in ToSet(s) BY <1>1, <2>2, <3>2 DEF s
      <4> QED BY <1>11, <1>21, <3>2, <4>1
    <3> QED BY <3>1, <3>2
  <2>4. \A r \in ASRuns : \A i, j \in DOMAIN asLog'[r].recs :
          i < j => asLog'[r].recs[i].ord < asLog'[r].recs[j].ord /\ asLog'[r].recs[i].ev # asLog'[r].recs[j].ev
    <3> TAKE r \in ASRuns
    <3>1. CASE r # w BY <1>11, <3>1 DEF ASInv, ASShownStays
    <3>2. CASE r = w BY <1>11, <1>17, <3>2
    <3> QED BY <3>1, <3>2
  <2> QED BY <2>3, <2>4 DEF ASShownStays
<1>25. ASForgottenStaysGone'
  <2>1. \A r \in asForgot : r \in ASRuns /\ asLog[r].at = "none" BY DEF ASInv, ASForgottenStaysGone, ASTypes
  <2>2. \A r \in asForgot : r # w BY <1>1, <2>1
  <2> QED BY <1>11, <2>1, <2>2 DEF ASForgottenStaysGone
<1> QED BY <1>10, <1>11, <1>12, <1>19, <1>20, <1>23, <1>24, <1>25 DEF ASAllFiles, s

\* A record that was torn is the end of its log.
LEMMA ASFilesTorn ==
  ASSUME ASInv, ASH = "write", ASTorn, UNCHANGED <<asRegistry, asSeq, asShown, asForgot>>
  PROVE  /\ asLog' \in [ASRuns -> [at : {"none", "part", "whole"}, recs : Seq(ASRec), torn : BOOLEAN]]
         /\ \A r \in ASRuns : asLog'[r].at = asLog[r].at /\ asLog'[r].recs = asLog[r].recs
         /\ ASAllFiles'
<1>1. asOp.run \in ASRuns /\ asLog[asOp.run].at = "whole" BY ASAppendAt
<1>2. asLog \in [ASRuns -> [at : {"none", "part", "whole"}, recs : Seq(ASRec), torn : BOOLEAN]] BY DEF ASInv, ASTypes
<1>3. /\ asLog' \in [ASRuns -> [at : {"none", "part", "whole"}, recs : Seq(ASRec), torn : BOOLEAN]]
      /\ \A r \in ASRuns : asLog'[r].at = asLog[r].at /\ asLog'[r].recs = asLog[r].recs
      /\ \A r \in ASRuns : r # asOp.run => asLog'[r] = asLog[r]
  BY <1>1, <1>2 DEF ASTorn
<1>4. ASLogs'
  <2> SUFFICES ASSUME NEW r \in ASRuns PROVE ASLogOK(r, asLog'[r], asSeq.next) /\ (asLog'[r].at # "none" => r \in asRegistry) BY DEF ASLogs
  <2>1. ASLogOK(r, asLog[r], asSeq.next) /\ (asLog[r].at # "none" => r \in asRegistry) BY DEF ASInv, ASLogs
  <2>2. CASE r # asOp.run BY <1>3, <2>1, <2>2
  <2>3. CASE r = asOp.run BY <1>1, <1>3, <2>1, <2>3 DEF ASLogOK
  <2> QED BY <2>2, <2>3
<1>5. ASAllShown' BY DEF ASInv, ASAllShown
<1>6. ASOrdinalsAreOnce'
  <2>1. ASWritten' = ASWritten BY <1>3 DEF ASWritten
  <2> QED BY <2>1 DEF ASInv, ASOrdinalsAreOnce
<1>7. ASShownStays'
  <2>1. \A x \in asShown : x.run \in ASRuns BY DEF ASInv, ASTypes, ASRec
  <2> QED BY <1>3, <2>1 DEF ASInv, ASShownStays
<1>8. ASForgottenStaysGone' BY <1>3 DEF ASInv, ASForgottenStaysGone, ASTypes
<1> QED BY <1>3, <1>4, <1>5, <1>6, <1>7, <1>8 DEF ASAllFiles

\* A record is written.
LEMMA ASWriteInv == ASSUME ASInv, NEW p \in ASProcs, ASWrite(p) PROVE ASInv'
<1>1. /\ ASStep(p, "write", "anchor")
      /\ asLog' = [asLog EXCEPT ![asOp.run].recs = Append(@, [run |-> asOp.run, ev |-> asOp.ev, ord |-> asMem.next])]
      /\ UNCHANGED <<asWitness, asRegistry, asSeq, asAnchor, asMem, asOp>>
  BY DEF ASWrite
<1>2. /\ asLock = p /\ ASH = "write" /\ ASH' = "anchor" /\ asPC' \in [ASProcs -> ASPCs]
      /\ UNCHANGED <<asLock, asShown, asForgot, asCut, asFaults>> /\ ASLocks'
  BY <1>1, ASSteps DEF ASPCs, ASOutside
<1>3. asOp.run \in ASRuns /\ asLog[asOp.run].at = "whole" /\ asWitness = "whole" BY <1>2, ASAppendAt
<1>4. /\ asLog' \in [ASRuns -> [at : {"none", "part", "whole"}, recs : Seq(ASRec), torn : BOOLEAN]]
      /\ asLog'[asOp.run].at = "whole" /\ Len(asLog'[asOp.run].recs) = Len(asLog[asOp.run].recs) + 1
      /\ asLog'[asOp.run].torn = asLog[asOp.run].torn
      /\ \A r \in ASRuns : r # asOp.run => asLog'[r] = asLog[r]
      /\ ASAllFiles'
  BY <1>1, <1>2, ASFilesWritten
<1>5. ASTypes' BY <1>1, <1>2, <1>4 DEF ASInv, ASTypes
<1>6. ASUnmade' BY <1>1, <1>3 DEF ASUnmade
<1>7. ASMemory' BY <1>1, <1>2 DEF ASInv, ASMemory, ASQuietAt
<1>8. ASOps' BY <1>1, <1>2 DEF ASInv, ASOps, ASQuietAt, ASBeginsAt
<1>9. ASBeginning' BY <1>2 DEF ASBeginning, ASBeginsAt
<1>10. ASWorking' BY <1>1, <1>2, <1>3, <1>4 DEF ASInv, ASWorking
<1>11. ASWhole'
  <2> SUFFICES ASSUME ~asCut
               PROVE  /\ asSeq.there /\ asSeq.runs = asRegistry
                      /\ \A q \in ASRuns : asLog'[q].at # "none" => asLog'[q].at = "whole" /\ ~asLog'[q].torn /\ asAnchor[q] <= Len(asLog'[q].recs)
    BY <1>1, <1>2 DEF ASWhole
  <2>1. /\ asSeq.there /\ asSeq.runs = asRegistry
        /\ \A q \in ASRuns : asLog[q].at # "none" => asLog[q].at = "whole" /\ ~asLog[q].torn /\ asAnchor[q] <= Len(asLog[q].recs)
    BY <1>2, <1>3 DEF ASInv, ASWhole
  <2>2. Len(asLog[asOp.run].recs) \in Nat /\ asAnchor[asOp.run] \in Nat BY <1>3, ASLogLength, ASAssumption DEF ASInv, ASTypes, NoASAnchor
  <2>3. asAnchor[asOp.run] <= Len(asLog'[asOp.run].recs) BY <1>3, <1>4, <2>1, <2>2
  <2> QED BY <1>3, <1>4, <2>1, <2>3
<1> QED BY <1>2, <1>4, <1>5, <1>6, <1>7, <1>8, <1>9, <1>10, <1>11 DEF ASInv, ASAllFiles

\* A log is removed.
LEMMA ASRemoveLogInv == ASSUME ASInv, NEW p \in ASProcs, ASRemoveLog(p) PROVE ASInv'
<1>1. ASStep(p, "remove", "remove anchor") /\ asLog' = [asLog EXCEPT ![asOp.run] = NoASLog] /\ UNCHANGED <<asWitness, asRegistry, asSeq, asAnchor, asMem, asOp>>
  BY DEF ASRemoveLog
<1>2. /\ asLock = p /\ ASH = "remove" /\ ASH' = "remove anchor" /\ asPC' \in [ASProcs -> ASPCs]
      /\ UNCHANGED <<asLock, asShown, asForgot, asCut, asFaults>> /\ ASLocks'
  BY <1>1, ASSteps DEF ASPCs, ASOutside
<1>3. asOp.run \in ASRuns /\ asWitness = "whole"
  <2>1. asOp # NoASOp /\ asWitness = "whole" BY <1>2, ASWitnessed DEF ASInv, ASOps, ASQuietAt
  <2> QED BY <2>1 DEF ASInv, ASTypes
<1>4. asLog'[asOp.run] = NoASLog /\ (\A r \in ASRuns : r # asOp.run => asLog'[r] = asLog[r])
  BY <1>1, <1>3 DEF ASInv, ASTypes
<1>5. asLog' \in [ASRuns -> [at : {"none", "part", "whole"}, recs : Seq(ASRec), torn : BOOLEAN]]
  <2> DEFINE S == [at : {"none", "part", "whole"}, recs : Seq(ASRec), torn : BOOLEAN]
  <2>1. asLog \in [ASRuns -> S] BY DEF ASInv, ASTypes
  <2>2. NoASLog \in S BY DEF NoASLog
  <2> HIDE DEF S
  <2>3. asLog' \in [ASRuns -> S] BY <1>1, <1>3, <2>1, <2>2
  <2> QED BY <2>3 DEF S
<1>6. ASTypes' BY <1>1, <1>2, <1>5 DEF ASInv, ASTypes
<1>7. ASUnmade' BY <1>1, <1>3 DEF ASUnmade
<1>8. ASMemory' BY <1>1, <1>2 DEF ASInv, ASMemory, ASQuietAt
<1>9. ASOps' BY <1>1, <1>2 DEF ASInv, ASOps, ASQuietAt, ASBeginsAt
<1>10. ASBeginning' BY <1>2 DEF ASBeginning, ASBeginsAt
<1>11. ASWorking' BY <1>1, <1>2, <1>3, <1>4, ASNothing DEF ASInv, ASWorking
<1>12. ASWhole' BY <1>1, <1>2, <1>4, ASNothing DEF ASInv, ASWhole
<1>13. ASLogs'
  <2> SUFFICES ASSUME NEW r \in ASRuns PROVE ASLogOK(r, asLog'[r], asSeq.next) /\ (asLog'[r].at # "none" => r \in asRegistry)
    BY <1>1 DEF ASLogs
  <2>1. CASE r # asOp.run BY <1>4, <2>1 DEF ASInv, ASLogs
  <2>2. CASE r = asOp.run BY <1>4, <2>2, ASNothing DEF ASLogOK
  <2> QED BY <2>1, <2>2
<1>14. ASAllShown' BY <1>1, <1>2 DEF ASInv, ASAllShown
<1>15. ASOrdinalsAreOnce'
  <2>1. \A y \in ASWritten' : y \in ASWritten
    <3> SUFFICES ASSUME NEW y \in ASWritten' PROVE y \in ASWritten OBVIOUS
    <3>1. PICK r \in ASRuns : y \in ToSet(asLog'[r].recs) BY DEF ASWritten
    <3>2. CASE r # asOp.run BY <1>4, <3>1, <3>2 DEF ASWritten
    <3>3. CASE r = asOp.run BY <1>4, <3>1, <3>3, ASNothing DEF ToSet
    <3> QED BY <3>2, <3>3
  <2>2. asShown' = asShown BY <1>2
  <2> QED BY <2>1, <2>2 DEF ASInv, ASOrdinalsAreOnce
<1>16. ASShownStays'
  <2>1. \A x \in asShown : x.run \in ASRuns BY DEF ASInv, ASTypes, ASRec
  <2>2. \A x \in asShown : asLog'[x.run].at = "none" \/ x \in ToSet(asLog'[x.run].recs)
    BY <1>4, <2>1, ASNothing DEF ASInv, ASShownStays
  <2>3. \A r \in ASRuns : \A i, j \in DOMAIN asLog'[r].recs :
          i < j => asLog'[r].recs[i].ord < asLog'[r].recs[j].ord /\ asLog'[r].recs[i].ev # asLog'[r].recs[j].ev
    <3> TAKE r \in ASRuns
    <3>1. CASE r # asOp.run BY <1>4, <3>1 DEF ASInv, ASShownStays
    <3>2. CASE r = asOp.run BY <1>4, <3>2, ASNothing
    <3> QED BY <3>1, <3>2
  <2> QED BY <1>2, <2>2, <2>3 DEF ASShownStays
<1>17. ASForgottenStaysGone'
  <2>1. \A r \in asForgot : r \in ASRuns /\ asLog[r].at = "none" BY DEF ASInv, ASForgottenStaysGone, ASTypes
  <2> QED BY <1>2, <1>4, <2>1, ASNothing DEF ASForgottenStaysGone
<1> QED BY <1>2, <1>6, <1>7, <1>8, <1>9, <1>10, <1>11, <1>12, <1>13, <1>14, <1>15, <1>16, <1>17 DEF ASInv, ASAllFiles

\* Its anchor is removed, and the run is forgotten.
LEMMA ASRemoveAnchorInv == ASSUME ASInv, NEW p \in ASProcs, ASRemoveAnchor(p) PROVE ASInv'
<1>1. /\ asAnchor' = [asAnchor EXCEPT ![asOp.run] = NoASAnchor] /\ asMem' = [asMem EXCEPT !.cache[asOp.run] = "none"]
  BY DEF ASRemoveAnchor
<1>2. asForgot' = asForgot \cup ({asOp.run} \cap asRegistry) BY DEF ASRemoveAnchor
<1>3. /\ asPC[p] = "remove anchor" /\ ASReturn(p)
      /\ UNCHANGED <<asWitness, asRegistry, asSeq, asLog, asLock, asShown, asCut, asFaults>>
  BY DEF ASRemoveAnchor, ASAt
<1>4. asPC[p] = "remove anchor" /\ ASReturn(p) BY <1>3
<1>5. asShown' = asShown /\ asLog' = asLog /\ asSeq' = asSeq /\ asWitness' = asWitness /\ asLock' = asLock BY <1>3
<1>6. /\ asLock = p /\ ASH = "remove anchor" /\ ASH' = "open" /\ asPC' \in [ASProcs -> ASPCs] /\ asOp' = NoASOp
      /\ ASLocks' /\ ASUnmade' /\ ASOps' /\ ASBeginning'
  <2>1. asPC[p] \notin ASOutside \cup {"fresh", "check"} BY <1>3 DEF ASOutside
  <2>2. asCut => asCut' BY <1>3
  <2>3. ASReturn(p) BY <1>4
  <2>4. UNCHANGED <<asWitness, asLock>> BY <1>5
  <2>5. /\ asLock = p /\ ASH = asPC[p] /\ ASH' = "open" /\ asPC' \in [ASProcs -> ASPCs] /\ asOp' = NoASOp
        /\ ASLocks' /\ ASUnmade' /\ ASOps' /\ ASBeginning'
    BY <2>1, <2>2, <2>3, <2>4, ASReturns
  <2> QED BY <1>4, <2>5
<1>7. asOp.run \in ASRuns /\ asLog[asOp.run].at = "none"
  <2>1. asOp # NoASOp /\ asLog[asOp.run].at = "none" BY <1>6 DEF ASInv, ASOps, ASQuietAt, ASWorking
  <2> QED BY <2>1 DEF ASInv, ASTypes
<1>8. /\ asMem' \in [next : 0..ASMaxNext, runs : SUBSET ASRuns, cache : [ASRuns -> {"none", "ok", "err"}], replaced : SUBSET {"registry", "sequence"}]
      /\ asMem'.next = asMem.next /\ asMem'.runs = asMem.runs /\ asMem'.replaced = asMem.replaced
      /\ \A q \in ASRuns : asMem'.cache[q] = "ok" => asMem.cache[q] = "ok"
  <2>1. asMem \in [next : 0..ASMaxNext, runs : SUBSET ASRuns, cache : [ASRuns -> {"none", "ok", "err"}], replaced : SUBSET {"registry", "sequence"}]
    BY DEF ASInv, ASTypes
  <2> QED BY <1>1, <1>7, <2>1
<1>9. asAnchor \in [ASRuns -> 0..NoASAnchor] BY DEF ASInv, ASTypes
<1>10. asAnchor' \in [ASRuns -> 0..NoASAnchor] /\ (\A r \in ASRuns : r # asOp.run => asAnchor'[r] = asAnchor[r]) BY <1>1, <1>7, <1>9, ASNothing
<1>11. asForgot' \in SUBSET ASRuns BY <1>2, <1>7 DEF ASInv, ASTypes
<1>12. ASTypes' BY <1>3, <1>6, <1>8, <1>10, <1>11 DEF ASInv, ASTypes
<1>13. ASMemory' BY <1>3, <1>6, <1>8 DEF ASInv, ASMemory, ASQuietAt
<1>14. ASWorking' BY <1>3, <1>6, <1>8 DEF ASInv, ASWorking
<1>15. ASWhole' BY <1>3, <1>6, <1>7, <1>10 DEF ASInv, ASWhole
<1>16. ASLogs' BY <1>3 DEF ASInv, ASLogs
<1>17. ASAllShown'
  <2>1. asForgot' \subseteq asRegistry BY <1>2 DEF ASInv, ASAllShown
  <2> QED BY <1>3, <2>1 DEF ASInv, ASAllShown
<1>18. ASOrdinalsAreOnce' BY <1>5 DEF ASInv, ASOrdinalsAreOnce, ASWritten
<1>19. ASShownStays' BY <1>5 DEF ASInv, ASShownStays
<1>20. ASForgottenStaysGone' BY <1>2, <1>3, <1>7 DEF ASInv, ASForgottenStaysGone
<1> QED BY <1>6, <1>12, <1>13, <1>14, <1>15, <1>16, <1>17, <1>18, <1>19, <1>20 DEF ASInv, ASAllFiles

\* A fault is one of those that are left.
LEMMA ASFaultLeft == ASSUME ASInv, ASFault PROVE asFaults' \in 0..ASMaxFaults
BY ASAssumption DEF ASInv, ASTypes, ASFault

\* The process dies.
LEMMA ASDiesInv == ASSUME ASInv, NEW p \in ASProcs, ASDies(p) PROVE ASInv'
<1>1. asPC[p] # "closed" /\ ASLeave(p) /\ UNCHANGED <<asWitness, asRegistry, asSeq, asAnchor, asShown, asForgot>>
  BY DEF ASDies, ASAt
<1>2. asFaults' \in 0..ASMaxFaults BY ASFaultLeft DEF ASDies
<1>3. CASE UNCHANGED asLog /\ asCut' = (asCut \/ asPC[p] \in ASInitializing)
  <2>1. asCut' \in BOOLEAN BY <1>3 DEF ASInv, ASTypes
  <2>2. (asCut => asCut') /\ (asPC[p] \in ASInitializing => asCut') BY <1>3
  <2> QED BY <1>1, <1>2, <1>3, <2>1, <2>2, ASLeavesFiles
<1>4. CASE asPC[p] = "write" /\ ASTorn /\ asCut' = TRUE
  <2>1. /\ asPC' \in [ASProcs -> ASPCs] /\ ASLocks' /\ asLock' \in ASProcs \cup {NoASProc}
        /\ ASH' = "closed" /\ ASH = "write" /\ asMem' = NoASMem /\ asOp' = NoASOp
    BY <1>1, <1>4, ASLeaves
  <2>2. /\ asLog' \in [ASRuns -> [at : {"none", "part", "whole"}, recs : Seq(ASRec), torn : BOOLEAN]]
        /\ ASAllFiles'
    BY <1>1, <1>4, <2>1, ASFilesTorn
  <2>3. asWitness' = "whole" BY <1>1, <2>1, ASWitnessed DEF ASQuietAt
  <2>4. ASTypes' BY <1>1, <1>2, <1>4, <2>1, <2>2, ASNothing DEF ASInv, ASTypes
  <2>5. ASUnmade' BY <2>3 DEF ASUnmade
  <2>6. ASMemory' BY <2>1 DEF ASMemory, ASQuietAt
  <2>7. ASOps' BY <2>1 DEF ASOps, ASQuietAt, ASBeginsAt
  <2>8. ASBeginning' BY <2>1 DEF ASBeginning
  <2>9. ASWorking' BY <2>1, ASNothing DEF ASWorking
  <2>10. ASWhole' BY <1>4 DEF ASWhole
  <2> QED BY <2>1, <2>2, <2>4, <2>5, <2>6, <2>7, <2>8, <2>9, <2>10 DEF ASInv, ASAllFiles
<1> QED BY <1>3, <1>4 DEF ASDies, ASAt

\* The saving of an anchor by load, or its removal, fails.
LEMMA ASAnchorFailsInv == ASSUME ASInv, NEW p \in ASProcs, ASAnchorFails(p) PROVE ASInv'
<1>1. /\ asPC[p] \in {"remove anchor", "load"} /\ ASReturn(p)
      /\ UNCHANGED <<asWitness, asRegistry, asSeq, asLog, asAnchor, asLock, asMem, asShown, asForgot, asCut>>
  BY DEF ASAnchorFails, ASAt, asFiles
<1>2. asFaults' \in 0..ASMaxFaults BY ASFaultLeft DEF ASAnchorFails
<1>3. /\ asLock = p /\ ASH = asPC[p] /\ ASH' = "open" /\ asPC' \in [ASProcs -> ASPCs] /\ asOp' = NoASOp
      /\ ASLocks' /\ ASUnmade' /\ ASOps' /\ ASBeginning'
  <2>1. asPC[p] \notin ASOutside \cup {"fresh", "check"} BY <1>1 DEF ASOutside
  <2>2. asCut => asCut' BY <1>1
  <2> QED BY <1>1, <2>1, <2>2, ASReturns
<1>4. ASTypes' BY <1>1, <1>2, <1>3 DEF ASInv, ASTypes
<1>5. ASMemory' BY <1>1, <1>3 DEF ASInv, ASMemory, ASQuietAt
<1>6. ASWorking' BY <1>1, <1>3 DEF ASInv, ASWorking
<1>7. ASWhole' BY <1>1, <1>3 DEF ASInv, ASWhole
<1>8. ASAllFiles' BY <1>1, ASFilesKept
<1> QED BY <1>3, <1>4, <1>5, <1>6, <1>7, <1>8 DEF ASInv, ASAllFiles

\* A step of an initialization fails.
LEMMA ASInitFailsInv == ASSUME ASInv, NEW p \in ASProcs, ASInitFails(p) PROVE ASInv'
<1>1. /\ asPC[p] \in {"registry", "sequence", "create", "header", "anchor first"} /\ asOp # NoASOp /\ ASReturn(p) /\ asCut' = TRUE
      /\ asAnchor' \in {asAnchor, [asAnchor EXCEPT ![asOp.run] = 0]}
      /\ UNCHANGED <<asWitness, asLog, asLock, asShown, asForgot>>
  BY DEF ASInitFails, ASAt
<1>2. asFaults' \in 0..ASMaxFaults BY ASFaultLeft DEF ASInitFails
<1>3. /\ asLock = p /\ ASH = asPC[p] /\ ASH' = "open" /\ asPC' \in [ASProcs -> ASPCs] /\ asOp' = NoASOp
      /\ ASLocks' /\ ASUnmade' /\ ASOps' /\ ASBeginning'
  <2>1. asPC[p] \notin ASOutside \cup {"fresh", "check"} BY <1>1 DEF ASOutside
  <2>2. asCut => asCut' BY <1>1
  <2> QED BY <1>1, <2>1, <2>2, ASReturns
<1>4. /\ asMem \in [next : 0..ASMaxNext, runs : SUBSET ASRuns, cache : [ASRuns -> {"none", "ok", "err"}], replaced : SUBSET {"registry", "sequence"}]
      /\ asSeq \in [there : BOOLEAN, next : 0..ASMaxNext, runs : SUBSET ASRuns] /\ asRegistry \in SUBSET ASRuns
      /\ asAnchor \in [ASRuns -> 0..NoASAnchor] /\ asOp.run \in ASRuns /\ 0 \in 0..NoASAnchor
  <2>1. asOp \in [kind : {"append", "read", "forget"}, run : ASRuns, ev : ASEvents] BY <1>1 DEF ASInv, ASTypes
  <2>2. 0 \in 0..NoASAnchor BY ASAssumption DEF NoASAnchor
  <2> QED BY <2>1, <2>2 DEF ASInv, ASTypes
<1>5. asAnchor' \in [ASRuns -> 0..NoASAnchor] BY <1>1, <1>4
<1>6. /\ asRegistry \subseteq asMem.runs /\ asMem.next <= asSeq.next /\ asSeq.next <= asMem.next + 1
      /\ "sequence" \notin asMem.replaced => asMem.next = asSeq.next
  BY <1>1, <1>3 DEF ASInv, ASMemory, ASQuietAt
<1>7. PICK s \in SUBSET {"registry", "sequence"} : asMem' = [asMem EXCEPT !.replaced = s] /\ asMem.replaced \subseteq s
  <2>1. asMem = [asMem EXCEPT !.replaced = asMem.replaced] /\ asMem.replaced \in SUBSET {"registry", "sequence"} BY <1>4
  <2>2. \/ asMem' = asMem \/ asMem' = [asMem EXCEPT !.replaced = asMem.replaced \cup {"registry"}]
        \/ asMem' = [asMem EXCEPT !.replaced = {"registry", "sequence"}]
    BY DEF ASInitFails
  <2> QED BY <2>1, <2>2
<1>8. /\ asMem' \in [next : 0..ASMaxNext, runs : SUBSET ASRuns, cache : [ASRuns -> {"none", "ok", "err"}], replaced : SUBSET {"registry", "sequence"}]
      /\ asMem'.next = asMem.next /\ asMem'.runs = asMem.runs /\ asMem'.cache = asMem.cache /\ asMem'.replaced = s
  BY <1>7, ASMemMarked
<1>9. asRegistry' \in {asRegistry, asMem.runs} BY DEF ASInitFails
<1>10. asSeq' \in [there : BOOLEAN, next : 0..ASMaxNext, runs : SUBSET ASRuns] /\ asSeq'.next = asSeq.next
  <2>1. asSeq' = asSeq \/ ("sequence" \notin asMem.replaced /\ asSeq' = [asSeq EXCEPT !.next = asMem.next, !.runs = asMem.runs])
    BY DEF ASInitFails
  <2> QED BY <1>4, <1>6, <2>1
<1>11. ASTypes' BY <1>1, <1>2, <1>3, <1>4, <1>5, <1>8, <1>9, <1>10 DEF ASInv, ASTypes
<1>12. ASMemory' BY <1>3, <1>6, <1>7, <1>8, <1>9, <1>10 DEF ASMemory, ASQuietAt
<1>13. ASWorking' BY <1>1, <1>3, <1>8 DEF ASInv, ASWorking
<1>14. ASWhole' BY <1>1 DEF ASWhole
<1>15. ASAllFiles'
  <2>1. asSeq'.next \in Nat /\ asSeq'.next >= asSeq.next BY <1>4, <1>10, ASAssumption
  <2>2. asRegistry \subseteq asRegistry' BY <1>6, <1>9
  <2> QED BY <1>1, <2>1, <2>2, ASFilesGrow
<1> QED BY <1>3, <1>11, <1>12, <1>13, <1>14, <1>15 DEF ASInv, ASAllFiles

\* An append fails: nothing of it, its ordinal, a torn or a whole record, or its
\* anchor is there, and the log is refused while it is cached.
LEMMA ASAppendFailsInv == ASSUME ASInv, NEW p \in ASProcs, ASAppendFails(p) PROVE ASInv'
<1>1. asPC[p] \in {"append", "write", "anchor"} /\ ASReturn(p) /\ UNCHANGED <<asWitness, asRegistry, asLock, asShown, asForgot>>
  BY DEF ASAppendFails
<1>2. asFaults' \in 0..ASMaxFaults BY ASFaultLeft DEF ASAppendFails
<1>3. \/ UNCHANGED <<asSeq, asLog, asAnchor, asCut>>
      \/ asPC[p] = "append" /\ asMem.next < ASMaxNext /\ asSeq' = [asSeq EXCEPT !.next = asMem.next + 1] /\ UNCHANGED <<asLog, asAnchor, asCut>>
      \/ asPC[p] = "write" /\ ASTorn /\ asCut' = TRUE /\ UNCHANGED <<asSeq, asAnchor>>
      \/ /\ asPC[p] = "write" /\ asLog' = [asLog EXCEPT ![asOp.run].recs = Append(@, [run |-> asOp.run, ev |-> asOp.ev, ord |-> asMem.next])]
         /\ UNCHANGED <<asSeq, asAnchor, asCut>>
      \/ asPC[p] = "anchor" /\ asAnchor' = [asAnchor EXCEPT ![asOp.run] = Len(asLog[asOp.run].recs)] /\ UNCHANGED <<asSeq, asLog, asCut>>
  BY DEF ASAppendFails, ASAt
<1>4. /\ asLock = p /\ ASH = asPC[p] /\ ASH' = "open" /\ asPC' \in [ASProcs -> ASPCs] /\ asOp' = NoASOp
      /\ ASLocks' /\ ASUnmade' /\ ASOps' /\ ASBeginning'
  <2>1. asPC[p] \notin ASOutside \cup {"fresh", "check"} BY <1>1 DEF ASOutside
  <2>2. asCut => asCut' BY <1>3
  <2> QED BY <1>1, <2>1, <2>2, ASReturns
<1>5. asOp.run \in ASRuns /\ asLog[asOp.run].at = "whole" /\ asWitness = "whole" BY <1>1, <1>4, ASAppendAt
<1>6. /\ asMem \in [next : 0..ASMaxNext, runs : SUBSET ASRuns, cache : [ASRuns -> {"none", "ok", "err"}], replaced : SUBSET {"registry", "sequence"}]
      /\ asSeq \in [there : BOOLEAN, next : 0..ASMaxNext, runs : SUBSET ASRuns]
      /\ asAnchor \in [ASRuns -> 0..NoASAnchor]
      /\ asLog \in [ASRuns -> [at : {"none", "part", "whole"}, recs : Seq(ASRec), torn : BOOLEAN]]
  BY DEF ASInv, ASTypes
<1>7. asMem.next \in Nat /\ asSeq.next \in Nat /\ ASMaxNext \in Nat BY <1>6, ASAssumption
<1>8. /\ asRegistry \subseteq asMem.runs /\ asMem.next <= asSeq.next /\ asSeq.next <= asMem.next + 1
      /\ "sequence" \notin asMem.replaced => asMem.next = asSeq.next
  BY <1>1, <1>4 DEF ASInv, ASMemory, ASQuietAt
<1> DEFINE s == IF asSeq'.next > asMem.next THEN asMem.replaced \cup {"sequence"} ELSE asMem.replaced
<1>9. asMem' = [asMem EXCEPT !.cache[asOp.run] = "err", !.replaced = s] BY DEF ASAppendFails
<1>10. /\ asMem' \in [next : 0..ASMaxNext, runs : SUBSET ASRuns, cache : [ASRuns -> {"none", "ok", "err"}], replaced : SUBSET {"registry", "sequence"}]
       /\ asMem'.next = asMem.next /\ asMem'.runs = asMem.runs /\ asMem'.replaced = s
       /\ \A q \in ASRuns : asMem'.cache[q] = "ok" => q # asOp.run /\ asMem.cache[q] = "ok"
  <2>1. s \in SUBSET {"registry", "sequence"} BY <1>6
  <2> HIDE DEF s
  <2> QED BY <1>5, <1>9, <2>1, ASCacheSpoils
<1>11. /\ asSeq' \in [there : BOOLEAN, next : 0..ASMaxNext, runs : SUBSET ASRuns] /\ asSeq'.runs = asSeq.runs
       /\ asSeq'.next = asSeq.next \/ (asSeq'.next = asMem.next + 1 /\ UNCHANGED <<asLog, asAnchor, asCut>>)
  <2>1. CASE asSeq' = asSeq BY <1>6, <2>1
  <2>2. CASE asMem.next < ASMaxNext /\ asSeq' = [asSeq EXCEPT !.next = asMem.next + 1] /\ UNCHANGED <<asLog, asAnchor, asCut>>
    <3>1. asMem.next + 1 \in 0..ASMaxNext BY <1>7, <2>2
    <3> QED BY <1>6, <2>2, <3>1
  <2> QED BY <1>3, <2>1, <2>2
<1>12. asSeq'.there = asSeq.there
  <2>1. CASE asSeq' = asSeq BY <2>1
  <2>2. CASE asSeq' = [asSeq EXCEPT !.next = asMem.next + 1] BY <1>6, <2>2
  <2> QED BY <1>3, <2>1, <2>2
<1>13. asSeq'.next \in Nat /\ asSeq'.next >= asSeq.next /\ asMem.next <= asSeq'.next /\ asSeq'.next <= asMem.next + 1
  BY <1>7, <1>8, <1>11
<1>14. asCut' \in BOOLEAN /\ (asCut => asCut')
  <2>1. asCut \in BOOLEAN BY DEF ASInv, ASTypes
  <2>2. asCut' = asCut \/ asCut' = TRUE BY <1>3
  <2> QED BY <2>1, <2>2
<1>15. Len(asLog[asOp.run].recs) \in 0..NoASAnchor /\ Len(asLog[asOp.run].recs) \in Nat BY <1>5, ASLogLength, ASAssumption DEF NoASAnchor
<1>16. asAnchor' \in [ASRuns -> 0..NoASAnchor]
  <2>1. asAnchor' = asAnchor \/ asAnchor' = [asAnchor EXCEPT ![asOp.run] = Len(asLog[asOp.run].recs)] BY <1>3
  <2> QED BY <1>5, <1>6, <1>15, <2>1
\* The log: as it was, torn, or with one record more.
<1>17. /\ asLog' \in [ASRuns -> [at : {"none", "part", "whole"}, recs : Seq(ASRec), torn : BOOLEAN]]
       /\ \A r \in ASRuns : asLog'[r].at = asLog[r].at
       /\ ASAllFiles'
  <2>1. CASE asLog' = asLog
    <3>1. asRegistry \subseteq asRegistry' BY <1>1
    <3>2. ASAllFiles' BY <1>1, <1>13, <2>1, <3>1, ASFilesGrow
    <3> QED BY <1>6, <2>1, <3>2
  <2>2. CASE asPC[p] = "write" /\ ASTorn /\ UNCHANGED asSeq BY <1>1, <1>4, <2>2, ASFilesTorn
  <2>3. CASE /\ asPC[p] = "write" /\ UNCHANGED asSeq
             /\ asLog' = [asLog EXCEPT ![asOp.run].recs = Append(@, [run |-> asOp.run, ev |-> asOp.ev, ord |-> asMem.next])]
    <3>1. /\ asLog' \in [ASRuns -> [at : {"none", "part", "whole"}, recs : Seq(ASRec), torn : BOOLEAN]]
          /\ asLog'[asOp.run].at = "whole" /\ (\A r \in ASRuns : r # asOp.run => asLog'[r] = asLog[r]) /\ ASAllFiles'
      BY <1>1, <1>4, <2>3, ASFilesWritten
    <3> QED BY <1>5, <3>1
  <2> QED BY <1>3, <2>1, <2>2, <2>3
<1>18. ASTypes' BY <1>1, <1>2, <1>4, <1>10, <1>11, <1>14, <1>16, <1>17 DEF ASInv, ASTypes
<1>19. ASMemory'
  <2>1. asRegistry' \subseteq asMem'.runs /\ asMem'.next <= asSeq'.next /\ asSeq'.next <= asMem'.next + 1 BY <1>1, <1>8, <1>10, <1>13
  <2>2. "sequence" \notin asMem'.replaced => asMem'.next = asSeq'.next BY <1>7, <1>10, <1>13
  <2> QED BY <1>4, <2>1, <2>2 DEF ASMemory, ASQuietAt
<1>20. ASWorking' BY <1>4, <1>10, <1>17 DEF ASInv, ASWorking
<1>21. ASWhole'
  <2> SUFFICES ASSUME ~asCut'
               PROVE  /\ asSeq'.there /\ asSeq'.runs = asRegistry
                      /\ \A q \in ASRuns : asLog'[q].at # "none" => asLog'[q].at = "whole" /\ ~asLog'[q].torn /\ asAnchor'[q] <= Len(asLog'[q].recs)
    BY <1>1 DEF ASWhole
  <2>1. ~asCut BY <1>14
  <2>2. /\ asSeq.there /\ asSeq.runs = asRegistry
        /\ \A q \in ASRuns : asLog[q].at # "none" => asLog[q].at = "whole" /\ ~asLog[q].torn /\ asAnchor[q] <= Len(asLog[q].recs)
    BY <1>1, <1>4, <1>5, <2>1 DEF ASInv, ASWhole
  <2>3. CASE UNCHANGED <<asLog, asAnchor>> BY <1>11, <1>12, <2>2, <2>3
  <2>4. CASE asPC[p] = "anchor" /\ asAnchor' = [asAnchor EXCEPT ![asOp.run] = Len(asLog[asOp.run].recs)] /\ UNCHANGED asLog
    <3>1. asAnchor'[asOp.run] = Len(asLog[asOp.run].recs) /\ \A q \in ASRuns : q # asOp.run => asAnchor'[q] = asAnchor[q]
      BY <1>5, <1>6, <2>4
    <3>2. asAnchor'[asOp.run] <= Len(asLog[asOp.run].recs) BY <1>15, <3>1
    <3>3. UNCHANGED asLog BY <2>4
    <3> QED BY <1>11, <1>12, <2>2, <3>1, <3>2, <3>3
  <2>5. CASE /\ asPC[p] = "write" /\ UNCHANGED <<asSeq, asAnchor>>
             /\ asLog' = [asLog EXCEPT ![asOp.run].recs = Append(@, [run |-> asOp.run, ev |-> asOp.ev, ord |-> asMem.next])]
    <3>1. /\ asLog'[asOp.run].at = "whole" /\ Len(asLog'[asOp.run].recs) = Len(asLog[asOp.run].recs) + 1
          /\ asLog'[asOp.run].torn = asLog[asOp.run].torn /\ \A r \in ASRuns : r # asOp.run => asLog'[r] = asLog[r]
      BY <1>1, <1>4, <2>5, ASFilesWritten
    <3>2. asAnchor[asOp.run] \in Nat BY <1>5, <1>6, ASAssumption DEF NoASAnchor
    <3>3. asAnchor[asOp.run] <= Len(asLog'[asOp.run].recs) BY <1>5, <1>15, <2>2, <3>1, <3>2
    <3>4. UNCHANGED <<asSeq, asAnchor>> BY <2>5
    <3> QED BY <1>5, <2>2, <3>1, <3>3, <3>4
  <2> QED BY <1>3, <2>3, <2>4, <2>5
<1> QED BY <1>4, <1>17, <1>18, <1>19, <1>20, <1>21 DEF ASInv, ASAllFiles

\* At first there is no store.
LEMMA ASInitInv == ASInit => ASInv
<1> SUFFICES ASSUME ASInit PROVE ASInv OBVIOUS
<1>1. ASMaxNext \in Nat /\ ASMaxFaults \in Nat /\ NoASProc \notin ASProcs BY ASAssumption
<1>2. ASH = "closed" BY DEF ASInit, ASH
<1>3. asLog \in [ASRuns -> [at : {"none", "part", "whole"}, recs : Seq(ASRec), torn : BOOLEAN]]
  <2> DEFINE S == [at : {"none", "part", "whole"}, recs : Seq(ASRec), torn : BOOLEAN]
  <2>1. NoASLog \in S BY DEF NoASLog
  <2> HIDE DEF S
  <2>2. asLog \in [ASRuns -> S] BY <2>1 DEF ASInit
  <2> QED BY <2>2 DEF S
<1>4. \A r \in ASRuns : asLog[r] = NoASLog BY DEF ASInit
<1>5. ASTypes
  <2>1. asAnchor \in [ASRuns -> 0..NoASAnchor] BY ASNothing DEF ASInit
  <2>2. asPC \in [ASProcs -> ASPCs] BY DEF ASInit, ASPCs
  <2>3. asSeq \in [there : BOOLEAN, next : 0..ASMaxNext, runs : SUBSET ASRuns] BY <1>1 DEF ASInit
  <2>4. asFaults \in 0..ASMaxFaults BY <1>1 DEF ASInit
  <2> QED BY <1>3, <2>1, <2>2, <2>3, <2>4, ASNothing DEF ASInit, ASTypes
<1>6. ASLocks BY <1>1 DEF ASInit, ASLocks, ASOutside
<1>7. ASUnmade BY <1>2, <1>4 DEF ASInit, ASUnmade, ASQuietAt
<1>8. ASMemory /\ ASOps /\ ASBeginning BY <1>2 DEF ASInit, ASMemory, ASOps, ASBeginning, ASQuietAt, ASBeginsAt
<1>9. ASWorking BY <1>2, <1>4, ASNothing DEF ASInit, ASWorking
<1>10. ASLogs
  <2> SUFFICES ASSUME NEW r \in ASRuns PROVE ASLogOK(r, asLog[r], asSeq.next) /\ (asLog[r].at # "none" => r \in asRegistry) BY DEF ASLogs
  <2> QED BY <1>4, ASNothing DEF ASLogOK
<1>11. ASAllShown BY DEF ASInit, ASAllShown
<1>12. ASWhole BY <1>4, ASNothing DEF ASInit, ASWhole
<1>13. ASOrdinalsAreOnce
  <2>1. ASWritten = {} BY <1>4, ASNothing DEF ASWritten, ToSet
  <2> QED BY <2>1 DEF ASInit, ASOrdinalsAreOnce
<1>14. ASShownStays BY <1>4, ASNothing DEF ASInit, ASShownStays
<1>15. ASForgottenStaysGone BY DEF ASInit, ASForgottenStaysGone
<1> QED BY <1>5, <1>6, <1>7, <1>8, <1>9, <1>10, <1>11, <1>12, <1>13, <1>14, <1>15 DEF ASInv

\* Every step keeps the invariant.
LEMMA ASStepInv == ASInv /\ [ASNext]_asVars => ASInv'
<1> SUFFICES ASSUME ASInv, [ASNext]_asVars PROVE ASInv' OBVIOUS
<1>1. CASE ASNext
  <2> SUFFICES ASSUME NEW p \in ASProcs,
                      \/ ASWitness(p) \/ ASTakeLock(p) \/ ASWriteWitness(p) \/ OpenStore(p) \/ ASClose(p)
                      \/ saveRegistry(p) \/ saveSequence(p) \/ ASCall(p) \/ ASLoad(p) \/ ASCreateLog(p) \/ ASWriteHeader(p) \/ ASFirstAnchor(p)
                      \/ ASAnswer(p) \/ ASNoSequence(p) \/ ASAllocate(p) \/ ASWrite(p) \/ saveAnchor(p) \/ ASRead(p)
                      \/ ASRemoveLog(p) \/ ASRemoveAnchor(p) \/ ASDies(p) \/ ASStaleSequence(p) \/ ASInitFails(p) \/ ASAnchorFails(p) \/ ASAppendFails(p)
               PROVE  ASInv'
    BY <1>1 DEF ASNext
  <2>1. CASE ASWitness(p) \/ ASTakeLock(p) \/ ASWriteWitness(p) \/ OpenStore(p) \/ ASClose(p)
    BY <2>1, ASWitnessInv, ASTakeLockInv, ASWriteWitnessInv, OpenStoreInv, ASCloseInv
  <2>2. CASE saveRegistry(p) \/ saveSequence(p) \/ ASCall(p) \/ ASLoad(p) \/ ASCreateLog(p) \/ ASWriteHeader(p) \/ ASFirstAnchor(p)
    BY <2>2, saveRegistryInv, saveSequenceInv, ASCallInv, ASLoadInv, ASCreateLogInv, ASWriteHeaderInv, ASFirstAnchorInv
  <2>3. CASE ASAnswer(p) \/ ASNoSequence(p) \/ ASAllocate(p) \/ ASWrite(p) \/ saveAnchor(p) \/ ASRead(p)
    BY <2>3, ASAnswerInv, ASNoSequenceInv, ASAllocateInv, ASWriteInv, saveAnchorInv, ASReadInv
  <2>4. CASE ASRemoveLog(p) \/ ASRemoveAnchor(p) \/ ASDies(p) \/ ASStaleSequence(p) \/ ASInitFails(p) \/ ASAnchorFails(p) \/ ASAppendFails(p)
    BY <2>4, ASRemoveLogInv, ASRemoveAnchorInv, ASDiesInv, ASStaleSequenceInv, ASInitFailsInv, ASAnchorFailsInv, ASAppendFailsInv
  <2> QED BY <2>1, <2>2, <2>3, <2>4
<1>2. CASE UNCHANGED asVars
  <2>1. UNCHANGED <<asWitness, asRegistry, asSeq, asLog, asAnchor, asLock, asPC, asMem, asOp, asShown, asForgot, asCut, asFaults>>
    BY <1>2 DEF asVars, asFiles, asGhosts
  <2>2. ASH' = ASH BY <2>1 DEF ASH
  <2>3. ASTypes' /\ ASLocks' BY <2>1 DEF ASInv, ASTypes, ASLocks
  <2>4. ASUnmade' BY <2>1, <2>2 DEF ASInv, ASUnmade
  <2>5. ASMemory' /\ ASOps' BY <2>1, <2>2 DEF ASInv, ASMemory, ASOps
  <2>6. ASBeginning' BY <2>1, <2>2 DEF ASInv, ASBeginning
  <2>7. ASWorking' BY <2>1, <2>2 DEF ASInv, ASWorking
  <2>8. ASWhole' BY <2>1, <2>2 DEF ASInv, ASWhole
  <2>9. ASAllFiles' BY <2>1, ASFilesKept
  <2> QED BY <2>3, <2>4, <2>5, <2>6, <2>7, <2>8, <2>9 DEF ASInv, ASAllFiles
<1> QED BY <1>1, <1>2

\* The invariant implies what the runs check.
LEMMA ASInvSound == ASInv => ASSound
<1> SUFFICES ASSUME ASInv PROVE ASSound OBVIOUS
<1>1. ASTypeOK BY DEF ASInv, ASTypes, ASTypeOK
<1>2. ASRecovers
  <2> SUFFICES ASSUME ~asCut, asLock = NoASProc, \A p \in ASProcs : ~ASAt(p, "made"), asWitness # "none"
               PROVE  ASOpens /\ \A r \in asRegistry : asLog[r].at # "none" => ASLoads(r, asSeq.next)
    BY DEF ASRecovers
  <2>1. ASH = "closed" BY DEF ASH
  <2>2. asWitness = "whole"
    <3>1. asWitness \in {"none", "empty", "whole"} BY DEF ASInv, ASTypes
    <3>2. \A p \in ASProcs : asPC[p] \notin {"made", "fresh"}
      <4>1. \A p \in ASProcs : asPC[p] # "made" BY DEF ASAt
      <4>2. \A p \in ASProcs : asPC[p] \in ASOutside BY ASAssumption DEF ASInv, ASLocks
      <4> QED BY <4>1, <4>2 DEF ASOutside
    <3>3. asWitness # "empty" BY <3>2 DEF ASInv, ASLocks
    <3> QED BY <3>1, <3>3
  <2>3. asSeq.there /\ asSeq.runs = asRegistry BY <2>1, <2>2 DEF ASInv, ASWhole
  <2>4. \A r \in ASRuns : \A i \in DOMAIN asLog[r].recs : asLog[r].recs[i].ord <= asSeq.next BY DEF ASInv, ASLogs, ASLogOK
  <2>5. \A r \in ASRuns : asAnchor[r] \in 1..Len(asLog[r].recs) => asLog[r].recs[asAnchor[r]].ord <= asSeq.next
    <3> TAKE r \in ASRuns
    <3>1. DOMAIN asLog[r].recs = 1..Len(asLog[r].recs) BY ASLogLength
    <3> QED BY <2>4, <3>1
  <2>6. ASOpens BY <2>2, <2>3, <2>5 DEF ASOpens
  <2>7. asRegistry \subseteq ASRuns BY DEF ASInv, ASTypes
  <2>8. \A r \in ASRuns : asLog[r].at # "none" => asLog[r].at = "whole" /\ ~asLog[r].torn /\ asAnchor[r] <= Len(asLog[r].recs)
    BY <2>1 DEF ASInv, ASWhole
  <2>9. \A r \in asRegistry : asLog[r].at # "none" => ASLoads(r, asSeq.next) BY <2>4, <2>7, <2>8 DEF ASLoads
  <2> QED BY <2>6, <2>9
<1> QED BY <1>1, <1>2 DEF ASInv, ASSound

\* The store of activity (internal/activity): an ordinal names one event for
\* ever, what a client was shown stays, in order, until its run is forgotten, a
\* forgotten run stays forgotten, and unless an initialization or a record was
\* cut short the store opens again after every death and failure, whatever the
\* number of processes, runs, events, ordinals and faults.
THEOREM ActivityStaysNumbered == ASSpec => []ASSound
<1>1. ASSpec => []ASInv BY ASInitInv, ASStepInv, PTL DEF ASSpec
<1> QED BY <1>1, ASInvSound, PTL

-----------------------------------------------------------------------------
\* The files of a run, side by side: the ledger, the plan's copy and the store of
\* activity survive the deaths of the processes that share them.
THEOREM RunFilesHold == LFSpec /\ PHSpec /\ ASSpec => []RunFilesSound
<1>1. LFSound /\ PHSound /\ ASSound => RunFilesSound BY DEF RunFilesSound
<1> QED BY <1>1, AcknowledgedEventsStay, TheHandoffStays, ActivityStaysNumbered, PTL
=============================================================================
