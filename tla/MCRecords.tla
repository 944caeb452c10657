------------------------------ MODULE MCRecords ------------------------------
(***************************************************************************)
(* The parts that keep durable records, each for TLC on its own small      *)
(* instance: the action journal and its directories, the admission of      *)
(* runs, the resource guard, the pull-request controller, the store of CI  *)
(* attempts and the collection of their evidence, the evidence of a merge  *)
(* and the records made of it. They share no state here, so a behaviour    *)
(* moves one of them, chosen at the start.                                 *)
(***************************************************************************)
EXTENDS ActionJournal, JournalNamespaces, RunAdmission, ResourceGuard, PRLifecycle, CIAttempts, CICollection, MergeEvidence, MergeRecords, TLC

VARIABLE focus   \* the component that moves; the others stay at their start

\* The requests of the journal are interchangeable.
Symmetric == Permutations(AJRequests)
\* Two attempts of one run and one of another; two writes of one READY and one of
\* another.
RunOf(a) == IF a = "a3" THEN "s" ELSE "r"
ReadyOf(w) == IF w = 3 THEN "B" ELSE "A"

MCRecordsInit ==
  /\ focus \in {"journal", "directories", "admission", "guard", "pull request", "attempts", "collection", "evidence", "records"}
  /\ AJInit /\ JNInit /\ RAInit /\ RGInit /\ PLInit /\ CAInit /\ CCInit /\ MEInit /\ MXInit
  /\ focus = "admission" \/ raProfile = CHOOSE p \in RAProfiles : TRUE
  /\ focus = "collection" \/ ccHub = CHOOSE lists \in CCLists : TRUE

MCRecordsNext ==
  \/ focus = "journal" /\ AJNext /\ UNCHANGED <<focus, jnVars, raVars, rgVars, plVars, caVars, ccVars, meVars, mxVars>>
  \/ focus = "directories" /\ JNNext /\ UNCHANGED <<focus, ajVars, raVars, rgVars, plVars, caVars, ccVars, meVars, mxVars>>
  \/ focus = "admission" /\ RANext /\ UNCHANGED <<focus, ajVars, jnVars, rgVars, plVars, caVars, ccVars, meVars, mxVars>>
  \/ focus = "guard" /\ RGNext /\ UNCHANGED <<focus, ajVars, jnVars, raVars, plVars, caVars, ccVars, meVars, mxVars>>
  \/ focus = "pull request" /\ PLNext /\ UNCHANGED <<focus, ajVars, jnVars, raVars, rgVars, caVars, ccVars, meVars, mxVars>>
  \/ focus = "attempts" /\ CANext /\ UNCHANGED <<focus, ajVars, jnVars, raVars, rgVars, plVars, ccVars, meVars, mxVars>>
  \/ focus = "collection" /\ CCNext /\ UNCHANGED <<focus, ajVars, jnVars, raVars, rgVars, plVars, caVars, meVars, mxVars>>
  \/ focus = "evidence" /\ MENext /\ UNCHANGED <<focus, ajVars, jnVars, raVars, rgVars, plVars, caVars, ccVars, mxVars>>
  \/ focus = "records" /\ MXNext /\ UNCHANGED <<focus, ajVars, jnVars, raVars, rgVars, plVars, caVars, ccVars, meVars>>

MCRecordsVars == <<focus, ajVars, jnVars, raVars, rgVars, plVars, caVars, ccVars, meVars, mxVars>>
MCRecordsSpec == MCRecordsInit /\ [][MCRecordsNext]_MCRecordsVars

-----------------------------------------------------------------------------
\* The journal keeps what it acknowledged and opens again after every crash, and
\* so do the directories it lies in and the guard that bounds their files.
JournalSound == AJSound /\ JNSound /\ RGSound

\* The CI evidence of a commit: a stable bundle is a snapshot of its checks, and
\* an attempt answers one bundle for ever.
CISound == CASound /\ CCSound

\* The evidence of a merge is fresh and its claims are true, and no record of it
\* mixes two writes.
MergeEvidenceSound == MESound /\ MXSound
=============================================================================
