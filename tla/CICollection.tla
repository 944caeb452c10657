----------------------------- MODULE CICollection -----------------------------
(***************************************************************************)
(* internal/cilifecycle: one collection of the check suites, check runs    *)
(* and commit statuses of a commit, over a hub on which they change while  *)
(* they are read page by page.                                             *)
(*                                                                         *)
(* Everything is read twice, with the head of the branch before, between   *)
(* and after.  An item is its id and its version: the hub never gives an   *)
(* item a version it had before, and removes nothing.                      *)
(***************************************************************************)
EXTENDS Naturals, Sequences, SequencesExt

CONSTANTS CCPerPage,    \* itemsPerPage
          CCMaxItems,   \* maxSuites, maxRuns, maxStatuses
          CCMaxPages,   \* maxStatusPages; the last one is the sentinel
          CCMaxRequests, CCMaxChanges, CCMaxFaults

\* Limits.validate: the pages before the sentinel hold all the statuses.
CCLimitsValid ==
  {CCPerPage, CCMaxItems, CCMaxPages, CCMaxRequests} \subseteq Nat \ {0} /\ CCPerPage <= CCMaxItems /\ (CCMaxPages - 1) * CCPerPage >= CCMaxItems
ASSUME CCAssumption == CCLimitsValid /\ {CCMaxChanges, CCMaxFaults} \subseteq Nat

CCKinds == {"suites", "runs", "statuses"}
\* The requests in their order; a kind's letter is its sweep.
CCPhases == <<"principal", "H0", "suites", "runs", "statuses", "H1", "suites", "runs", "statuses", "H2", "done">>
CCHeads == {2, 6, 10}

VARIABLES ccHub,   \* the lists of the hub
          ccHead,  \* the branch is at the commit that is collected
          ccPhase, ccPage, ccGot, ccTotal, ccHeads, ccRequests,
          ccSweeps, \* the sweeps finished so far
          ccOut,    \* the bundle's outcome, "none" while it is collected
          ccSnap,   \* history: the hub's lists when H1 was read
          ccChanges, ccFaults

ccVars == <<ccHub, ccHead, ccPhase, ccPage, ccGot, ccTotal, ccHeads, ccRequests, ccSweeps, ccOut, ccSnap, ccChanges, ccFaults>>

CCItem(n) == [id |-> n, ver |-> 0, suite |-> 1]
CCEmpty == [k \in CCKinds |-> <<>>]
CCLists == {h \in [CCKinds -> {[i \in 1..n |-> CCItem(i)] : n \in 0..CCMaxItems}] : h["suites"] = <<>> => h["runs"] = <<>>}
CCInit ==
  /\ ccHub \in CCLists /\ ccHead = TRUE
  /\ ccPhase = 1 /\ ccPage = 1 /\ ccGot = CCEmpty /\ ccTotal = 0 /\ ccHeads = 0 /\ ccRequests = 0
  /\ ccSweeps = <<>> /\ ccOut = "none" /\ ccSnap = CCEmpty /\ ccChanges = 0 /\ ccFaults = 0

CCKind == CCPhases[ccPhase]
CCKeepHub == UNCHANGED <<ccHub, ccHead, ccChanges>>
CCKeepRead == UNCHANGED <<ccPhase, ccPage, ccGot, ccTotal, ccHeads, ccSweeps, ccSnap>>

-----------------------------------------------------------------------------
(* The bundle. *)

\* NewCISemanticSweepV1, normalizeAndValidateSweep: the items without their
\* order, and the suite of every run among the suites.
CCSemantic(got) == [k \in CCKinds |-> ToSet(got[k])]
CCResolved(got) == \A r \in ToSet(got["runs"]) : \E s \in ToSet(got["suites"]) : s.id = r.suite

\* validateBundleInput: only a bundle with two equal sweeps and three heads is STABLE.
CCValidBundle(outcome) ==
  outcome = "STABLE" => Len(ccSweeps) = 2 /\ ccSweeps[1] = ccSweeps[2] /\ ccHeads = 3

\* finish: the bundle is made of what was observed so far.
CCFinish(outcome) == ccOut' = IF CCValidBundle(outcome) THEN outcome ELSE "INVALID"

\* Mutant of CCSame: only as many items.
CCSameCounts == \A k \in CCKinds : Len(SetToSeq(ccSweeps[1][k])) = Len(SetToSeq(ccSweeps[2][k]))

\* The canonical bytes of the two sweeps are equal.
CCSame == ccSweeps[1] = ccSweeps[2]

CCEnd ==
  /\ CCKind = "done" /\ ccOut = "none" /\ CCKeepHub /\ CCKeepRead /\ UNCHANGED <<ccRequests, ccFaults>>
  /\ IF CCSame THEN CCFinish("STABLE") ELSE CCFinish("UNSTABLE")

-----------------------------------------------------------------------------
(* The requests. *)

\* get: a request within the limit, recorded in the provenance.
CCGet == ccOut = "none" /\ CCKind # "done" /\ ccRequests < CCMaxRequests /\ ccRequests' = ccRequests + 1
CCTooMany ==
  /\ ccOut = "none" /\ CCKind # "done" /\ ccRequests = CCMaxRequests /\ CCFinish("TRUNCATED")
  /\ CCKeepHub /\ CCKeepRead /\ UNCHANGED <<ccRequests, ccFaults>>
\* No usable response: the transport, the status, a body that does not decode, an
\* item of another commit, or a text, header or body over its limit (the outcome
\* is one of five that are all the same here).
CCGetFails ==
  /\ CCGet /\ ccFaults < CCMaxFaults /\ ccFaults' = ccFaults + 1 /\ CCKeepHub /\ CCKeepRead
  /\ CCFinish("PROVIDER_UNAVAILABLE")

CCPrincipal ==
  /\ CCGet /\ CCKind = "principal" /\ ccPhase' = 2 /\ CCKeepHub
  /\ UNCHANGED <<ccPage, ccGot, ccTotal, ccHeads, ccSweeps, ccOut, ccSnap, ccFaults>>

\* head, collectRemote: the branch must still be at the commit.
CCReadHead ==
  /\ CCGet /\ ccPhase \in CCHeads /\ ccHeads' = ccHeads + 1 /\ CCKeepHub
  /\ ccSnap' = IF CCKind = "H1" THEN ccHub ELSE ccSnap
  /\ IF ccHead THEN ccPhase' = ccPhase + 1 /\ UNCHANGED ccOut ELSE UNCHANGED ccPhase /\ CCFinish("STALE_HEAD")
  /\ UNCHANGED <<ccPage, ccGot, ccTotal, ccSweeps, ccFaults>>

CCList == ccHub[CCKind]
CCMore == ccPage * CCPerPage < Len(CCList)
CCPageItems == SubSeq(CCList, (ccPage - 1) * CCPerPage + 1, IF CCMore THEN ccPage * CCPerPage ELSE Len(CCList))
CCGotIds(got) == {got[i].id : i \in DOMAIN got}

\* checkPage: an id of an earlier page is not seen again.
CCRepeated == CCGotIds(CCPageItems) \cap CCGotIds(ccGot[CCKind]) # {}

CCFails(outcome) == CCFinish(outcome) /\ UNCHANGED <<ccPhase, ccPage, ccGot, ccTotal, ccSweeps>>
CCNextPage == ccPage' = ccPage + 1 /\ ccGot' = [ccGot EXCEPT ![CCKind] = @ \o CCPageItems] /\ UNCHANGED <<ccPhase, ccSweeps, ccOut>>
CCNextKind ==
  LET got == [ccGot EXCEPT ![CCKind] = @ \o CCPageItems]
  IN /\ ccPage' = 1 /\ ccTotal' = 0
     /\ IF CCKind # "statuses" THEN ccPhase' = ccPhase + 1 /\ ccGot' = got /\ UNCHANGED <<ccSweeps, ccOut>>
        ELSE /\ ccGot' = CCEmpty
             /\ IF CCResolved(got) THEN ccPhase' = ccPhase + 1 /\ ccSweeps' = Append(ccSweeps, CCSemantic(got)) /\ UNCHANGED ccOut
                ELSE UNCHANGED <<ccPhase, ccSweeps>> /\ CCFinish("MALFORMED")

\* suites, runs: every page names the same total, and the pages add up to it.
CCCounted ==
  LET total == Len(CCList) n == Len(ccGot[CCKind]) + Len(CCPageItems)
  IN IF total > CCMaxItems THEN CCFails("TRUNCATED")
     ELSE IF (ccPage > 1 /\ total # ccTotal) \/ CCRepeated THEN CCFails("UNSTABLE")
     ELSE IF n = total THEN IF CCMore THEN CCFails("UNSTABLE") ELSE CCNextKind
     ELSE IF n > total \/ Len(CCPageItems) < CCPerPage THEN CCFails("UNSTABLE")
     ELSE CCNextPage /\ ccTotal' = total
CCReadSuites ==
  /\ CCGet /\ CCKind = "suites" /\ CCCounted
  /\ CCKeepHub /\ UNCHANGED <<ccHeads, ccSnap, ccFaults>>
CCReadRuns ==
  /\ CCGet /\ CCKind = "runs" /\ CCCounted
  /\ CCKeepHub /\ UNCHANGED <<ccHeads, ccSnap, ccFaults>>

\* Mutant of CCUncounted: a full page is taken for the last.
CCUncountedFirst == IF Len(CCPageItems) > CCMaxItems THEN CCFails("TRUNCATED") ELSE CCNextKind

\* statuses: no total; the last page is short, or empty when it is the sentinel.
CCUncounted ==
  IF CCRepeated THEN CCFails("UNSTABLE")
  ELSE IF Len(ccGot[CCKind]) + Len(CCPageItems) > CCMaxItems THEN CCFails("TRUNCATED")
  ELSE IF ccPage = CCMaxPages THEN IF CCPageItems # <<>> \/ CCMore THEN CCFails("TRUNCATED") ELSE CCNextKind
  ELSE IF Len(CCPageItems) < CCPerPage /\ ~CCMore THEN CCNextKind
  ELSE CCNextPage /\ UNCHANGED ccTotal
CCReadStatuses ==
  /\ CCGet /\ CCKind = "statuses" /\ CCUncounted
  /\ CCKeepHub /\ UNCHANGED <<ccHeads, ccSnap, ccFaults>>

-----------------------------------------------------------------------------
(* The hub. *)

CCChange == ccOut = "none" /\ ccChanges < CCMaxChanges /\ ccChanges' = ccChanges + 1 /\ CCKeepRead /\ UNCHANGED <<ccRequests, ccOut, ccFaults>>
\* A check moves on.
CCUpdate ==
  /\ CCChange /\ UNCHANGED ccHead
  /\ \E k \in {"suites", "runs"} : \E i \in DOMAIN ccHub[k] : ccHub' = [ccHub EXCEPT ![k][i].ver = ccChanges + 1]
\* A suite, a run of a suite or a status appears, anywhere in its list.
CCAppear ==
  /\ CCChange /\ UNCHANGED ccHead
  /\ \E k \in CCKinds : \E s \in (IF k = "runs" THEN CCGotIds(ccHub["suites"]) ELSE {1}) : \E i \in 1..(Len(ccHub[k]) + 1) :
       ccHub' = [ccHub EXCEPT ![k] = InsertAt(@, i, [id |-> Len(@) + 1, ver |-> 0, suite |-> s])]
\* The branch is pushed away from the commit, or back.
CCPush == CCChange /\ ccHead' = ~ccHead /\ UNCHANGED ccHub

CCNext ==
  CCEnd \/ CCTooMany \/ CCGetFails \/ CCPrincipal \/ CCReadHead \/ CCReadSuites \/ CCReadRuns \/ CCReadStatuses
  \/ CCUpdate \/ CCAppear \/ CCPush
CCSpec == CCInit /\ [][CCNext]_ccVars

-----------------------------------------------------------------------------
CCTypeOK ==
  /\ ccPhase \in 1..Len(CCPhases) /\ ccPage \in 1..(CCMaxPages + CCMaxItems) /\ ccHeads \in 0..3 /\ ccRequests \in 0..CCMaxRequests
  /\ Len(ccSweeps) <= 2 /\ ccChanges \in 0..CCMaxChanges /\ ccFaults \in 0..CCMaxFaults

\* A STABLE bundle shows the checks of the commit as they all were at one moment:
\* the suites, runs and statuses the hub had when the branch's head was read
\* between the two sweeps, none missing, none of another time, however they
\* change while the pages are read; and no collection ends in a bundle that does
\* not validate (collectRemote, suites, runs, statuses, checkPage, finish).
CCStableIsASnapshot ==
  /\ ccOut = "STABLE" => ccSweeps[1] = CCSemantic(ccSnap)
  /\ ccOut # "INVALID"

\* The collection is bounded and its stable bundles are snapshots.
CCSound == CCTypeOK /\ CCStableIsASnapshot
=============================================================================
