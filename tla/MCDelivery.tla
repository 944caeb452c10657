----------------------------- MODULE MCDelivery ------------------------------
(***************************************************************************)
(* What the service keeps of a run beside its ledger, each part for TLC on *)
(* its own small instance: its registration in the catalog, its previews,  *)
(* its deployments to a server and the eviction of its worktree. They      *)
(* share no state here, so a behaviour moves one of them, chosen at the    *)
(* start.                                                                  *)
(***************************************************************************)
EXTENDS Previews, RemoteTarget, Eviction, RunCatalog

VARIABLE focus   \* the component that moves; the others stay at their start

\* Two sites: the node app with releases of two forms of data, and a static site.
ReleasesOf(s) == IF s = "n" THEN {"a1", "a2", "b"} ELSE {"c"}
Form(d) == IF d = "b" THEN "b" ELSE "a"
\* Two worktrees of one byte against a quota of one.
Bytes(r) == 1
\* A process of one run, and one that may be of another.
RunsOf(p) == IF p = "p1" THEN {"r1"} ELSE RKRuns

\* Nothing tells a1 from a2: while neither is known, the one that is planned is a1.
Known ==
  rtRel \cup rtSrv.rel \cup {rtSrv.app} \cup (IF RTBusy THEN {rtRun.rel, rtRun.replaces} ELSE {})
  \cup UNION {{rtSite[s].release, rtSrv.link[s]} : s \in RTSites} \cup {rtBackups[i].rel : i \in DOMAIN rtBackups}
FirstIsA1 == rtPlan'.rel = "a2" => rtPlan.rel = "a2" \/ Known \cap {"a1", "a2"} # {}
\* A bound: the last death comes while no run has had its last owner.
LastDeathIsEarly == rkDead < RKCrashes /\ rkDead' = RKCrashes => \A r \in RKRuns : rkLease[r].gen < RKGens

MCDeliveryInit ==
  /\ focus \in {"previews", "target", "eviction", "catalog"}
  /\ PVInit /\ RTInit /\ EVInit /\ RKInit
  /\ focus = "catalog" \/ rkRoot = "none"

MCDeliveryNext ==
  \/ focus = "previews" /\ PVNext /\ UNCHANGED <<focus, rtVars, evVars, rkVars>>
  \/ focus = "target" /\ RTNext /\ FirstIsA1 /\ UNCHANGED <<focus, pvVars, evVars, rkVars>>
  \/ focus = "eviction" /\ EVNext /\ UNCHANGED <<focus, pvVars, rtVars, rkVars>>
  \/ focus = "catalog" /\ RKNext /\ LastDeathIsEarly /\ UNCHANGED <<focus, pvVars, rtVars, evVars>>

MCDeliveryVars == <<focus, pvVars, rtVars, evVars, rkVars>>
MCDeliverySpec ==
  /\ MCDeliveryInit /\ [][MCDeliveryNext]_MCDeliveryVars
  /\ WF_rtVars(focus = "target" /\ (RTStepDone \/ RTEnd))
=============================================================================
