------------------------------- MODULE Eviction -------------------------------
(***************************************************************************)
(* internal/eviction and internal/housekeeping: the sweeper that removes   *)
(* the retained worktrees of finished runs, the release and the forgetting *)
(* of a run, and the nightly removal of old session logs, with the         *)
(* watchers and previews that use a worktree meanwhile and a service that  *)
(* dies at any step.  One mutex serializes sweeps, releases and forgets.   *)
(***************************************************************************)
EXTENDS Naturals, Sequences, FiniteSetsExt

CONSTANTS EVRuns,       \* the runs, in the order of their identifiers
          EVBytes(_),   \* the size of the worktree of a run
          EVQuota,      \* QuotaBytes
          EVMaxUses,    \* how often a watcher comes
          EVMaxFaults   \* deaths of the service and failing steps

ASSUME EVAssumption ==
  EVRuns \subseteq Nat /\ IsFiniteSet(EVRuns) /\ {EVQuota, EVMaxUses, EVMaxFaults} \subseteq Nat /\ \A r \in EVRuns : EVBytes(r) \in Nat

\* finishForget: the steps, in their order.
EVSteps == <<"previews", "worktree", "refs", "inputs", "progress", "eviction-record", "evidence", "sessions", "activity", "ledger">>
\* What a run leaves behind besides its worktree, its refs and its eviction record.
EVThings == {"previews", "inputs", "progress", "evidence", "sessions", "activity"}

VARIABLES evFinal,    \* the runs in a finished state
          evStream, evPreview, \* the runs that are watched; that have a live preview
          evHeld,     \* the runs on hold
          evUse,      \* when a run was last watched
          evDue,      \* the runs past the idle time or the maximum age
          evTree,     \* the runs whose worktree is there
          evRefs,     \* the branch and the pinned checkpoint of a run
          evRecord,   \* the runs with an eviction record
          evForget,   \* the refs a forget record lists, or EVUnsealed
          evThings,   \* the rest of what a run left
          evGone,     \* the runs whose ledger says RUN_FORGOTTEN
          evOp,       \* what holds the mutex
          evUses, evFaults

evRunVars == <<evTree, evRefs, evRecord, evForget, evThings, evGone>>
evVars == <<evFinal, evStream, evPreview, evHeld, evUse, evDue, evTree, evRefs, evRecord, evForget, evThings, evGone, evOp, evUses, evFaults>>
EVUnsealed == {"none"}
EVIdle == [kind |-> "idle", todo |-> {}, seen |-> {}, chosen |-> {}, run |-> 0, step |-> 0]

EVInit ==
  /\ evFinal = {} /\ evStream = {} /\ evPreview = {} /\ evHeld = {} /\ evUse = [r \in EVRuns |-> 0] /\ evDue = {} /\ evTree = EVRuns
  /\ evRefs = [r \in EVRuns |-> {"branch"}] /\ evRecord = {} /\ evForget = [r \in EVRuns |-> EVUnsealed] /\ evThings = [r \in EVRuns |-> EVThings]
  /\ evGone = {} /\ evOp = EVIdle /\ evUses = 0 /\ evFaults = 0

EVOthers == UNCHANGED <<evFinal, evStream, evPreview, evHeld, evUse, evDue, evUses>>

-----------------------------------------------------------------------------
(* The sweep. *)

EVSweep == evOp = EVIdle /\ evOp' = [EVIdle EXCEPT !.kind = "sweep", !.todo = EVRuns] /\ EVOthers /\ UNCHANGED <<evRunVars, evFaults>>

\* Mutant of EVForgetSealed: the forget record is read when the run is gone.
EVForgetSealedLater(r) == r \in evGone

\* forgetSealed: from its seal on a run is the forget's.
EVForgetSealed(r) == evForget[r] # EVUnsealed
\* What the sweep takes a run for when it inspects it.
EVSees(r) == [run |-> r, evictable |-> r \in evFinal /\ r \notin evStream /\ r \notin evPreview, due |-> r \in evDue, use |-> evUse[r]]
\* inspect: a sealed eviction is completed, a retained worktree is a candidate.
EVInspect ==
  /\ evOp.kind = "sweep" /\ evOp.todo # {} /\ evOp.step = 0
  /\ LET r == Min(evOp.todo)
         mine == ~EVForgetSealed(r) /\ r \in evTree
         next == [evOp EXCEPT !.todo = @ \ {r}]
     IN /\ evOp' = IF mine /\ r \notin evRecord THEN [next EXCEPT !.seen = @ \cup {EVSees(r)}] ELSE next
        /\ evTree' = IF mine /\ r \in evRecord THEN evTree \ {r} ELSE evTree
  /\ EVOthers /\ UNCHANGED <<evRefs, evRecord, evForget, evThings, evGone, evFaults>>

\* lastUse, and the order of sort.SliceStable: least recently used first.
EVBefore(c, d) == c.use < d.use \/ (c.use = d.use /\ c.run < d.run)

\* Mutant of EVQuotaVictims: only what may go counts as usage.
EVQuotaVictimsCounted(cands, aged) ==
  LET lru == {c \in cands \ aged : c.evictable}
  IN {c \in lru : MapThenSumSet(LAMBDA d : EVBytes(d.run), lru \ {d \in lru : EVBefore(d, c)}) > EVQuota}

\* Policy.Decide: the worktrees of a repository that go for its quota.
EVQuotaVictims(cands, aged) ==
  LET lru == {c \in cands \ aged : c.evictable}
  IN {c \in lru : MapThenSumSet(LAMBDA d : EVBytes(d.run), (cands \ aged) \ {d \in lru : EVBefore(d, c)}) > EVQuota}
EVAged(cands) == {c \in cands : c.evictable /\ c.due}
EVDecided(cands) == EVAged(cands) \cup EVQuotaVictims(cands, EVAged(cands))
EVDecide ==
  /\ evOp.kind = "sweep" /\ evOp.todo = {} /\ evOp.step = 0 /\ evOp.run = 0
  /\ LET out == {c.run : c \in EVDecided(evOp.seen)}
     IN evOp' = IF out = {} THEN EVIdle ELSE [evOp EXCEPT !.seen = {}, !.chosen = out, !.run = Min(out), !.step = 1]
  /\ EVOthers /\ UNCHANGED <<evRunVars, evFaults>>

\* evict: the checkpoints are pinned, the record is sealed, the worktree is removed.
EVEvicting == evOp.kind \in {"sweep", "release"} /\ evOp.step > 0
EVNextEviction ==
  LET rest == evOp.chosen \ {evOp.run}
  IN IF rest = {} THEN EVIdle ELSE [evOp EXCEPT !.chosen = rest, !.run = Min(rest), !.step = 1]

\* Mutant of EVOrder: the record is sealed before the checkpoints are pinned.
EVOrderSealed == <<"seal", "pin", "remove">>

EVOrder == <<"pin", "seal", "remove">>
\* pin: the ref is created if it is absent.
EVPin ==
  /\ EVEvicting /\ EVOrder[evOp.step] = "pin" /\ evRefs' = [evRefs EXCEPT ![evOp.run] = @ \cup {"pin"}] /\ evOp' = [evOp EXCEPT !.step = @ + 1]
  /\ EVOthers /\ UNCHANGED <<evTree, evRecord, evForget, evThings, evGone, evFaults>>
\* Store.Write: a temporary file, synced, renamed and its folder synced.
EVSeal ==
  /\ EVEvicting /\ EVOrder[evOp.step] = "seal" /\ evRecord' = evRecord \cup {evOp.run} /\ evOp' = [evOp EXCEPT !.step = @ + 1]
  /\ EVOthers /\ UNCHANGED <<evTree, evRefs, evForget, evThings, evGone, evFaults>>
\* removeWorktree, removeRunFolder.
EVRemove ==
  /\ EVEvicting /\ EVOrder[evOp.step] = "remove" /\ evTree' = evTree \ {evOp.run} /\ evOp' = EVNextEviction
  /\ EVOthers /\ UNCHANGED <<evRefs, evRecord, evForget, evThings, evGone, evFaults>>
\* A pin, a seal or a removal fails: the sweep goes on with the next run.
EVEvictFails ==
  /\ EVEvicting /\ evFaults < EVMaxFaults /\ evFaults' = evFaults + 1 /\ evOp' = EVNextEviction /\ EVOthers /\ UNCHANGED evRunVars

-----------------------------------------------------------------------------
(* A release, and the forgetting of a run. *)

\* release: whoever watches, when the product says that its task is closed.
EVRelease(r) ==
  /\ evOp = EVIdle /\ ~EVForgetSealed(r) /\ r \in evFinal /\ r \in evTree
  /\ IF r \in evRecord THEN evTree' = evTree \ {r} /\ UNCHANGED evOp
     ELSE evOp' = [EVIdle EXCEPT !.kind = "release", !.chosen = {r}, !.run = r, !.step = 1] /\ UNCHANGED evTree
  /\ EVOthers /\ UNCHANGED <<evRefs, evRecord, evForget, evThings, evGone, evFaults>>
\* ReleaseRepository: every run of a repository that is gone from the product.
EVReleaseRepository ==
  /\ evOp = EVIdle
  /\ LET mine == {r \in evFinal \cap evTree : ~EVForgetSealed(r)}
         fresh == mine \ evRecord
     IN /\ mine # {} /\ evTree' = evTree \ (mine \cap evRecord)
        /\ evOp' = IF fresh = {} THEN EVIdle ELSE [EVIdle EXCEPT !.kind = "release", !.chosen = fresh, !.run = Min(fresh), !.step = 1]
  /\ EVOthers /\ UNCHANGED <<evRefs, evRecord, evForget, evThings, evGone, evFaults>>

\* sealForget: finished, not on hold; the refs, the paths and the evidence there are.
EVMaySeal(r) == r \in evFinal /\ r \notin evHeld
\* runRefs, productWorktree, sessionFolders, evidenceManifest: what the record lists.
EVListed(r) == evRefs[r]
EVForget(r) ==
  /\ evOp = EVIdle /\ (EVForgetSealed(r) \/ EVMaySeal(r))
  /\ evForget' = [evForget EXCEPT ![r] = IF @ = EVUnsealed THEN EVListed(r) ELSE @]
  /\ evOp' = [EVIdle EXCEPT !.kind = "forget", !.run = r, !.step = 1]
  /\ EVOthers /\ UNCHANGED <<evTree, evRefs, evRecord, evThings, evGone, evFaults>>

\* Mutant of EVStepAt: RUN_FORGOTTEN is appended first.
EVStepAtSaid(i) == IF i = 1 THEN "ledger" ELSE EVSteps[i - 1]

EVStepAt(i) == EVSteps[i]
\* removeForgottenRefs: the refs of the record, at the commits it names.
EVRefsLeft(r) == evRefs[r] \ evForget[r]
\* removeForgottenWorktree: from the disk and from git's list of worktrees.
EVTreesLeft(r) == evTree \ {r}
\* removeForgottenInputs, removeForgottenProgress, removeEvidenceBodies and the sessions.
EVThingsLeft(r, s) == [evThings EXCEPT ![r] = @ \ {s}]
\* forgottenEvent: under an identity that its retries verify.
EVSaid(r) == evGone \cup {r}
\* finishForget: one step after the other.
EVFinishStep ==
  /\ evOp.kind = "forget"
  /\ LET r == evOp.run
         s == EVStepAt(evOp.step)
     IN /\ evTree' = IF s = "worktree" THEN EVTreesLeft(r) ELSE evTree
        /\ evRefs' = IF s = "refs" THEN [evRefs EXCEPT ![r] = EVRefsLeft(r)] ELSE evRefs
        /\ evRecord' = IF s = "eviction-record" THEN evRecord \ {r} ELSE evRecord
        /\ evThings' = EVThingsLeft(r, s)
        /\ evPreview' = IF s = "previews" THEN evPreview \ {r} ELSE evPreview
        /\ evGone' = IF s = "ledger" THEN EVSaid(r) ELSE evGone
        /\ evOp' = IF evOp.step = Len(EVSteps) THEN EVIdle ELSE [evOp EXCEPT !.step = @ + 1]
  /\ UNCHANGED <<evFinal, evStream, evHeld, evUse, evDue, evForget, evUses, evFaults>>
\* The call fails with its step; its retry starts at the first one again.
EVFinishFails ==
  /\ evOp.kind = "forget" /\ evFaults < EVMaxFaults /\ evFaults' = evFaults + 1 /\ evOp' = EVIdle /\ EVOthers /\ UNCHANGED evRunVars
EVDies ==
  /\ evOp # EVIdle /\ evFaults < EVMaxFaults /\ evFaults' = evFaults + 1 /\ evOp' = EVIdle /\ evStream' = {}
  /\ UNCHANGED <<evRunVars, evFinal, evPreview, evHeld, evUse, evDue, evUses>>

-----------------------------------------------------------------------------
(* The nightly removal of session logs, which does not take the mutex. *)

\* Mutant of EVOldSessions: whatever is old.
EVOldSessionsAny == {r \in evDue : "sessions" \in evThings[r]}

\* removeOldSessionLogs: old, and of a build that is finished.
EVOldSessions == {r \in evDue \cap evFinal : "sessions" \in evThings[r]}
EVNightly ==
  /\ EVOldSessions # {} /\ evThings' = [r \in EVRuns |-> IF r \in EVOldSessions THEN evThings[r] \ {"sessions"} ELSE evThings[r]]
  /\ EVOthers /\ UNCHANGED <<evTree, evRefs, evRecord, evForget, evGone, evOp, evFaults>>

-----------------------------------------------------------------------------
(* The runs, and who uses them. *)

EVWorld == UNCHANGED <<evRunVars, evOp, evFaults>>
EVFinishes(r) == r \notin evFinal /\ evFinal' = evFinal \cup {r} /\ EVWorld /\ UNCHANGED <<evStream, evPreview, evHeld, evUse, evDue, evUses>>
EVWatch(r) ==
  /\ evUses < EVMaxUses /\ r \notin evStream /\ evStream' = evStream \cup {r} /\ evUses' = evUses + 1 /\ evUse' = [evUse EXCEPT ![r] = evUses + 1]
  /\ EVWorld /\ UNCHANGED <<evFinal, evPreview, evHeld, evDue>>
EVLeave(r) == r \in evStream /\ evStream' = evStream \ {r} /\ EVWorld /\ UNCHANGED <<evFinal, evPreview, evHeld, evUse, evDue, evUses>>
EVPreviews(r) ==
  /\ evUses < EVMaxUses /\ r \in evFinal \ evPreview /\ evForget[r] = EVUnsealed /\ evPreview' = evPreview \cup {r} /\ evUses' = evUses + 1
  /\ EVWorld /\ UNCHANGED <<evFinal, evStream, evHeld, evUse, evDue>>
EVHold(r) ==
  /\ evUses < EVMaxUses /\ r \notin evHeld /\ evHeld' = evHeld \cup {r} /\ evUses' = evUses + 1
  /\ EVWorld /\ UNCHANGED <<evFinal, evStream, evPreview, evUse, evDue>>
EVAge(r) == r \notin evDue /\ evDue' = evDue \cup {r} /\ EVWorld /\ UNCHANGED <<evFinal, evStream, evPreview, evHeld, evUse, evUses>>

EVNext ==
  \/ EVSweep \/ EVInspect \/ EVDecide \/ EVPin \/ EVSeal \/ EVRemove \/ EVEvictFails \/ EVReleaseRepository \/ EVFinishStep \/ EVFinishFails
  \/ EVDies \/ EVNightly
  \/ \E r \in EVRuns :
       EVRelease(r) \/ EVForget(r) \/ EVFinishes(r) \/ EVWatch(r) \/ EVLeave(r) \/ EVPreviews(r) \/ EVHold(r) \/ EVAge(r)
EVSpec == EVInit /\ [][EVNext]_evVars

-----------------------------------------------------------------------------
EVTypeOK ==
  /\ {evFinal, evStream, evPreview, evHeld, evDue, evTree, evRecord, evGone} \subseteq SUBSET EVRuns
  /\ evRefs \in [EVRuns -> SUBSET {"branch", "pin"}] /\ evThings \in [EVRuns -> SUBSET EVThings]
  /\ evOp.kind \in {"idle", "sweep", "release", "forget"} /\ evOp.step \in 0..10

\* A worktree that was evicted left its checkpoints pinned and its eviction sealed,
\* so a preview can still be made of it.
EVPinnedBeforeGone == \A r \in EVRuns \ evTree : evForget[r] = EVUnsealed => "pin" \in evRefs[r] /\ r \in evRecord
\* A run whose ledger says RUN_FORGOTTEN left nothing: no ref, worktree, record,
\* log or preview, whatever a sweep, a release or a crash did meanwhile.
EVForgottenIsGone == \A r \in evGone : r \notin evTree \cup evRecord \cup evPreview /\ evRefs[r] = {} /\ evThings[r] = {}
\* A run that is not finished keeps its worktree and its session logs.
EVUnfinishedKeeps == \A r \in EVRuns \ evFinal : r \in evTree /\ evThings[r] = EVThings
\* A sweep chooses no more than it must, and leaves a repository above its quota
\* only when nothing else in it may go.
EVQuotaHolds ==
  evOp.kind = "sweep" /\ evOp.todo = {} /\ evOp.step = 0 =>
    LET kept == evOp.seen \ EVDecided(evOp.seen)
    IN /\ MapThenSumSet(LAMBDA c : EVBytes(c.run), kept) <= EVQuota \/ \A c \in kept : ~c.evictable
       /\ \A c \in EVDecided(evOp.seen) : c.evictable
\* What the sweeper, the release and the forgetting of runs may never do.
EVSound == EVTypeOK /\ EVPinnedBeforeGone /\ EVForgottenIsGone /\ EVUnfinishedKeeps /\ EVQuotaHolds

\* "A worktree is protected, and never evicted", while a client is streaming its
\* activity or one of its previews is live.
EVProtectedIsKept ==
  [][\A r \in evTree \ evTree' : evOp.kind = "sweep" /\ evOp.run = r => r \notin evStream \cup evPreview]_evVars
=============================================================================
