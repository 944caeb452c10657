# Verification of the Autonomous Builder Control Plane

TLA+ modules, TLC configurations and TLAPS proofs kept beside the code. They
model where a mistake cannot be undone or is found months later: what a run's
ledger says, who may move a run, what a client is told of its cancel or its
answer, the one write to a target branch, and the files that must still be
readable after any process died. Paths below are relative to the repository
root (`src/` of this checkout). `PROJECT.json` lists every component, run,
mutant, source range, finding, hazard and theorem.

## 1. The system and its parts

One host runs `abcp serve` and one `abcp run` process per governed run. They
share files only: a JSONL event ledger, an action journal, a runtime catalog
and the directories of the controllers. Locks are `flock`s, so they end with
the process that holds them.

| Part | State it keeps | Operations | Correct when |
|---|---|---|---|
| lifecycle table (`domain`) | none | `ValidateTransition` | merged and completed runs earned it; ended runs stay ended |
| ledger (`ledger`) | lines of a file; run locks, their directory and registry; barrier file | append, append-or-verify, lease, leased append, install and resolve barrier | every history is a path of the table; what was acknowledged stays; one transition of a run at a time |
| governed runner (`run`) | where it believes the run is; its context and cause; slots, execution lease, handed-over plan | create, decide, select under the lease, pause, retry, resume, return; hand the plan over, recover dead copies | it never selects from a stale state; a typed cancellation wins; nobody touches a live run's plan |
| runtime catalog (`runtimecatalog`) | generation, history, namespaces and records of runs; owner leases | open, migrate, register run and attempt, reconcile; install, close, retire owner | the next holder of the lock can finish or undo whatever died; one live generation; retired means drained |
| action journal and watcher (`actioncontrol`) | receipt, claim and outcomes; segments, request index, append marker; delivered set | create, replay, claim, outcome, recover an append, bootstrap; poll, deliver, observe, reconcile, drain | the journal's word is what the ledger shows, for ever |
| resource guard (`actioncontrol`), build slots (`openmodel`) | slot files, their identities, flocks | publish, acquire all or none, release | never overbooked; waiters hold nothing |
| action service (`actionapi`) | work queue, decision-effect lease | admit, read, process, apply, reconcile, relaunch | one answer per pause; an admitted answer settles |
| run admission (`runadmission`) | receipt, material, binding, launch intent, launch lock | admit, replay, start, await, clear, resume | one launch per admission, of what was admitted |
| merge controller (`mergelifecycle`), provider (`githubmergeprovider`) | attempt records, counters, channels | execute, cancel, recover; create commit, submit, reconcile, observe | one mutation, one selection, honest terminals |
| merge authority (`githublifecycle`) | immutable records of one write | observe, authorize, seal, submit, answer, cancel | every authorization was fresh; no record mixes two writes |
| PR lifecycle (`prlifecycle`) | revisions, markers, terminals | upsert, prepare, write, reconcile, record, recover | one write per revision, one pull request per resource |
| CI lifecycle (`cilifecycle`) | reservations, bundles, ledger events | reserve, repair, collect, publish, replay | one answer per attempt; a stable bundle is a snapshot |
| integration (`integrationgate`, `integrationworkspace`, `combinedacceptance`, `acceptance`, `scheduler`) | request, workspace, evidence | assess risk, merge, test, review, accept, clean up | what is offered was proved; conflicts are real; nothing is left behind |
| recovery (`recovery`) | snapshots, log, cleanup authority | inspect, snapshot, classify, clean up, restart | only a dead attempt's tree goes, and it is preserved |
| governance (`governance`, `workflowauthoritypg`) | one row under compare-and-swap | design, review, lease, invoke, converge, accept, publish | one invocation, one fix per lease, a proven chain |
| stack and change jobs (`stackjob`) | queue, records, patches | start, stop, run, prune, close, load | a verdict is the evidence shown; what is handed back is sound |
| previews (`preview`) | records, workers, containers, kept data | create, stop, expire, forget, sweep, restart | one database per volume; a forgotten run leaves nothing |
| remote targets (`remotetarget`) | target, sites, plans, operations, backups | plan, apply, deploy, convert, restore, remove, stop, start | a plan runs once; data fits the app that runs |
| eviction (`eviction`, `housekeeping`) | worktrees, pins, seals, forgetting | sweep, release, forget, nightly clean-up | pinned and sealed before gone |
| activity (`activity`) | witness, registry, sequence; log and anchor per run; collectors, sidecars, streams | open, append, read, forget, close; collect a batch, share a sidecar, open a stream | an ordinal names one event for ever; what was shown stays and is whole or says what is missing; a stream has its collector |
| service API, parsing, classifiers, projections, utilities | none or plain files | I/O, parsing | not modelled (section 7) |

How they interact. The runner and its watcher are goroutines of one process;
the watcher cancels the runner's context with a cause that names the
operation. Service and run process meet only in the journal, the catalog and
the ledger, with the lock order journal, catalog, run-transition lease. The
service relaunches a paused run through admission's launch lock. The merge
controller holds the run-transition lease for a whole call and keeps the rest
of the world out with the barrier while its lease may be lost to a crash; it
acts on the records of `githublifecycle`, which cite what the PR and CI
controllers recorded. Eviction asks previews and the activity registry whether
a worktree is in use. These meet points are modelled where they carry state
(`CancelMailbox`, `HumanDecision`, `MergeLifecycle`); the other controllers
meet through finished records only.

What is hard: a decision taken from a context and appended later under a
lock; a cancel that races a successful end; receipts admitted while an owner
closes; appends that fail after they became durable; crashes between a
reservation, a remote effect and its record; a directory tree made by several
processes that may all die; a lock released while a source is resolved, a
container stopped or an inspection goes stale; two clients answering one
pause; and relaunching a process that has not quite exited. `hazards` in
`PROJECT.json` lists them at their lines, each with the property about it.

## 2. Modules

| Module | Models | Uses |
|---|---|---|
| `RunStates` | `domain/state.go`: states, table, `ValidateTransition`; `readmodel` terminal states | |
| `RunHistory` | the abstract promise: one run moves along the table | `RunStates` |
| `RunLedger` | the events of one run and the queries the code asks of them | `RunStates` |
| `RunProcess` | `run`: deciding and selecting transitions, per profile | `RunLedger` |
| `CancelMailbox` | cancel action: service, journal, watcher, owner lease, shutdown | `RunProcess`, `RunHistory` (refinement) |
| `HumanDecision` | decision action, workers, relaunch, next generation | `CancelMailbox` |
| `TransitionBarrier` | barrier file with its crash points, guarded append | `RunStates` |
| `MergeLifecycle` | merge controller, its store, the provider, crashes | `TransitionBarrier` |
| `MergeEvidence`, `MergeRecords` | what each merge record needs in time; which records fit together | |
| `LedgerFile` | the ledger's file and the run locks, write by write | |
| `RunCatalog` | open, migration, registration, reconciliation, owner ceiling | |
| `PlanHandoff` | run slots, execution lease, the plan's copy and its recovery | |
| `ActivityStore` | the events a client is shown: allocation, log, anchor, registry, forgetting | |
| `ActivityDetail`, `ActivityStreams` | batches of the builder's progress between two proofs; collectors, shared sidecars, streams, shutdown | |
| `ActionJournal`, `JournalNamespaces` | the journal's files under kills and power loss; their bootstrap by several processes | |
| `ResourceGuard` | slots of the read model, build slots | |
| `RunAdmission` | admission and launch of one request | |
| `PRLifecycle` | pull-request revisions | |
| `CIAttempts`, `CICollection` | attempts and their one answer; the two sweeps over a changing hub | |
| `IntegrationGate` | gate, workspace, combined acceptance, risk report | |
| `Recovery` | two recovery commands beside an editing owner | |
| `Governance` | two controllers on one row | |
| `StackSteps`, `StackJobs`, `ChangeJobs` | steps of a part; the two managers | `StackSteps` |
| `Previews`, `RemoteTarget`, `Eviction` | the service's own controllers | |
| `MCCancel`, `MCDecision` | symmetry, and statements of the documentation the code does not keep | |
| `MCJobs`, `MCRecords`, `MCDelivery`, `MCGates` | instances of several components for one run each | see section 3 |
| `MergeProofs`, `CancelProofs`, `DecisionProofs` | theorems of `MergeLifecycle`, `CancelMailbox`, `HumanDecision` | `DecisionProofs` extends `CancelProofs` |
| `GatesProofs`, `RecordsProofs`, `FilesProofs`, `JobsProofs`, `DeliveryProofs` | theorems of the components of a run, several to a module, section 5 | the modules they are about |

Names carry the component's prefix (`LF`, `RK`, `PH`, `AJ`, `JN`, `RG`, `RA`,
`PL`, `CA`, `CC`, `ME`, `MX`, `IG`, `RC`, `GV`, `SJ`, `CJ`, `PV`, `RT`, `EV`,
`AS`),
or are the code's own function names where one action is one function.

How state and actions correspond to the code:

* **Events.** In `RunLedger` an event is a record with the fields the readers
  compare; its identifier is its position. The deterministic identifiers of
  the two API events are the operation that owns them. `Marks` are the events
  that set the state; `CurrentState` and `LatestTransition` are the
  projections.
* **Runner.** `Choose` is everything outside the lease: the supervised step
  ended, the context was looked at, an intent was formed. `Commit` (or
  `Freeze` and `CommitFrozen` for a successful final transition, which closes
  the owner while it holds the lease) is `transitionWithReservedSnapshot` and
  `appendBlockedTransition`. `CommitFails` covers an append that failed
  before or after it was durable, `CommitRefused` a state that moved or an
  edge the table does not have. How the supervised build, validation or wall
  ends is a choice among the outcomes the code distinguishes.
* **Journal, as the actions see it.** `status`, `seq`, `leaseOf` and
  `admitted` are what a receipt and its records hold. `VALIDATING` is a
  handler between its checks and `CreateReceipt`, which decides again under
  the journal and catalog locks; `RESERVED` is an identity whose receipt is
  missing after a torn admission.
* **Watcher.** `PickUp`, `Claim`, `Deliver`, `Observe`, `Reconcile`,
  `ReadWatermark` and `Drained` are the steps of `watch`; `item` is the
  operation between two of them. `delivered` is lost with the process.
* **Owner.** `FreezeOwner`, `BeginClose`, `Retire`, `CloseFails` and
  `CloseTimesOut` are `BeginClose`, `Close` and `retire`; the process ends
  with the last of them.
* **Decision.** `work` is where a worker is with an operation: queued, claimed,
  answer recorded, relaunching. `ResumeRun` takes the launch lock, which the
  paused process holds until it exits, and installs the next generation only
  over a `RETIRED` lease.
* **Merge.** `pc` is the position of the one invocation; `records`, `outcome`,
  `reconciled`, the counters, `cores` and `channels` are the durable store;
  `remote` and `sent` are the provider's side. Every durable write is a step
  and `Crash` may follow each. A terminal core is its destination and the
  reason it was selected for. `MergeEvidence` models the same write from the
  evidence's side (a record exists when its constructor accepts it), and
  `MergeRecords` offers every constructor records of several writes.
* **Files.** In `ActionJournal`, `LedgerFile`, `RunCatalog`,
  `JournalNamespaces`, `PlanHandoff` and the PR and CI stores a file is
  missing, part written or whole; each system call is a step, a process may
  die between any two, and, where the code syncs, a power loss takes what was
  not synced. The functions that resume are the actions of the next process.
* **Controllers of the service.** An action is one critical section of the
  manager's mutex; a worker goroutine is a `pc` between two of them, and stops,
  deadlines, forgetting and restarts happen there. What a container, a script
  on a server, Git or GitHub does is a choice among the answers the code tells
  apart: a script on a server that is answered as failed has done nothing or
  all of its work, and the code's compensation does not know which.
* **Gates.** `Governance` evaluates an operation and writes the row in two
  steps when the operation asks Git in between, in one otherwise.
  `IntegrationGate` is the gate's call sequence with the world (`igWorld`:
  whose paths clash, whose head moves) chosen at the start.

## 3. Runs

| Run | Checks | Distinct states |
|---|---|---|
| `cancel_two` | two cancels against the final transition, the signal and the closing owner | 360,780 |
| `cancel_faults` | one cancel, three profiles, two injected failures, refinement of `RunHistory`, liveness | 283,829 |
| `decision` | pause, answer, relaunch, competing cancel, two generations, liveness | 90,290 |
| `decision_faults` | two answers, two failures | 172,350 |
| `merge` | merge controller, three crashes, foreign events, liveness | 198,039 |
| `jobs` | stack and change jobs, liveness of a queued change job; activity batches and streams | 446,996 |
| `records` | journal, bootstrap, guard, admission, PR, CI, merge evidence and records | 766,792 |
| `delivery` | previews, remote targets, eviction, run catalog | 1,785,233 |
| `gates` | lifecycle table, governance, integration, recovery, ledger file, plan hand-over, activity store | 1,049,337 |

The last four check components that share no state in their models. A variable
`focus`, chosen at the start, says which one moves; the others stay at their
initial state, so the states add up instead of multiplying and each component
is explored exactly as on its own. Each component's invariant `XSound` is the
conjunction of a type invariant and named parts:

| Invariant | Parts and what they say |
|---|---|
| `JobsSound` | `SJVerdictIsEvidence`: a PASSED or FAILED job is what its steps showed, nothing of an ended job still runs; `CJHandedBackIsSound`: a patch handed back is clean and no worse than its baseline, across restarts; `CJOnePerProject`. `CJQueuedEnds` is the liveness of change jobs |
| `ActivitySound` | `ADWholeOrMarked`: an event follows the one before it or a marker; `ADOneText`; `ADGapIsReal`: a late event is no gap; `AVStreamIsServed`: no stream waits on a collector that has retired; `AVSidecarIsHeld`, `AVWaitsAreAnswered`, `AVClosedIsQuiet` |
| `JournalSound` | `AJAckedIsKept`: acknowledged records survive power loss and roll-back, one receipt per operation; `AJOnlyATornMarkerRefuses`; `JNAlwaysReopens`: no kill during the bootstrap makes the root look damaged; `RGNeverOverbooked`, `RGWaitersHoldNothing`, `RGAlwaysResumes`, `RGBuildsFit` |
| `RASound` | `RALaunchIsSound`: one process, of the admitted body and profile, none after registration; `RAStuckHasACause`: only a death or a failed write leaves a launch that is never decided |
| `PLSound` | `PLOneWrite`, `PLNoLateWrite`: no late write lands over a later revision; `PLAppliedIsOurs`; `PLTerminalFits`; answers have their ledger event; what died still scans |
| `CISound` | an attempt answers one bundle for ever, never evidence older than itself, within the limits; `CCStableIsASnapshot` |
| `MergeEvidenceSound` | what landed had all its evidence fresh, APPLIED landed, NOT_APPLIED and a cancellation did not and cannot any more; `MXUnmixed` |
| `PVSound` | `PVOneDatabase`, `PVForgottenIsGone` |
| `RTSound` | `RTPlanRunsOnce`, `RTRestoreKeepsItsBackup`; `RTDataFitsTheApp`: the app that runs fits its data, unless an operation said it could not put the data back or ended unknown, a plan was applied to a site removed since, or a script of `convert` or `restore_data` changed the data and was answered as failed; `RTLinkIsThereUnlessUnknown`, unless an operation ended unknown or a switch was done and answered as failed |
| `EVSound` | `EVPinnedBeforeGone`, `EVForgottenIsGone`, `EVUnfinishedKeeps`, `EVQuotaHolds`; not that nothing came to use the worktree since the inspection (`EVProtectedIsKept`, below) |
| `RKSound` | `RKAlwaysRecoverable`, `RKHistoryNamesTheRuns`, `RKOneAuthority`, `RKRegisteredOnce`, `RKOnlyADeathHidesTheList`, `RKOwnersAreReal` |
| `GVSound` | `GVOneInvocation`, `GVLeaseOnce`, `GVChainIsProven`: convergence, acceptance and merge are of one commit a clean review saw |
| `IGSound` | `IGReadyIsProved`, `IGConflictIsReal`, `IGNothingLeft` |
| `RCSound` | `RCRemovedWasDead`, `RCRemovedIsKept`: the captured parts (diff, untracked and progress files; ignored files are never captured), `RCOneRestart` |
| `RunFilesSound` | `LFAcknowledgedStays`, `LFNamesWhatIsThere`, `LFOnlyATearRefuses`, `LFOneTransitionAtATime`; `PHLiveCopyStays`, `PHNothingUnowned`, `PHOnlyATornCopyBlocks`, `PHBuildsOnSlots`, `PHNobodyBlocksAll`; `ASOrdinalsAreOnce`, `ASShownStays`, `ASRecovers`, `ASForgottenStaysGone` |

Three more runs expect a violation, each of one statement of the documentation:

| Run | What the code does |
|---|---|
| `every_answered_pause_resumes` | a history with two pauses is refused by `pendingResumeAnswer`, answered or not |
| `applied_is_never_cancelled` | a cancellation drafted before a submission and replayed after it relabels an applied merge |
| `ended_stays_ended` | a stack job stopped between leaving the queue and being marked RUNNING is answered STOPPED and then runs |

The findings in `PROJECT.json` quote the lines. Every property of a passing
run has a mutant, a definition beside the one it replaces (dropped guard,
missing check, off-by-one, swapped order), under which TLC finds it violated.
The conjunctions have several, one per part and component where a single
change of the code breaks that part.

Other documented statements are definitions of the modules too. TLC refutes
each when it is put in a configuration; they are not runs of their own:

| Definition | Statement and what happens |
|---|---|
| `CancelledRunProvesTheCancel` (`MCCancel`) | a `CANCELLED` transition proves the cancel; the watcher accepts it from five sources, the runner writes it from four more |
| `ClosingDrainEnds` (`MCCancel`) | a delivered cancel on a runner that paused stays `CLAIMED`, the owner `CLOSING` |
| `AppliedAnswerTakesEffect` (`MCDecision`) | an answer given before the paused process exits is `APPLIED` and its relaunch dropped |
| `EverySelectionFinishes` (`MergeLifecycle`) | a `CANCELLED` selection at a zero-byte boundary is never carried to the ledger after a crash |
| `AJReservationMaterializes` (`ActionJournal`) | a torn append marker makes the journal refuse the replay that would materialize a reservation |
| `PVKeptLockIsNotAwaited` (`Previews`) | `releaseApp`, under the kept lock, waits for a preview whose worker waits for that lock |
| `RTFailureChangesNothing` (`RemoteTarget`) | `convert.go:20`, a failing conversion changes nothing: its script commits in one command and counts in a second (92-113), so an error (51-57) may follow the commit, and `again` (`deploy.go:655-690`) starts the old release on the converted data, saying nothing changed |
| `RTLinkIsThere` (`RemoteTarget`) | after an operation that ended unknown, or a switch answered as failed and done, pruning may remove the release the server's link names |
| `AVMarkerIsEarned` (`ActivityStreams`) | `runtime.go:21`, the lock serializes the creation of runtimes: it is not waited for, and of two sidecars that start together one run is marked `sidecar-unavailable`, which makes its checkpoints ineligible for a preview |
| `EVProtectedIsKept` (`Eviction`) | a watcher or preview that comes after the inspection does not stop the eviction |

### Bounds

* `Cancels`, `Decisions`: two operations of a kind are enough for every pair
  of writers of one journal (the second is refused, replayed, rejected or
  drained behind the first); symmetric in `cancel_two`.
* `Profiles`: `open` includes every step of `plain`, so the fault run leaves
  `plain` out; `bounded` and `exact` end and fail elsewhere.
* `MaxFaults`: two failures reach "the append was ambiguous and then the
  process died" and "the receipt was torn and then the drain timed out".
* `MaxGen`: two generations are one resume; three are needed for the second
  pause.
* `MaxCrashes` 3, `MaxNoise` 1, `MaxRounds` 2, `MaxCalls` 6 for the merge:
  draft, submit and record need three crashed invocations; six calls are one
  full attempt, so budget exhaustion is reached at every later point.
* Jobs: two jobs, a queue of one (stack) and two (change), one record kept, so
  refusal, pruning and a second job of a busy project all happen; one failed
  save or kill.
* Journal: two interchangeable requests, segments of two records, two epochs of
  a segment, two faults (a failed sync and then a power loss); three objects
  and three kills in the bootstrap; the guard with two ledger slots and one
  snapshot slot.
* Admission: two handlers, two bodies, two profiles, four posts, two faults.
* PR: three revisions of two requests and two pulls with a store that just
  fits; CI: three attempts of two runs against a ceiling of two, three
  collections; collections of up to two items in pages of one, and 17
  requests, a ceiling the longer collections meet.
* Merge records: three writes, two of one READY. Evidence: two changes of the
  hub, two rounds, seven calls.
* Previews: two of one app, both keeping its data. Targets: an app of two forms
  of data and a static site, one release kept, three requests. Eviction: two
  worktrees against a quota of one. Catalog: two processes, two runs, one owner
  at a time, two deaths, two generations, two objects to make.
  `MCDelivery` plans the first of two interchangeable releases first
  (`FirstIsA1`) and lets the second process die only before the second
  generation (`LastDeathIsEarly`); without either they were checked apart
  (734,284 states of `RemoteTarget`, 988,790 of `RunCatalog`).
* Governance: two controllers, two rules, two commits, two reports, one lease,
  two fixes. Integration: two candidates, a required contract check and an
  optional lint. Recovery: two commands, two edits, one too large.
* Ledger file: two handles; an event for `Append`, a request and a transition
  for `AppendOrVerify`, all of one run; three lines, one torn write or power
  loss (a second only repeats the refusal the first causes). Hand-over: two
  worktree runs and two exclusive ones on two slots, two faults. Activity: two
  services, two runs of which one is cached, two events, three ordinals, one
  death or failed write (two were checked apart: 880,183 states). Its batches:
  pages of two of four events, two faults (a lost event and then a restart; five
  events were checked apart). Its streams: two runs of one repository and one of
  another, two collectors at a time, one stream, one fault.

`CHECK_DEADLOCK FALSE` everywhere: a run ends, a client may stop asking, and a
controller may stop with its work done.

### Fairness

The runner, the watcher and `main` are weakly fair while their process lives
(goroutines of a process that is not stopped); a worker of the action service
or of the change jobs is weakly fair on what it has. Clients, signals, crashes
and failures are never fair. In the merge the running invocation and the
provider's decision are weakly fair and `Execute` strongly: it is the recovery
entry point of an attempt, safe to call again, and is assumed to be called
until the attempt settles; without that no recovery ever happens and nothing
can be said of its end. Liveness is claimed only where nothing failed
(`faults > 0` is an alternative), while the service stays up (`CJQueuedEnds`),
or for a selection that is already durable. That waiting never becomes a
circle is stated as safety where the code waits for locks (`PHNobodyBlocksAll`,
`RGWaitersHoldNothing`).

## 4. Abstractions worth knowing

* The provider is modelled by its interface. `ReconcileTarget` may prove
  NOT_APPLIED although the GitHub provider only proves APPLIED or answers
  UNKNOWN; its inner reads are one call.
* The four channel appends of `Cancel` are one step, `target-commitment.json`
  is part of "sealed", and cleanup and incident records are left out: nothing
  reads them back to decide.
* A foreign event in the shared ledger matters to a cancellation only by
  whether one came after it was drafted (`seen`, `noise`).
* Grants, digests, canonical encodings, inodes and authentication are assumed
  to verify; a torn file is modelled where the code has a name for it. A
  digest of a document is the document.
* The journal's `RECONCILIATION_REQUIRED` marker and the outcome after it are
  two transactions, so they are two steps.
* `RunCatalog` starts without a version-1 catalog that already has runs and
  leaves the identity checks of replaced files out; a death there also stands
  for a lock that timed out. `PlanHandoff` leaves out plans tracked in the
  start commit and walled runs, which leave no copy.
* `Governance` keeps of a losing compare-and-swap only that its operation is
  evaluated again; the wall clock of B, which only refuses, is left out.
* `StackJobs` and `ChangeJobs` keep the states of steps and counts of tests,
  not their output; phases and reason codes that nothing reads back are left
  out.
* `RemoteTarget`'s scripts succeed, or fail with nothing or all of their work
  done; a step of several scripts is a step for each (`RTRemoveDataSteps`,
  `RTCleanSteps`), and pruning the server and recording it are two. What a
  script leaves half done is left out. `rtStray` and `rtLost` are history: they
  name the cases `RTSound` excepts.

## 5. Proofs

Each theorem is for every value of the constants under the module's named
assumption: numbers are natural numbers, sets of identities are finite where a
count is taken and do not contain the value that stands for "nobody". Every
inductive invariant was checked by TLC on the component's instance before it
was proved. The comment at the head of each module gives its arguments.

`MergeProofs`, for every value of `MaxCalls`, `MaxRounds`, `MaxCrashes` and
`MaxNoise`. `MergeInv` adds to the types what the code relies on and never
states: which positions an invocation can be in with which records, that the
counters and the provider's side agree (`sent` is at most the reservation),
that a disposition in memory or on record is backed by `remote`, that a barrier
is in place from the reservation on, and that the core in memory is compatible
with the selected ones. Proved from it: `MergeTypeCorrect`, `MutatesOnce`,
`BarrierOutlastsDoubt`, `MergedWasApplied`, `FailuresAreHonest`, `SelectsOnce`.

`CancelProofs`, for any number of cancels and decisions, every profile and any
number of failures. None of the properties is inductive alone. `CancelInv` has
one part per concern: `Numbered` (the journal's sequence, the lease's generation
and the ledger's length stay in step), `RunnerSane` (what the runner decided is
an edge from where the ledger is, and the frozen lease keeps it so), `Begun`,
`DrainSane` (the watermark is the journal's sequence when the owner closed),
`RequestsSane` (requests are appended for claimed operations only). Proved:
`SettledCancelsAreTrue`, `RequestsStayInWindow`, `TypedCauseDecides`,
`RetirementDrains`, the action property in `SettlementIsFinal`,
`SuccessIsOutOfReach` (with `SuccessSane` on top), and the refinement,
`LedgerImplementsHistory`: every step of the mailbox is a step of `RunHistory`
or a stutter under the ledger's newest mark.

`DecisionProofs`. A decision step leaves the mailbox alone but for an answer
event, which sets no state, and a resumed process starts with an empty watcher
under a new lease; so `CancelInv` holds of `DecisionSpec` too, and the cancel
properties with it (`ResumedRunsKeepCancels`). `DecisionInv` adds that each
recorded answer has its decision's record past its claim (`AnswersSane`,
`WorkSane`) and that what a resumed runner decided is what the one answer says
(`ResumeSane`). Proved: `PauseIsAnsweredOnce`, `SettledDecisionsAreTrue`,
`AnswerDecidesTheResume`.

`GatesProofs`:

* `HistoryTypeCorrect`, `MergeIsEarned`, `CompletionIsEarned` and the action
  property in `TerminalStays`. `HistoryInv` says, for each state of the table,
  which milestones a run in it must have been through. It is needed because a
  run may leave and re-enter the middle of the table (`VALIDATION_UNAVAILABLE`
  is entered from three phases), so the state alone does not say what came
  before.
* `GovernanceIsSound`. The argument is the compare-and-swap: a write was
  evaluated against the row it replaces, so `GVProposed`, true when it was
  evaluated, is true when it is swapped in; the chain of checkpoints is then
  proven link by link.
* `RecoveryIsSound`. No lock is held; what carries the proof is that an id is
  used once, that the dead stay dead, and that a worktree is removed once, so
  one command gets past the removal (`RCOneRemover`).
* `TheGateOffersWhatItTested`. A report names the order, the head and the
  evidence the workspace has, and each way out of the gate but the acceptance
  takes the workspace away or keeps it as a conflict's own. The proof found the
  model wrong: with two faults the evidence of a candidate that fell back was
  not what `gate.go:401-471` leaves (`IGFallback`).

`RecordsProofs`:

* `AdmissionIsSound`. A handler between `materialize` and `awaitLaunch` holds
  the launch lock, a living process holds it, and it has one holder.
* `MergeEvidenceIsFresh`, `RecordsAreUnmixed`, together `MergeEvidenceHolds`. An
  observation is dated by the controller's own clock, so an order of steps is an
  order of dates; a record's constructor compares the READY and the write of
  what it cites, so records of one chain are of one write.
* `AnAttemptHasOneAnswer`, `AStableBundleIsASnapshot`, together
  `CIEvidenceHolds`. A bundle is written once under the lock of its reservation.
  The two sweeps are compared item by item: what both show did not change
  between them, and the moment between them is the snapshot.

`FilesProofs`, together `RunFilesHold`:

* `AcknowledgedEventsStay`: each step holds the flock its file is named under,
  so what a process found when it opened the file is what it appends to.
* `TheHandoffStays`: whoever recovers holds the lease, and what lies in the
  directory was named by a record before it was made.
* `ActivityStaysNumbered`: an ordinal is made durable before it is used, so the
  sequence is at least every ordinal written.

`JobsProofs`, together `JobsHold`:

* `StackJobVerdictsAreEvidence`: the one worker holds the only running job, and
  what it has gathered is the evidence of the steps it ran, in their order.
* `ChangeJobsHandBackSoundly`: a worker's position says what was required of its
  job already (a clean change at the checks after, a ready baseline at the
  agent); a project is busy exactly while a worker holds it.

`DeliveryProofs`:

* `PreviewsAreSound`. `ForgetPreviews` finds a preview by its record
  (`PVWorkerHasRecord`), so it waits for every worker there is; a forgotten run
  gets no new one; what has no worker has no object unless the service was made
  unavailable (`PVIdleIsClean`).
* `CatalogIsSound`. `RKDiskFits` is what every single step of an issuance and of
  its reconciliation leaves on disk; since it excludes `RKIntegrity`, the error
  branches of `reconcileRunNamespaceIssuance` are never taken, and neither is
  the one of `retireRuntimeOwner`. `RKWay` and `RKPhase` tie a process's place
  to what it passed and to what the holder of the lock has made; `RKMonotone` is
  what the others may count on meanwhile. The ceiling is a statement about
  cardinalities: what is not retired is owned, or was lost to a death, and a
  death loses at most one (`RKOneLost`).
* `EvictionIsSound`, for every size of worktree. The policy's choice is a sum
  over its victims: what it takes leaves the rest within the quota or leaves
  nothing that may go. A sweep pins, seals and removes one victim after the
  other, and a forgetting can be taken up again at its first step because each
  step leaves what the ones before it removed.
* `PullRequestsAreSound`, for every bound on the rounds and every capacity of
  the store. `PLCallOK` says what a call at each of its steps knows of the
  records. `PLMarked`: a write sent has its marker and a write still under way
  belongs to the last revision, whose result is not confirmed; the barrier lets
  the next revision through only when it is, so nothing is then under way.
  `PLFull`: the files there are and the terminals that markers promised fit,
  which is what each step that writes a file has checked.

Sums over sets (the quota, the files of the store) are `MapThenSumSet`, defined
by a recursive function over the subsets. The library's induction cannot be
cited, so the lemmas on them (`SumStep`, `SumOfAll`) argue by a smallest
counterexample: of the parts of a set that refute a statement one has the
fewest members (`NatLessThanWellFounded`, `WFMin`), and taking one member out of
it gives a smaller one.

What the proofs needed of the models: assumptions the code justifies were
added (`PLRuns` finite, the bytes of a worktree a number, a run's flock none of
the ledger's other three), removals from a sequence are written with the
library's `RemoveAt` and friends, and an `EXCEPT` inside an `EXCEPT` names the
old value instead of a second `@`, which `tlapm` reads as the outer one.

Only model-checked:

* Liveness under fairness, `ENABLED` and deadlock: out of the prover's reach.
* `RTSound`: what a roll-back restores is found with `SelectSeq` in the list of
  backups, and an invariant over every step of eight kinds of operation is
  needed.
* `JournalSound`: what replay reads is `FlattenSeq` and `SelectSeq` of the
  segments, and what they compute for every sequence is an induction over data.
* `ActivitySound`: a batch is a `SetToSortSeq`, likewise.

## 6. Running

    tlc -workers 2 -config MCMerge.cfg MergeLifecycle
    tlapm MergeProofs.tla

`PROJECT.json` gives the module and configuration of each run. The longest
run takes about two and a half minutes. From nothing and with four threads the
proofs take about 12 minutes in `DeliveryProofs`, 10 in `FilesProofs`, 7 each in
`RecordsProofs` and `JobsProofs`, 4 in `GatesProofs` and 2 or less in the others.

## 7. Not modelled

* HTTP routing, authentication and DTOs (`serviceapi`): they hold no state the
  controllers do not hold.
* Parsing and validation of immutable documents (`authority`, `context`,
  `strictjson`, dump readers): pure, and their verdicts are choices of the
  models that use them. Text classification (`blocker`, `runfailure`) likewise.
* Process and Git execution (`ralphex`, `supervisor`, `gitexec`), the walls and
  containers around a build, SSH and compose: how they end is a choice.
* The windows in which `activity` does not yet mark a missing worktree or an
  unreadable registration (clock arithmetic; see section 9), the translation of
  its events, and the stream translation of `openmodel`'s relay.
* Login and engine lanes (`accountlane`, `enginelane`): private files read at
  launch. Projections (`timeline`, paging of `readmodel`), health probes
  (`appwatch`).

Inside modelled components: version-1 catalogs with runs, V2 governance, the
preview's compose files, import and proxy, and device and inode checks against
files a person replaced (one such case is in `ResourceGuard`).

## 8. Plan

1. Done: the models and runs above, the theorems of section 5.
2. `RTSound`: an invariant that names, for each kind of operation and each of
   its steps, what a roll-back from there restores.
3. Of `JournalSound` and `ActivitySound` the parts that involve no sorted or
   flattened sequence (`JNAlwaysReopens`, `RGWaitersHoldNothing`,
   `AVStreamIsServed`).

## 9. Observations

What modelling showed of the code beside the findings, each at its line under
`src/internal/`.

* `actioncontrol/journal_linux.go:3253`: a decision that was rejected or
  reconciled as not applied keeps its decision request in the index, so any
  further answer to that request is refused as existing.
* `actioncontrol`: a failed fsync followed by a power loss may leave the
  journal in a state every later opener refuses; and after a crash of the
  bootstrap the run authority is published after the root's without the lock
  (511-521), which the resumption tolerates.
* `remotetarget/deploy.go:685`, `:788`, `:357`: a `convert` that did its work and
  was answered as failed leaves converted data under the old release, and so a
  `restore_data` (`RTFailureChangesNothing`); `start_from` may prune the
  backup it started from; a plan may be applied after its site was removed (357-362
  compare it with the sites there are), and when its release then fails its health
  check the roll-back starts the replaced release on data of another form.
* `governance/governance.go:1978`, `:2000`: a replay of
  IMPLEMENTATION_CONVERGED after a lost answer is refused, not answered.
* `prlifecycle/store_linux.go:259-285`: a torn `create` record is refused by
  every later call; `terminal.go:668`: an AppliedReconciled terminal keeps later
  revisions out.
* `cilifecycle/material_ledger_linux.go:287-291`: a torn line of the material
  ledger refuses for ever; an incomplete reservation counts against every run
  (`attempt_store_linux.go:262`).
* `recovery/inspection.go:174`: a crash between the removal and
  CLEANUP_COMPLETED leaves a MISSING worktree no later command accepts.
* `combinedacceptance/combinedacceptance.go:563`: a semantic check that timed
  out is a failure, never a conflict; `integrationworkspace/controller.go:378`: a
  workspace stays when its evidence cannot be captured.
* `runtimecatalog/catalog_linux.go:697`: leases of dead processes count against
  the ceiling of owners until their runs are resumed; a death between a run's
  namespace and its record makes `ListRuns` fail until the run is registered
  again.
* `ledger/run_transition_namespace_linux.go:350`: a run lock that was made but
  not fully written refuses every later transition of its run.
* `run/run.go:1457`: a copy of `plan.md` left part way refuses every later run
  of the repository.
* `activity/namespace.go:41`: of two services that open a new root together the
  one that made the witness may lose its lock to the other, and the store is
  then refused for ever; `registry.go:86`: a death between the registry and the
  sequence, or a registry saved beside a sequence whose sync had failed, closes
  the whole store, not only the run's log; `store.go:499`: a forgotten run that
  had no log yet may be given one later.
* `activity/runtime.go:36`, `service.go:797`: see `AVMarkerIsEarned`; the marker
  stays although the next round starts the sidecar.
* `activity/service.go:946`: the proof is saved before the events it covers, so a
  death between a run's first proof and its first append loses event 0, which no
  later reader is sent, without a marker.
* `activity/service.go:267`: a worktree not made yet is forgiven for 30 seconds
  after admission, but `run/run.go:832` records IMPLEMENTING before the builder
  makes it: a run that waited longer in the queue and is read in between may be
  marked binding-unavailable.
