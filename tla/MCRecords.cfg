SPECIFICATION MCRecordsSpec
CONSTANTS
  AJRequests = {q1, q2}
  AJSegmentMax = 2
  AJEpochs = 2
  AJMaxIssued = 2
  AJMaxFaults = 2
  JNProcs = {"p1", "p2"}
  JNObjects = 3
  JNMaxKills = 3
  RAHandlers = {"h1", "h2"}
  RABodies = {"a", "b"}
  RAProfiles = {"p", "q"}
  RAMaxPosts = 4
  RAMaxFaults = 2
  RGProcs = {"p1", "p2"}
  RGLedgerSlots = 2
  RGSnapshotSlots = 1
  RGIdentities = 2
  RGCapacities = {1, 2}
  RGMaxKills = 2
  PLRequests = {"a", "b"}
  PLRuns = {"r"}
  PLMaxRevisions = 3
  PLPrepareRounds = 2
  PLResumeRounds = 1
  PLReconcileRounds = 2
  PLMaxPulls = 2
  PLCapacity = 13
  PLMaxFaults = 3
  CAAttempts = {"a1", "a2", "a3"}
  CARunOf <- RunOf
  CAMaxPerRun = 1
  CAMaxGlobal = 2
  CAMaxCollections = 3
  CAMaxFaults = 2
  CCPerPage = 1
  CCMaxItems = 2
  CCMaxPages = 4
  CCMaxRequests = 17
  CCMaxChanges = 2
  CCMaxFaults = 1
  MEMaxChanges = 2
  MEMaxRounds = 2
  MEMaxCalls = 7
  MXWrites = {1, 2, 3}
  MXReadyOf <- ReadyOf
INVARIANTS JournalSound RASound PLSound CISound MergeEvidenceSound
SYMMETRY Symmetric
CHECK_DEADLOCK FALSE
