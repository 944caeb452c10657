SPECIFICATION MCJobsSpec
CONSTANTS
  SJMaxJobs = 2
  SJRequests = {"r1", "r2"}
  SJKept = 1
  SJMaxQueued = 1
  SJSource <- Source
  SJScan = {"r2"}
  SJPrivate = {"r1"}
  SJMaxFaults = 1
  CJMaxJobs = 2
  CJRequests = {"r1", "r2"}
  CJProject <- Project
  CJKind <- Kind
  CJWorkers = {w1, w2}
  CJMaxQueued = 2
  CJKept = 1
  CJCommands = 1
  CJChecks <- Checks
  CJMaxFaults = 1
  ADPage = 2
  ADMaxIds = 4
  ADMaxFaults = 2
  AVRuns = {"r1", "r2", "r3"}
  AVKeys = {"k", "l"}
  AVKeyOf <- RepositoryOf
  AVCollectors = {1, 2}
  AVClients = {"a"}
  AVMaxStreams = 2
  AVMaxFaults = 1
INVARIANTS JobsSound ActivitySound
PROPERTIES CJQueuedEnds
CHECK_DEADLOCK FALSE
