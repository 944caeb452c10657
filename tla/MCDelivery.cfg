SPECIFICATION MCDeliverySpec
CONSTANTS
  PVIds = {"a", "b"}
  PVKeep = {"a", "b"}
  PVMaxWorkers = 2
  PVMaxFaults = 1
  RTSites = {"n", "s"}
  RTNode = "n"
  RTReleases = {"a1", "a2", "b", "c"}
  RTReleasesOf <- ReleasesOf
  RTForm <- Form
  RTRequests = {1, 2, 3}
  RTKept = 1
  RTMaxFaults = 1
  EVRuns = {1, 2}
  EVBytes <- Bytes
  EVQuota = 1
  EVMaxUses = 1
  EVMaxFaults = 1
  RKProcs = {"p1", "p2"}
  RKRuns = {"r1", "r2"}
  RKRunsOf <- RunsOf
  RKOwners = 1
  RKObjects = 2
  RKCrashes = 2
  RKGens = 2
INVARIANTS PVSound RTSound EVSound RKSound
CHECK_DEADLOCK FALSE
