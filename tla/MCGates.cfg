SPECIFICATION MCGatesSpec
CONSTANTS
  GVControllers = {"c1", "c2"}
  GVRules = {"r1", "r2"}
  GVFloors = {{"r1"}, {"r2"}}
  GVFindings = {"f"}
  GVPaths = {"p"}
  GVPathsFor <- PathsFor
  GVMaxCommits = 2
  GVMaxReports = 2
  GVMaxLeases = 1
  GVMaxFix = 2
  GVMaxInvocations = 2
  GVMaxFaults = 1
  IGOrder <- Order
  IGPaths = {"x", "y"}
  IGProtected = {"y"}
  IGCommands <- Commands
  IGSemantic = {"contract"}
  IGFailClosed = {"build"}
  IGCleanupOnFailure = FALSE
  IGMaxFaults = 1
  RCIds = {"s1", "s2"}
  RCMaxEdits = 2
  RCBig = {2}
  RCVaried = {"paths", "cleanup"}
  RCMaxFaults = 1
  LFProcs = {"p1", "p2"}
  LFEvents = {"move", "request", "choose"}
  LFRuns = {"r"}
  LFRunOf <- LedgerRun
  LFMoves = {"move", "choose"}
  LFPlain = {"move"}
  LFTears = 1
  LFLines = 3
  PHRuns = {"w1", "w2", "x1", "x2"}
  PHExclusive = {"x1", "x2"}
  PHSlots = 2
  PHFaults = 2
  ASProcs = {"p1", "p2"}
  ASRuns = {"r1", "r2"}
  ASEvents = {"e1", "e2"}
  ASCached = 1
  ASMaxNext = 3
  ASMaxFaults = 1
INVARIANTS MergeNeedsEveryAcceptance CompletionNeedsMerge GVSound IGSound RCSound RunFilesSound
PROPERTIES TerminalIsFinal
CHECK_DEADLOCK FALSE
