SPECIFICATION MergeFairSpec
CONSTANTS
  MaxCalls = 6
  MaxRounds = 2
  MaxCrashes = 3
  MaxNoise = 1
INVARIANTS
  MergeTypeOK
  OneMutationEach
  UnresolvedKeepsBarrier
  MergedIsProved
  FailureCoresAreHonest
  OneSelection
PROPERTIES
  SelectionFinishes
CHECK_DEADLOCK FALSE
