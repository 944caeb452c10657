SPECIFICATION MergeSpec
CONSTANTS
  MaxCalls = 6
  MaxRounds = 1
  MaxCrashes = 3
  MaxNoise = 1
INVARIANT
  AppliedIsNeverCancelled
CHECK_DEADLOCK FALSE
