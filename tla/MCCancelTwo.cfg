SPECIFICATION CancelSpec
CONSTANTS
  Cancels = {c1, c2}
  Decisions = {}
  Profiles = {"plain"}
  MaxFaults = 0
SYMMETRY Symmetric
INVARIANTS RetiredOwnerIsDrained CauseDecides NoRequestAfterSuccess
PROPERTY SettledIsFinal
CHECK_DEADLOCK FALSE
