SPECIFICATION CancelFairSpec
CONSTANTS
  Cancels = {c1}
  Decisions = {}
  Profiles = {"open", "bounded", "exact"}
  MaxFaults = 2
INVARIANTS CancelTypeOK CancelOutcomesAreTrue DeliveredInsideWindow
PROPERTIES ImplementsHistory ReceivedIsTakenUp EndedRunRetires
CHECK_DEADLOCK FALSE
