SPECIFICATION DecisionSpec
CONSTANTS
  Cancels = {}
  Decisions = {d1, d2}
  Profiles = {"plain"}
  MaxFaults = 0
  MaxGen = 3
INVARIANT EveryAnsweredPauseResumes
CHECK_DEADLOCK FALSE
