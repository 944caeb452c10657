SPECIFICATION DecisionFairSpec
CONSTANTS
  Cancels = {c1}
  Decisions = {d1}
  Profiles = {"plain"}
  MaxFaults = 0
  MaxGen = 2
INVARIANT ResumeFollowsTheAnswer
PROPERTY AdmittedDecisionSettles
CHECK_DEADLOCK FALSE
