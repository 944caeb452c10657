SPECIFICATION DecisionSpec
CONSTANTS
  Cancels = {}
  Decisions = {d1, d2}
  Profiles = {"plain"}
  MaxFaults = 2
  MaxGen = 2
INVARIANTS OneAnswerPerBlocker DecisionOutcomesAreTrue
CHECK_DEADLOCK FALSE
