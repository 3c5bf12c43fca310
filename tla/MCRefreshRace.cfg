SPECIFICATION RaceSpec
CONSTANTS
  N = 4
  Parent <- MCParent
  Leaves = {2, 4}
  MaxRefresh = 2
  Module = {"m1", "m2"}
  Inputs = 2
  WithLamps = {"m1"}
  MaxStarts = 2
  MaxChanges = 1
INVARIANTS LifeSettlesUpward FlagIsReleased LampsLeaveNoTrace ServerStandsAside
