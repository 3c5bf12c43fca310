SPECIFICATION Spec
CONSTANTS
  N = 5
  Parent <- MCParent
  MaxRefresh = 1
INVARIANT TreeIsFilled
CHECK_DEADLOCK FALSE
