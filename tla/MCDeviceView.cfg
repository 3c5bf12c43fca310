SPECIFICATION FairSpec
CONSTANTS
  N = 5
  Parent <- MCParent
  MaxRefresh = 1
INVARIANTS NoMutualWait CollectedIsShown
PROPERTY WindowComesBack
CHECK_DEADLOCK FALSE
