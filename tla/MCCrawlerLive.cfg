SPECIFICATION FairSpec
CONSTANTS
  N = 3
  Parent <- MCParent
  Above <- MCAbove
  WaitTicks = 2
  Leaves = {2}
  Controllers = {3}
  UpdateTicks = 1
  MaxRefresh = 1
PROPERTIES FoundEventually LostEventually WaitResolved
