SPECIFICATION Spec
CONSTANTS
  N = 4
  Parent <- MCParent
  Above <- MCAbove
  WaitTicks = 3
  Leaves = {2, 4}
  Controllers = {3}
  UpdateTicks = 2
  MaxRefresh = 1
INVARIANTS CrawlerTypeOK TreeIntact AliveUpward WaitersConsistent AnnouncedAreRegistered
PROPERTIES FoundSurvives ImplementsRegistry
