CONSTANTS
  NoNode = NoNode
  Broken = Broken
  Outdated = Outdated
  Closed = Closed
  Device = Device
  PerSlot = 2
  Docs <- DocsMC
  States <- StatesMC
  Metas <- MetasMC
  Value = {2}
  Shown = {1}
  MaxEdits = 3
  MaxWrites = 1
SPECIFICATION ZspSpec
INVARIANT SavesFindTheirData
PROPERTIES RoundHandsOutFiles SavedIsRead OkReachesFile
CHECK_DEADLOCK FALSE
