SPECIFICATION PagesSpec
CONSTANTS
  a = a
  b = b
  Channel = {a, b}
  Bad = Bad
  Slot <- MCSlot
  ResistorUnits = {"um/m", "MPa", "Nm"}
  FirstUnit = "um/m"
  Stress = {"MPa"}
  Moment = {"Nm"}
  PlainUnits = {"N", "kN"}
  Dimension <- MCDimension
  Power <- MCPower
  Typed <- MCTyped037
  Full037 <- MCFull037
  LoadsTried = {"tc4", "t2"}
  Clips037 <- MCClips037
  MaxChoices = 2
  Recorder = {r1, r2}
  RegType = {"210", "110", "A17U8", "A17U2", "220", "230", "ZET048", "240"}
  Saved <- MCSaved
  MaxTime = 2
  Ports = 3
  EnabledPorts = {0, 2}
  Inputs = 2
  MaxActs = 3
  Unit <- MCUnit
  Port = {1, 2}
  Actuator = {1, 2}
  Offered <- MCOffered
  Unread <- MCUnread
  Empty = Empty
  Minus = Minus
  NoNumber = NoNumber
  MaxEdits = 3
  MaxOthers = 1
  MaxFaults = 1
SYMMETRY Sym
INVARIANTS FormFitsChannel SlotAgrees CancelGivesBack OkWritesChoices
PROPERTIES CancelKeepsCard
CHECK_DEADLOCK FALSE
