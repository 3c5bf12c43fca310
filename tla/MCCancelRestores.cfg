SPECIFICATION MCSpec
CONSTANTS
  a = a
  b = b
  f = f
  d = d
  h = h
  e = e
  g = g
  z = z
  y = y
  Channel = {a, b, f, d, h, e, g, z, y}
  Zsp = {z, y}
  FeedBack = {f, h, g}
  Module <- MCModule
  Number <- MCNumber
  HasIcp = {a, b, f, d, h, z, y}
  HasCharge = {a, b, d}
  HasDiff = {a, b, d, z, y}
  HasInputMode = {a, b, d, e}
  Text <- MCText
  Value = {0, 1}
  MaxGain = 1
  Groups <- MCGroups
  MaxEdits = 1
  WindowEdits = 1
  Start <- MCStart
  Clips <- MCClips
  Rows <- MCRows
  MaxClicks = 0
  MaxCommands = 0
PROPERTIES IcpReturns
CHECK_DEADLOCK FALSE
