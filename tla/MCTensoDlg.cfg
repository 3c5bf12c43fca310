SPECIFICATION TensoSpec
CONSTANTS
  g1 = g1
  g2 = g2
  NaN = NaN
  Gauge = {g1, g2}
  Selections <- MCSelections
  Top = 5
  Resistance <- MCResistance
  Typed = {2, 7, 14, 19, 25}
  Shift <- MCShift
  Bridges <- MCBridges
  Stored <- MCStored
  MaxActs = 2
INVARIANTS SliderTellsBalance
PROPERTIES BalanceEnds BalancedIsBest
CHECK_DEADLOCK FALSE
