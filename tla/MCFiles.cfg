SPECIFICATION RegSpec
CONSTANTS
  CardFile = {cfg, f1}
  Cfg = cfg
  Tries = 1
  MaxClicks = 3
INVARIANTS NoStandOff RestedIsRestored
CHECK_DEADLOCK FALSE
