SPECIFICATION FairSpec
CONSTANTS
  a = a
  b = b
  m = m
  n = n
  Device = {a, b, m, n}
  None = None
  Masters = {m, n}
  Line <- MCLine
  Node <- MCNode
  Half = 4
  MaxOpen = 2
INVARIANTS QuitStartsAll LastWriterStarts
PROPERTIES JoinEndsUnlessSending CloseEnds LabelSettles
CHECK_DEADLOCK FALSE
