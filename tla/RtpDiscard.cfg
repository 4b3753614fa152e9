SPECIFICATION Spec
CONSTANTS
  W = 32
  B = 4
  Headroom = 2
  Delay = 3
  HttpFill = TRUE
  Modes <- BothModes
  First = 30
  Last = 36
  Late = 1
  Jump = 2
  MaxGaps = 1
  Ahead = 2
CHECK_DEADLOCK FALSE
INVARIANT DiscardEnds
