SPECIFICATION Spec
CONSTANTS
  W = 8
  B = 2
  Headroom = 1
  Delay = 1
  HttpFill = TRUE
  Modes <- SilenceOnly
  First = 6
  Last = 12
  Late = 0
  Jump = 1
  Ahead = 1
  MaxGaps = 0
CHECK_DEADLOCK FALSE
INVARIANT IgnoresOnlyBelow
