SPECIFICATION Spec
CONSTANTS
  W = 16
  B = 4
  Headroom = 2
  Delay = 3
  HttpFill = TRUE
  Modes <- BothModes
  First = 14
  Last = 21
  Late = 1
  Jump = 2
  MaxGaps = 1
  Ahead = 1
CHECK_DEADLOCK FALSE
INVARIANTS TypeOK RightFrame NothingBelowFlush ReaderBehind ListensOn
PROPERTIES KeepsPromise PauseEnds
