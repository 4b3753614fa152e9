SPECIFICATION FairSpec
CONSTANTS
  Cache = 4
  Chunk = 2
  Interval = 3
  MaxFrame = 2
  Delay = 1
  Flushes <- BothModes
  Ranges = {0, 1}
  MaxMade = 6
CHECK_DEADLOCK FALSE
INVARIANTS TypeOK TitleEveryInterval SilenceFirst EncoderOpen
PROPERTIES KeepsPromise Ends HangsUp
