SPECIFICATION FairSpec
CONSTANTS
  HomeStates <- JustIdle
  Requests <- FlushVolume
  Levels <- TwoLevels
  NoLevel = NoLevel
  ConfigFlush = FALSE
  Hold = 0
  Streamers = {s1}
  NoStreamer = NoStreamer
INVARIANT EchoOnlyWhenSlow
PROPERTIES KeepsPromise ManagerReturns LevelConverges
