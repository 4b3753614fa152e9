SPECIFICATION Spec
CONSTANTS
  HomeStates <- AllStates
  Requests <- AllRequests
  Levels <- OneLevel
  NoLevel = NoLevel
  ConfigFlush = TRUE
  Hold = 0
  Streamers = {s1, s2}
  NoStreamer = NoStreamer
SYMMETRY Alike
INVARIANTS TypeOK ContextAlive FreeSlotQuiet PlayJustified
PROPERTY KeepsPromise
