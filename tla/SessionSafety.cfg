SPECIFICATION FairSpec
CONSTANTS
  Senders = {ann, bob}
  NoId = NoId
  Nobody = Nobody
  MaxSearches = 3
  MaxStreamers = 2
  Faults <- AllFaults
CHECK_DEADLOCK FALSE
INVARIANTS TypeOK NothingOutlivesContext RemoteOfSession OneStreamer JoinsLiveThread
PROPERTY AlwaysEnds
