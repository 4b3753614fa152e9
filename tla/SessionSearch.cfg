SPECIFICATION Spec
CONSTANTS
  Senders = {ann, bob}
  NoId = NoId
  Nobody = Nobody
  MaxSearches = 2
  MaxStreamers = 2
  Faults <- Drops
CHECK_DEADLOCK FALSE
INVARIANT TeardownLeavesNoSearch
