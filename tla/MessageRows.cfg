CONSTANTS
  Rest = Rest  f1 = f1  f2 = f2
  Origins = {"api", "phone", "inbound"}  Fires = {f1, f2}
  Ticks = {"DELIVERED", "READ", "FAILED"}
  MaxMutations = 2  MaxNews = 2  MaxFaults = 1  MaxStops = 1
SPECIFICATION FairSpec
CHECK_DEADLOCK FALSE
INVARIANTS StoredOnce TicksShown LatestWins InboundTold
PROPERTIES PendingEnds
