CONSTANTS
  Rest = Rest  f1 = f1
  Origins = {"api"}  Fires = {f1}
  Ticks = {"DELIVERED"}
  MaxMutations = 1  MaxNews = 1  MaxFaults = 0  MaxStops = 0
SPECIFICATION Spec
CHECK_DEADLOCK FALSE
PROPERTIES MovesForward
