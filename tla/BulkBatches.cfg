CONSTANTS
  n1 = n1  n2 = n2  b1 = b1  r1 = r1  r2 = r2  c1 = c1  None = None
  Nodes = {n1, n2}  Batches = {b1}  Runs = {r1, r2}  Cancels = {c1}  First = n1
  Total = 3  Cadence = 2  Cap = 1
  Lapses = FALSE  Manual = FALSE  MaxFaults = 1  MaxEvents = 2
SPECIFICATION FairSpec
CONSTRAINTS CreatedInOrder TwoMishaps
CHECK_DEADLOCK FALSE
INVARIANTS InFlightCounted CountersHonest CancelStops
PROPERTIES CancelIsKept BootSparesPeers BatchEnds
