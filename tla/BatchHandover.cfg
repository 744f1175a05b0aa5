CONSTANTS
  n1 = n1  n2 = n2  b1 = b1  r1 = r1  None = None
  Nodes = {n1, n2}  Batches = {b1}  Runs = {r1}  Cancels = {}  First = n1
  Total = 3  Cadence = 2  Cap = 0
  Lapses = FALSE  Manual = FALSE  MaxFaults = 1  MaxEvents = 4
SPECIFICATION FairSpec
CHECK_DEADLOCK FALSE
PROPERTIES BootSparesPeers BatchEnds
