CONSTANTS
  n1 = n1  n2 = n2  b1 = b1  b2 = b2  r1 = r1  r2 = r2  r3 = r3  c1 = c1  None = None
  Nodes = {n1, n2}  Batches = {b1}  Runs = {r1, r2}  Cancels = {c1}  First = n1
  Total = 3  Cadence = 2  Cap = 1
  Lapses = FALSE  Manual = FALSE  MaxFaults = 0  MaxEvents = 2
SPECIFICATION Spec
CHECK_DEADLOCK FALSE
PROPERTIES FailedIsTrue
