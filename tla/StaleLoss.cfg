CONSTANTS
  n1 = n1  n2 = n2  c1 = c1  c2 = c2  None = None
  Nodes = {n1, n2}  Clients = {c1}
  TTL = 5  Beat = 2  Slow = 1  PoolSize = 2
  Verbs = {"start", "stop"}  Serial = TRUE  StartsFail = FALSE  MaxMishaps = 0
SPECIFICATION Spec
SYMMETRY Symmetry
CHECK_DEADLOCK FALSE
INVARIANTS OneEngine
