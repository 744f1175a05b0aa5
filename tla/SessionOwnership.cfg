CONSTANTS
  n1 = n1  n2 = n2  c1 = c1  c2 = c2  None = None
  Nodes = {n1, n2}  Clients = {c1}
  TTL = 3  Beat = 1  Slow = 0  PoolSize = 1
  Verbs = {"start", "stop"}  Serial = TRUE  StartsFail = TRUE  MaxMishaps = 1
SPECIFICATION Spec
SYMMETRY Symmetry
CHECK_DEADLOCK FALSE
INVARIANTS OneEngine
