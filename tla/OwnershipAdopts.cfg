CONSTANTS
  n1 = n1  n2 = n2  c1 = c1  c2 = c2  None = None
  Nodes = {n1, n2}  Clients = {c1}
  TTL = 4  Beat = 1  Slow = 1  PoolSize = 2
  Verbs = {"start"}  Serial = TRUE  StartsFail = FALSE  MaxMishaps = 1
SPECIFICATION FairSpec
CHECK_DEADLOCK FALSE
PROPERTIES LiveClaimRespected OrphanAdopted
