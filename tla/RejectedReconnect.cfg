CONSTANTS
  s1 = s1  s2 = s2  n1 = n1  n2 = n2  e1 = e1  e2 = e2  e3 = e3  e4 = e4
  p1 = p1  p2 = p2  p3 = p3  None = None
  Ids = {s1}  Names = {n1}  NameOf <- OneName
  Engines = {e1, e2}  Procs = {p1, p2}
  Verbs = {"start"}
  Serial = TRUE  MaxAttempts = None  MaxConcurrent = 0  MaxRequests = 2  MaxWrites = 1
  DbInOrder = TRUE  DbFaults = FALSE  Unlinks = FALSE  StrayReports = FALSE  TeardownsFail = FALSE
SPECIFICATION Spec
SYMMETRY Symmetry
CHECK_DEADLOCK FALSE
PROPERTIES RetryFollowsFailure
