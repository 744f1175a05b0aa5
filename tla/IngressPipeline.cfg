CONSTANTS
  d1 = d1  d2 = d2  i1 = i1  i2 = i2  None = None
  Deliveries = {d1}  Instances = {i1}  InstanceOf <- OneInstance  Letters = {l1, l2}
  QueueOn = TRUE  JobAttempts = 1  MaxAttempts = 2  BatchSize = 2  MaxStalled = 1
  Prompt = TRUE  SaveFails = FALSE
  MaxFaults = 1  MaxCrashes = 1  MaxOrders = 1
SPECIFICATION FairSpec
CHECK_DEADLOCK FALSE
INVARIANTS NoSilentLoss ReplaysBounded
PROPERTIES PendingEnds
