CONSTANTS
  d1 = d1  d2 = d2  i1 = i1  i2 = i2  None = None
  Deliveries = {d1, d2}  Instances = {i1, i2}  InstanceOf <- OwnInstance  Letters = {l1, l2}
  QueueOn = FALSE  JobAttempts = 1  MaxAttempts = 2  BatchSize = 1  MaxStalled = 1
  Prompt = TRUE  SaveFails = FALSE
  MaxFaults = 0  MaxCrashes = 1  MaxOrders = 1
SPECIFICATION FairSpec
CHECK_DEADLOCK FALSE
PROPERTIES PendingEnds
