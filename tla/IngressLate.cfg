CONSTANTS
  d1 = d1  d2 = d2  i1 = i1  i2 = i2  None = None
  Deliveries = {d1}  Instances = {i1}  InstanceOf <- OneInstance  Letters = {l1, l2}
  QueueOn = FALSE  JobAttempts = 1  MaxAttempts = 2  BatchSize = 2  MaxStalled = 1
  Prompt = FALSE  SaveFails = FALSE
  MaxFaults = 0  MaxCrashes = 0  MaxOrders = 0
SPECIFICATION Spec
CHECK_DEADLOCK FALSE
PROPERTIES FailedStands
