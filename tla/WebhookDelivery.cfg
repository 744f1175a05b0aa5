CONSTANTS
  d1 = d1  d2 = d2  d3 = d3
  Tasks = {d1, d2, d3}
  ConfiguredMax = 1  ConfiguredQueued = 1
  RetryCount = 2  MaxCrashes = 2  MaxJobs = 1
SPECIFICATION FairSpec
CONSTRAINT DispatchedInOrder
CHECK_DEADLOCK FALSE
INVARIANTS NoSilentLoss NoFalseDeadLetter OneRowPerFailure PostsBounded
PROPERTIES ImplementsPool NoRepostAfterAck DeliveriesSettle
