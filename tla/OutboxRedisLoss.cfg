CONSTANTS
  Events = {"e1"}
  Dispatchers = {"d1"}
  BatchSize = 1
  MaxAttempts = 2
  Lease = 1
  BackoffCap = 2
  MaxStream = 6
  MaxFaults = 0
  MaxLosses = 1
SPECIFICATION FairSpec
PROPERTY JobsReachWorkers
