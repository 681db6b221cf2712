CONSTANTS
  Probes = {"p1"}
  Runs = {"r1"}
  Schedulers = {"s1"}
  JobTTL = 5
  JobLease = 2
  StaleAfter = 1
  Batch = 1
  MaxAttempts = 2
SPECIFICATION FairSpec
PROPERTIES JobsSettle RevokedFallsSilent
