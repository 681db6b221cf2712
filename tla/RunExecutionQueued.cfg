SPECIFICATION FairSpec
CONSTANTS
  r1 = r1
  r2 = r2
  d1 = d1
  m1 = m1
  m2 = m2
  p1 = p1
  p2 = p2
  w1 = w1
  w2 = w2
  Runs = {r1, r2}
  Domains = {d1}
  DomainOf <- MCDomainOf
  Entries = {m1, m2}
  RunOf <- MCRunOf
  Processes = {p1, p2}
  Workers = {w1, w2}
  ProcessOf <- MCProcessOf
  RunTimeout = 2
  QueueLease = 3
  MaxAttempts = 2
  BacklogLimit = 1
  MaxFaults = 0
PROPERTY
  QueuedRunsSettle
