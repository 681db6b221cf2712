SPECIFICATION EvidenceSpec
CONSTANTS
  Domains = {d1}
  Signals = {"dns"}
  Values = {"OK", "TIMEOUT"}
  IspStatuses = {"UNKNOWN", "NOT_DETECTED", "SUSPECTED"}
  Codes = {"DNS_TIMEOUT", "HTTP_TIMEOUT"}
  OpenFailures = 3
  CloseSuccesses = 2
  MaxStreak = 4
  Window = 3
  Pages = {"home", "other"}
  Home = "home"
  Addresses = {"public", "private"}
  Blocked = {"private"}
  MaxRedirects = 2
  HttpAttempts = 2
  BaseDelay = 1
  MaxDelay = 2
  ChainTimeout = 1
  CheckTimeout = 2
  ExpiringSoon = 30
  AddressTypes = {"A"}
  Records <- MCRecords
  DnsAttempts = 2
  MaxConcurrency = 1
  ResolverResults <- MCResolverResults
  LocalKinds <- MCLocalKinds
  RemoteBodies = {"h1", "h2"}
  EvidenceFresh = 1
  Bucket = 1
  MaxLocal = 3
  MaxRemote = 2
  IspHorizon = 2
  UptimeIds = {1, 2, 3}
  HistoryLimit = 2
  CheckLag = 1
  UptimeHorizon = 3
  Probes = {"p1"}
  Runs = {"r1"}
  Schedulers = {"s1", "s2"}
  JobTTL = 2
  JobLease = 1
  StaleAfter = 0
  Batch = 1
  MaxAttempts = 2
INVARIANTS
  EvidenceTypeOK
  IncidentMatchesState
  ChainsAreSafe
  
  LastWordCounts
  ColumnsAgree
  HighConfidenceIsEarned
  UptimeIsExact
PROPERTIES
  BlockIsBacked
  RacingPassesKeepSettled
CHECK_DEADLOCK FALSE
