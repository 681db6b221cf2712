SPECIFICATION ServicesSpec
CONSTANTS
  Monitored = {"c1", "n1"}
  Replicas = {"s1", "s2"}
  Users = {"u1"}
  Keys = {"k1"}
  Interval = 5
  Jitter <- MCJitter
  Second = 2
  MaxSkew = 1
  ScheduleBatch = 1
  Horizon = 7
  MaxRollbacks = 1
  MaxToggles = 2
  Writers = {"w1", "w2"}
  AuditIds = {1, 2, 3}
  Root = 0
  AuditHorizon = 2
  AuditSkew = 1
  Accounts = {"ann", "bob"}
  RolesOf <- MCRolesOf
  Tabs = {"t1", "t2"}
  SessionIds = {1, 2}
  NoSession = 0
  SessionTTL = 1
  SessionSkew = 0
  SessionHorizon = 1
  Agents = {"a1"}
  RegistrationTokens = {"r1", "r2"}
  NameOf <- MCNameOf
  NodeIds = {"n1", "n2"}
  Secrets = {"s1", "s2"}
  Nothing = "nothing"
  RegistrationTTL = 2
  TokenTTL = 2
  ChallengeTTL = 2
  RefreshMargin = 1
  MaxMishaps = 1
  IdentityHorizon = 2
  OAuthStates = {"o1", "o2"}
  Callers = {"c1", "c2"}
  DriveTTL = 1
  ExpiryMargin = 0
  DriveHorizon = 3
  Checks = {"k1", "k2"}
  MinInterval = 2
  BootstrapTTL = 1
  BootstrapMaxStale = 2
  DomainTTL = 1
  MaxRows = 2
  RdapHorizon = 4
  Events = {"e1", "e2"}
  Dispatchers = {"d1", "d2"}
  BatchSize = 2
  MaxAttempts = 2
  Lease = 1
  BackoffCap = 1
  MaxStream = 4
  MaxFaults = 1
  MaxLosses = 0
INVARIANTS
  ServicesTypeOK
  NeverLate
  SlotsAreSpaced
  ChainIsLinear
  ClosedSessionsAreDead
  TrailMatchesSessions
  IdentitiesAreKept
  RevokedHasNoTokens
  NewcomersKeepDistance
  BootstrapIsRecent
  DuplicatesHaveACause
CHECK_DEADLOCK FALSE
