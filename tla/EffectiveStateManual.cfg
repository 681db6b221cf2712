SPECIFICATION Spec
CONSTANTS
  Domains = {d1}
  Signals = {"dns"}
  Values = {"OK", "TIMEOUT"}
  IspStatuses = {"UNKNOWN", "NOT_DETECTED", "SUSPECTED"}
  Codes = {"DNS_TIMEOUT", "HTTP_TIMEOUT"}
  OpenFailures = 3
  CloseSuccesses = 2
  MaxStreak = 4
  Window = 3
PROPERTY ManualRunIsInert
