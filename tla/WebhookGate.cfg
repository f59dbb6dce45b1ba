SPECIFICATION Spec
CONSTANTS
  a = a
  b = b
  proxy = proxy
  Address = {a, b, proxy}
  Trusted = {proxy}
  Route <- SmallRoutes
  Written <- SmallWritten
  Garbage = garbage
  Burst = 2
  IdleAfter = 1
  Period = 1
  Word = {"cpu", "db", "datadog", "grafana", "generic", "alert", "datadog alert"}
  Stray <- SmallStray
  Alert <- SmallAlerts
INVARIANTS
  TypeOK
  RateIsKept
  IdleIsPruned
  ResolutionMatches
