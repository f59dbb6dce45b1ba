SPECIFICATION Spec
CONSTANTS
  Incident = {i1, i2}
  Fingerprint = {f1}
  Notification = {}
  NoIncident = NoIncident
  NoNotification = NoNotification
  Faults = {"db", "redis"}
  Request = {r1, r2}
  User = {u1}
  UserOp = {"reopen", "snooze"}
  MaxQueue = 1
  MaxResends = 1
  Replica = {w1}
  Rule = {}
  DelayedRule = {}
SYMMETRY Symmetry
INVARIANTS OneActivePerFingerprint SlackOncePerIncident
