SPECIFICATION Spec
CONSTANTS
  Incident = {i1, i2}
  Fingerprint = {f1}
  Notification = {}
  NoIncident = NoIncident
  NoNotification = NoNotification
  Faults = {}
  Request = {r1, r2}
  User = {}
  UserOp = {}
  MaxQueue = 2
  MaxResends = 1
  Replica = {w1}
  Rule = {}
  DelayedRule = {}
INVARIANT EveryResolveIsQueued
