SPECIFICATION Spec
CONSTANTS
  Incident = {i1}
  Fingerprint = {f1}
  Notification = {n1, n2}
  NoIncident = NoIncident
  NoNotification = NoNotification
  Faults = {"db", "member", "crash"}
  Request = {r1}
  User = {u1}
  UserOp = {"acknowledge", "reopen"}
  MaxQueue = 1
  MaxResends = 1
  Replica = {w1, w2}
  Rule = {sms, voice}
  DelayedRule = {sms, voice}
SYMMETRY Symmetry
INVARIANTS TypeOK DelayedAtMostOnce CancelledStaysSilent
PROPERTY ImplementsContract
