SPECIFICATION FairSpec
CONSTANTS
  Incident = {i1}
  Fingerprint = {f1}
  Notification = {n1}
  NoIncident = NoIncident
  NoNotification = NoNotification
  Faults = {"graph"}
  Request = {r1}
  User = {u1}
  UserOp = {"acknowledge", "resolve", "reopen"}
  MaxQueue = 2
  MaxResends = 1
  Replica = {w1, w2}
  Rule = {email, voice}
  DelayedRule = {voice}
INVARIANT PermanentOnlyAfterResolve
PROPERTIES EveryIncidentIsPosted DelayedIsSettled
