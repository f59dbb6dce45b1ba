SPECIFICATION FairSpec
CONSTANTS
  Incident = {i1, i2}
  Replica = {w1, w2}
  Policy <- Repeating
  NoPolicy = NoPolicy
  NoIncident = NoIncident
  Limit = 2
  Faults = {}
  MaxTime = 3
  MaxUpserts = 0
PROPERTY OverdueIsEscalated
