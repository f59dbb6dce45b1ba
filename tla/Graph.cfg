SPECIFICATION Spec
CONSTANTS
  NodeId = {n1, n2, n3}
  Incident = {i1, i2}
  Service = {s1}
  Commit = {c1}
  NoKey = NoKey
  NoNode = NoNode
  Replica = {w1, w2}
  Admin = {a1}
  MaxBusy = 2
  SimilarLimit = 1
  Depth = 2
  Faults = {"graph", "crash"}
SYMMETRY Symmetry
INVARIANTS TypeOK EdgesJoinPermanent PendingIsAlone PermanentIsDescribed
