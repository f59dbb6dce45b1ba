SPECIFICATION Spec
CONSTANTS
  Incident = {i1}
  Replica = {w1, w2}
  Policy <- AllPolicies
  NoPolicy = NoPolicy
  NoIncident = NoIncident
  Limit = 2
  Faults = {"db", "coverage", "crash"}
  MaxTime = 7
  MaxUpserts = 1
SYMMETRY Symmetry
INVARIANTS TypeOK PagedAtMostOnce StepsAreDue EscalationEnds
