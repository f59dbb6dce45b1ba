SPECIFICATION Spec
CONSTANTS
  Identity = {i1}
  Group = {g1, g2}
  Team = {t1}
  Role = {viewer, admin}
  Provider = {p1}
  Nil = Nil
  Request = {r1, r2}
  EnvProvider = TRUE
  MaxMappings = 2
  Faults = {"graph", "database", "discovery"}
SYMMETRY Symmetry
INVARIANTS TypeOK SyncAgrees
