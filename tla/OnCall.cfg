SPECIFICATION Spec
CONSTANTS
  u1 = u1
  u2 = u2
  User = {u1, u2}
  NoUser = NoUser
  Failed = Failed
  NoStart = NoStart
  Config <- AllConfigs
  Setting <- Settings
  Span <- Spans
  Request = {r1, r2}
  Policy <- Policies
  DayLength = 2
  MaxOverrides = 2
SYMMETRY Symmetry
INVARIANTS TypeOK OverrideHolds TimelineAgrees ChainAgrees WindowsAreArcs TurnsAreFair LayersInOrder
