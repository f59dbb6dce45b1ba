SPECIFICATION Spec
CONSTANTS
  Pod = {p1}
  Container = {c1, c2}
  Node = {n1}
  Condition = {"NotReady"}
  Workload = {x1}
  Waiting = {"CrashLoopBackOff"}
  Found <- SmallFound
  Setups = {{"k8shealth"}, {"kubescape"}}
  MinSeverity = "high"
  Capacity = 1
  MaxChanges = 3
  MaxStream = 2
INVARIANTS TypeOK NoRefire
PROPERTY FailureReported
