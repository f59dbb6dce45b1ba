SPECIFICATION Spec
CONSTANTS
  User = {u1, u2}
  Session = {s1}
  Token = {t1}
  Request = {r1, r2}
  Server = {v1, v2}
  Nobody = Nobody
  MaxFailed = {0, 2}
  LockoutDuration = 1
  SessionTTL = 2
  Injected = FALSE
  NewSuper = {FALSE}
  MaxWrong = 2
SYMMETRY Symmetry
INVARIANTS TypeOK ForcedFirstChange LockNeedsFailures SessionEnds PrintedPasswordWorks
