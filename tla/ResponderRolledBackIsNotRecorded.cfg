SPECIFICATION Spec
CONSTANTS
  i1 = i1
  i2 = i2
  s1 = s1
  s2 = s2
  Turn = {t1, t2}
  Call = {c1}
  Incident = {i1, i2}
  Service = {s1}
  ServiceOf <- OneService
  Runbook = {r1}
  Remedy = {v1}
  Requests <- PlainRequests
  Time = {0, 2}
  OpenedAt = 1
  MaxRetries = 1
  Null = Null
SYMMETRY TurnSymmetry
INVARIANT
  RolledBackIsNotRecorded
CHECK_DEADLOCK FALSE
