SPECIFICATION FairSpec
CONSTANTS
  i1 = i1
  i2 = i2
  s1 = s1
  s2 = s2
  Turn = {t1, t2}
  Call = {c1}
  Incident = {i1}
  Service = {s1}
  ServiceOf <- OneService
  Runbook = {r1}
  Remedy = {v1}
  Requests <- PlainRequests
  Time = {2}
  OpenedAt = 1
  MaxRetries = 1
  Null = Null
PROPERTIES
  EveryRequestEnds
CHECK_DEADLOCK FALSE
