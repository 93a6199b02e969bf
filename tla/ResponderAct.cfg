SPECIFICATION Spec
CONSTANTS
  i1 = i1
  i2 = i2
  s1 = s1
  s2 = s2
  Turn = {t1, t2}
  Call = {c1}
  Incident = {i1, i2}
  Service = {s1, s2}
  ServiceOf <- OneService
  Runbook = {r1, r2}
  Remedy = {v1}
  Requests <- MisaddressedRequests
  Time = {0, 2}
  OpenedAt = 1
  MaxRetries = 1
  Null = Null
SYMMETRY ActSymmetry
CONSTRAINT RetryOrChoice
INVARIANTS
  ResultsAreBacked
  TablesAgree
  Grounded
  IncidentShowsLastAction
PROPERTIES
  ImplementsLedger
CHECK_DEADLOCK FALSE
