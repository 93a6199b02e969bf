SPECIFICATION Spec
CONSTANTS
  i1 = i1
  i2 = i2
  s1 = s1
  s2 = s2
  Turn = {t1, t2}
  Call = {c1, c2}
  Incident = {i1}
  Service = {s1}
  ServiceOf <- OneService
  Runbook = {r1}
  Remedy = {v1, v2}
  Requests <- ApprovalRequests
  Time = {0, 2}
  OpenedAt = 1
  MaxRetries = 0
  Null = Null
SYMMETRY OutcomeSymmetry
CONSTRAINT OneReportUnlessPlain
INVARIANTS
  ResolvedMeansVerified
  OneOutcomePerAction
  AnswersStayTrue
  AnnouncedOnce
  ApprovedByNamedHuman
PROPERTIES
  ResolvedIsFinal
CHECK_DEADLOCK FALSE
