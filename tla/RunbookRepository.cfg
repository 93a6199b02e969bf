SPECIFICATION Spec
CONSTANTS
  Incident = {i1, i2, i3}
  Name = {n1, n2}
  Steps = {rollback, restart}
  Reinforcements = 1
  MaxUsage = 3
SYMMETRY RepositorySymmetry
INVARIANTS
  CountsMatchProvenance
  IncidentCountsOnce
  OnlyLatestLives
  StatusIsEarned
  UsageCoversEvidence
CHECK_DEADLOCK FALSE
