SPECIFICATION FairSpec
CONSTANTS
  i1 = i1
  i2 = i2
  Incident = {i1, i2}
  Name = {n1}
  Steps = {rollback}
  Reinforcements = 1
  MaxUsage = 0
  Histories <- ShortHistories
  MaxRows = 2
  MaxBatch = 2
  MaxReceive = 2
  MaxDuplicates = 0
  MaxFaults = 2
PROPERTIES
  OutcomeIsConsolidated
