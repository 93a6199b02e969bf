SPECIFICATION Spec
CONSTANTS
  Scenario <- Ids
  Fault <- Faults
  FamilyOracle <- Oracles
  ScenarioOracle <- Overrides
  Catalog <- Services
  Fleet <- Names
  Wiring <- Dependencies
  Settings <- Configs
  aList = aList
  Unhashable = {aList}
  Null = Null
  Setups <- SmallSetups
  Similarity <- Similarities
  Pool <- SmallPool
  MaxPlan = 2
  Latencies = {0, 3}
  Corpus <- MemoryCorpus
  RetrievalK = 2
  Threshold = 15
INVARIANTS
  WorldIsSound
  MttrAccounts
  ReportAgrees
  MechanismResolves
  NoStaleFix
CHECK_DEADLOCK FALSE
