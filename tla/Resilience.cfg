SPECIFICATION FairSpec
CONSTANTS
  Topology <- Nodes
  RegionOf <- Regions
  KillRegion = "us-east-2"
  Placements <- SurvivingOrNot
  MaxBlips = 1
  PinTimeout = 1
  TargetRto = 1
  RtoDeadline = 2
  DownTimeout = 1
  FullTimeout = 1
  ExtraWrites = 1
  Null = Null
INVARIANTS
  PassProvesSurvival
  RpoIsExact
  ReportIsSound
  PassMeansTransfer
PROPERTIES
  RunEnds
CHECK_DEADLOCK FALSE
