SPECIFICATION RecallSpec
CONSTANTS
  w1 = w1
  w2 = w2
  a1 = a1
  a2 = a2
  s1 = s1
  s2 = s2
  i1 = i1
  i2 = i2
  i3 = i3
  k1 = k1
  k2 = k2
  Writer = {w1, w2}
  Agent = {a1, a2}
  Key = {k1, k2}
  Time = {0, 1, 2}
  MaxClock = 1
  MaxRetries = 1
  ReadRetries = 1
  Null = Null
  Queries <- SmallQueries
  Tables <- SmallTables
  About <- Subjects
  Policy <- SmallPolicy
SYMMETRY WriterSymmetry
INVARIANTS
  WindowsDisjoint
  BeliefChain
  RankMatchesReference
  LostOnlyByCrowding
PROPERTIES
  ImplementsTimeline
  ReadYourOwnFact
CHECK_DEADLOCK FALSE
