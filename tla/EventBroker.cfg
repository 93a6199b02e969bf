SPECIFICATION FairSpec
CONSTANTS
  Publisher = {p1, p2}
  Stream = {s1, s2}
  HistoryLimit = 2
  QueueLimit = 1
  MaxEvents = 3
INVARIANTS
  FeedInOrder
  NothingMissed
PROPERTIES
  DeliveryIsLive
CHECK_DEADLOCK FALSE
