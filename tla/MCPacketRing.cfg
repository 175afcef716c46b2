SPECIFICATION FairSpec
CONSTANTS
  Capacity = 2
  MaxBytes = 3
  RingMs = 1
  MaxParam = 1
  MaxPushes = 3
  MaxTime = 2
  Packets <- SomePackets
CHECK_DEADLOCK FALSE
INVARIANTS
  RingIsExact
  KeepsLongestSuffix
PROPERTIES
  SnapshotIsComplete
  ExpiredLeaves
