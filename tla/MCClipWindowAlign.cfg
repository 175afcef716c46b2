SPECIFICATION Spec
CONSTANTS
  Pre = 1
  Post = 1
  Grace = 1
  RingMs = 4
  Latency = 1
  Margin = 1
  Faults = {}
  KeyFrames = {TRUE}
  MaxTime = 4
  MaxPackets = 2
  MaxClockSteps = 0
CHECK_DEADLOCK FALSE
INVARIANTS
  FallsBackToEarlierKey
