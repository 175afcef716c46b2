SPECIFICATION FairSpec
CONSTANTS
  Pre = 1
  Post = 1
  Grace = 1
  RingMs = 4
  Latency = 1
  Margin = 1
  Faults <- AllFaults
  KeyFrames = {TRUE, FALSE}
  MaxTime = 4
  MaxPackets = 2
  MaxClockSteps = 1
CHECK_DEADLOCK FALSE
INVARIANTS
  ClipIsRight
PROPERTIES
  ClipIsFinished
