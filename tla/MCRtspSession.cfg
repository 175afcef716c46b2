SPECIFICATION SessionFairSpec
CONSTANTS
  StreamFaults <- LossAndMemory
  MaxFragments = 3
  MaxUnits = 3
CHECK_DEADLOCK FALSE
INVARIANTS
  UnitsArrive
PROPERTIES
  SessionIsLive
