SPECIFICATION UnitsSpec
CONSTANTS
  clip = clip
  upload = upload
  hikflow = hikflow
  timer = timer
  extra = extra
  Capacity = 2
  Producers = {hikflow, timer, clip}
  Blocking = {clip, timer}
  Consumers = {upload, extra}
  MaxPushes = 2
  ConfirmWindowM = 5
  ConfirmRequireN = 3
  MaxSamples = 6
  Classes = {0, 1, 2}
  Bins = 2
  old1 = old1
  old2 = old2
  other1 = other1
  new1 = new1
  new2 = new2
  Old <- OldFiles
  Other <- OtherEntries
  New <- NewEvents
  Faults <- AllFaults
  MaxFaults = 3
  MaxEvents = 1
  MaxAlarms = 1
CHECK_DEADLOCK FALSE
INVARIANTS
  NoLostWakeup
  CleansOnce
  NothingUsedAfterItsEnd
PROPERTIES
  ImplementsChannel
  QueueIsLive
  ImplementsSlidingConfirm
  RunsUnlessMarkerIsTorn
  StopEndsMain
