SPECIFICATION WidgetsSpec
CONSTANTS
  POLL_MS = 1
  STALE_MS = 3
  MaxSettle = 2
  MaxSeq = 3
  MaxRuns = 2
  Lossy = TRUE
  MaxSegments = 4
  NumBoxes = 2
  Messages = {saved, failed_to_save}
  NoMessage = NoMessage
  MaxTips = 5
  MaxPieces = 4
  Batch = 2
  InputRoom = 2
  DecoderRoom = 3
  MaxFrames = 2
  DropFrames = 2
  Frames <- Sizes
  Windows = {1, 2}
  NoWindow = 0
  Volumes = {0}
  DefaultVolume = 8
  NotSet = NotSet
  MaxSounds = 2
  Blocks = {a, b, c}
  MaxHolds = 2
CHECK_DEADLOCK FALSE
INVARIANTS
  OneBoxEach
  NeverFrozen
  PictureIsRight
  PollsInTime
  RecordsInTurn
PROPERTIES
  PromptsLeave
  HeardAsSet
  NeverGoesBack
  GoneTargetsLeave
  KeepsRecording
  BlocksRunInTime
