SPECIFICATION EvidenceSpec
CONSTANTS
  QueueCapacity = 1
  UploadRetry = 1
  DeleteAfterUpload = TRUE
  Stamps = {1}
  Codecs = {"h264", "h265"}
  Leftovers = TRUE
  Faults <- AllFaults
  SdMounted = TRUE
  MaxEvents = 3
  Names = {1, 2}
  MaxFailures = 2
CHECK_DEADLOCK FALSE
INVARIANTS
  EventsStayWhole
  ArchiveIsSound
PROPERTIES
  OldFilesAreKept
