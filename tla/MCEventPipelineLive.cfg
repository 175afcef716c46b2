SPECIFICATION FairSpec
CONSTANTS
  QueueCapacity = 1
  UploadRetry = 2
  DeleteAfterUpload = TRUE
  Stamps = {1, 2, 3}
  Codecs = {"h264"}
  Leftovers = FALSE
  Faults = {"network"}
  SdMounted = TRUE
  MaxEvents = 3
CHECK_DEADLOCK FALSE
INVARIANTS
  EvidenceIsSomewhere
PROPERTIES
  PipelineIsLive
