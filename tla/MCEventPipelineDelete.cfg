SPECIFICATION Spec
CONSTANTS
  QueueCapacity = 1
  UploadRetry = 2
  DeleteAfterUpload = TRUE
  Stamps = {1}
  Codecs = {"h264", "h265"}
  Leftovers = TRUE
  Faults = {"network"}
  SdMounted = FALSE
  MaxEvents = 2
CHECK_DEADLOCK FALSE
INVARIANTS
  DeletedOnlyAfterConfirmation
