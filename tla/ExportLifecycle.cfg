SPECIFICATION FairSpec
CONSTANTS
  Runs = {r1, r2, r3}
  NoWorker = NoWorker
  Stops <- MCStops
  Sizes = {"fits", "exceeds"}
  QueueAttempts = 2
  MaxStalls = 1
  DispatchModes = {"queue", "inline"}
  LockLapse = TRUE
  MaxFaults = 2
CHECK_DEADLOCK FALSE
INVARIANTS
  TypeOK
  DownloadServesItsFile
  NotifiedStaysReady
  CancelStopsChunks
  FileOutlivesOnlyFailures
PROPERTIES
  DispatchedExportSettles
  ExpiredExportIsRemoved
