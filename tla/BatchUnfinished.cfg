SPECIFICATION Spec
CONSTANTS
  Items = {i1}
  Workers = {w1, w2}
  NoWorker = NoWorker
  NoItem = NoItem
  ChunkSize = 1
  MaxAttempts = 2
  QueueAttempts = 3
  MaxStalls = 1
  DispatchModes = {"queue", "inline"}
  LockLapse = FALSE
  LeaseLapse = FALSE
  MaxFaults = 1
CHECK_DEADLOCK FALSE
INVARIANT CompletedJobIsDone
