SPECIFICATION Spec
CONSTANTS
  Items = {i1, i2, i3}
  Workers = {w1, w2, w3}
  NoWorker = NoWorker
  NoItem = NoItem
  ChunkSize = 2
  MaxAttempts = 2
  QueueAttempts = 3
  MaxStalls = 1
  DispatchModes = {"queue", "inline"}
  LockLapse = TRUE
  LeaseLapse = FALSE
  MaxFaults = 2
SYMMETRY Symmetry
CHECK_DEADLOCK FALSE
INVARIANTS
  TypeOK
  ClaimsAreExclusive
  CountersMatchItems
  FaultFreeRunIsExact
  CancelBoundsClaims
PROPERTY ImplementsLedger
