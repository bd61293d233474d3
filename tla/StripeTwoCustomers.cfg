SPECIFICATION Spec
CONSTANTS
  o1 = o1
  o2 = o2
  c1 = c1
  c2 = c2
  e1 = e1
  e2 = e2
  e3 = e3
  e4 = e4
  Events = {e1, e2}
  KindOf <- TwoKind
  CreatedAt <- TwoCreatedAt
  CustomerOf <- TwoCustomer
  HasMetadata <- TwoMetadata
  Orgs = {o1}
  Customers = {c1, c2}
  OwnerOf <- TwoOwner
  NoCustomer = NoCustomer
  NoEvent = NoEvent
  NoOrg = NoOrg
  NoWorker = NoWorker
  Workers = {w1, w2}
  Checkouts = {k1, k2}
  DispatchModes = {"queue", "inline"}
  PoolSize = 10
  LockLapse = FALSE
  MaxFaults = 0
  QueueAttempts = 3
  MaxStalls = 1
CHECK_DEADLOCK FALSE
PROPERTY ShownNeverRegresses
