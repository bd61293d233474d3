SPECIFICATION Spec
CONSTANTS
  o1 = o1
  o2 = o2
  c1 = c1
  c2 = c2
  e1 = e1
  e2 = e2
  e3 = e3
  e4 = e4
  Events = {e1, e2, e3, e4}
  KindOf <- OneKind
  CreatedAt <- OneCreatedAt
  CustomerOf <- OneCustomer
  HasMetadata <- OneMetadata
  Orgs = {o1}
  Customers = {c1}
  OwnerOf <- OneOwner
  NoCustomer = NoCustomer
  NoEvent = NoEvent
  NoOrg = NoOrg
  NoWorker = NoWorker
  Workers = {w1, w2, w3}
  Checkouts = {k1}
  DispatchModes = {"queue", "inline"}
  PoolSize = 10
  LockLapse = TRUE
  MaxFaults = 1
  QueueAttempts = 3
  MaxStalls = 1
SYMMETRY Symmetry
CHECK_DEADLOCK FALSE
INVARIANTS
  TypeOK
  EffectsAtMostOnce
  LastCoversApplied
  FaultFreeEventTakesEffect
PROPERTIES
  ShownNeverRegresses
  ImplementsLedger
