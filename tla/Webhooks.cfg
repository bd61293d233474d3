SPECIFICATION FairSpec
CONSTANTS
    Workers = {w1, w2}
    Inline = inline
    Senders = {w1, w2, inline}
    NoWorker = NoWorker
    DispatchModes = {"queue", "inline"}
    QueueAttempts = 2
    MaxStalls = 1
    MaxAddresses = 1
    MaxRedirects = 1
    MaxIncidents = 1
    MaxFaults = 1
CHECK_DEADLOCK FALSE
INVARIANTS TypeOK CompletedIsDelivered FailedAttemptsAreLogged DeliveredOnce CleanExitLeavesNoJob ReadinessFlipsFirst
PROPERTIES DrainEnds QueuedEventSettles
