SPECIFICATION FairSpec
CONSTANTS
    t1 = t1
    h1 = h1
    h2 = h2
    p1 = p1
    p2 = p2
    NoAlert = NoAlert
    Types <- OneType
    Handlers <- MCHandlers
    AsyncHandlers <- MCAsync
    Pollers <- MCPollers
    NativeQueueSize = 3
    MaxPendingAlerts = 2
    WorkPerTurn = 2
    MaxPendingHandlers = 2
    MaxAlerts = 3
    MaxStarts = 2
    MaxPauses = 1
    MaxRegs = 2
INVARIANTS NoLostWakeup Bounded QuietWhenStopped OwedIsScheduled
PROPERTIES AlertOrder AlertsAreHandled
CHECK_DEADLOCK FALSE
