SPECIFICATION FairSpec
CONSTANTS
    c1 = c1
    c2 = c2
    k1 = k1
    k2 = k2
    w1 = w1
    NoOwner = NoOwner
    Calls <- TwoCalls
    Kind <- SyncAsync
    Timeout <- SameTimeout
    Conns = {k1}
    Endpoints = {k1}
    Reloads = {}
    Workers = {w1}
    MaxTime = 1
    MaxAnswers = 1
    TaskQMax = 1
    Spurious = FALSE
    WaitAllUsed = FALSE
INVARIANTS
    TypeOK
    CallbackAtMostOnce
    NoCallForgotten
    TimedCallArmed
    ShutdownDeliversAll
    SyncStatusDelivered
PROPERTIES
    NoEarlyTimeout
    QuietAfterShutdown
    CallsReturn
    CallbackEventually
