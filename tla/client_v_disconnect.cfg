SPECIFICATION Spec
CONSTANTS
    c1 = c1
    c2 = c2
    k1 = k1
    k2 = k2
    w1 = w1
    NoOwner = NoOwner
    Calls <- OneCall
    Kind <- OneAsync
    Timeout <- OneSecond
    Conns = {k1}
    Endpoints = {k1}
    Reloads = {}
    Workers = {w1}
    MaxTime = 2
    MaxAnswers = 1
    TaskQMax = 1
    Spurious = FALSE
    WaitAllUsed = FALSE
INVARIANTS
    DisconnectReported
