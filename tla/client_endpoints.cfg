SPECIFICATION Spec
CONSTANTS
    c1 = c1
    c2 = c2
    k1 = k1
    k2 = k2
    w1 = w1
    NoOwner = NoOwner
    Calls <- TwoCalls
    Kind <- SharedOneway
    Timeout <- SharedTimeout
    Conns = {k1, k2}
    Endpoints = {k1}
    Reloads = {{}, {k1, k2}}
    Workers = {w1}
    MaxTime = 1
    MaxAnswers = 1
    TaskQMax = 1
    Spurious = FALSE
    WaitAllUsed = TRUE
INVARIANTS
    SharedFailures
