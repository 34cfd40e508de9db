SPECIFICATION Spec
CONSTANTS
    p1 = p1
    p2 = p2
    t1 = t1
    t2 = t2
    Producers = {p1, p2}
    Consumers = {t1, t2}
    MaxItems = 3
    MaxSizes = {1}
    PushMs = {1}
    PopMs = {1}
    DropOld = {FALSE}
    Spurious = FALSE
    LateTimeout = FALSE
INVARIANTS
    Capacity
