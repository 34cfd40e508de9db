SPECIFICATION UntimedSpec
CONSTANTS
    p1 = p1
    p2 = p2
    t1 = t1
    t2 = t2
    Producers = {p1, p2}
    Consumers = {t1, t2}
    MaxItems = 4
    MaxSizes = {1, 2}
    PushMs = {0}
    PopMs = {0, 1}
    DropOld = {TRUE, FALSE}
    Spurious = FALSE
    LateTimeout = TRUE
INVARIANTS
    TypeOK
    FifoOrder
    Capacity
    NoLostWakeup
PROPERTIES
    ImplementsFifo
    EveryItemRemoved
