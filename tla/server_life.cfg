SPECIFICATION FairSpec
CONSTANTS
    l1 = l1
    l2 = l2
    t1 = t1
    t2 = t2
    Loops = {l1, l2}
    Workers = {t1, t2}
    MaxItems = 2
    MaxReqQ = 1
    Times = {0, 2}
    Unset = {"short", "long"}
INVARIANTS
    RequestsAccounted
    MeanInRange
    DeletedOutOfUse
PROPERTIES
    StopEnds
CHECK_DEADLOCK FALSE
