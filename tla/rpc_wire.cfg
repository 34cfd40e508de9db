SPECIFICATION FairSpec
CONSTANTS
    MaxReqs = 2
    Blob <- OneBlob
    UserLen <- OneByte
    TwoWay = {1, 2}
    Timed = {1}
    MaxConns = 2
    HdrLen = 2
    MaxReqSize = 3
    Garbled = {0, 1, 4}
    Early = {1}
    Statuses = {1, 2}
    Interrupts = TRUE
INVARIANTS
    TypeOK
    RequestsIntact
    ResponsesIntact
    FreedOnlyIfStale
PROPERTIES
    ResponsesHeard
    LoopNotStuck
CHECK_DEADLOCK FALSE
