SPECIFICATION Spec
CONSTANTS
    MaxReqs = 2
    Blob <- OneBlob
    UserLen <- OneByte
    TwoWay = {}
    Timed = {}
    MaxConns = 1
    HdrLen = 2
    MaxReqSize = 3
    Garbled = {0, 1, 4}
    Early = {}
    Statuses = {1}
    Interrupts = FALSE
INVARIANT RequestDataIntact
CHECK_DEADLOCK FALSE
