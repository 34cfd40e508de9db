SPECIFICATION Spec
CONSTANTS
    c1 = c1
    c2 = c2
    w1 = w1
    w2 = w2
    t1 = t1
    t2 = t2
    u1 = u1
    noreq = noreq
    noconn = noconn
    ConnWorkers = {w1, w2}
    Conns = {c1, c2}
    Threads = {t1, t2}
    Users = {u1}
    MaxReqs = 3
    ConnOf <- TwoConns
    TwoWay = {1, 2, 3}
    Big = {}
    Outcomes <- Proper
    MaxConn = 1
    MaxReqQ = 2
    MaxRespQ = 2
    MaxConnQ = 9
    NoReq = noreq
    NoConn = noconn
INVARIANTS
    TypeOK
    ResponseNotStuck
    SendingIsArmed
    EventsMatchIds
    ResponseOrder
    NoDeletedConn
    OneResponse
    ConnCountExact
CHECK_DEADLOCK FALSE
