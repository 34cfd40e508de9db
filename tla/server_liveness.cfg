SPECIFICATION FairSpec
CONSTANTS
    c1 = c1
    c2 = c2
    w1 = w1
    w2 = w2
    t1 = t1
    t2 = t2
    u1 = u1
    noreq = noreq
    noconn = noconn
    ConnWorkers = {w1}
    Conns = {c1}
    Threads = {t1}
    Users = {u1}
    MaxReqs = 3
    ConnOf <- OneConn
    TwoWay = {1, 2}
    Big = {3}
    Outcomes <- AnyOutcome
    MaxConn = 2
    MaxReqQ = 1
    MaxRespQ = 1
    MaxConnQ = 1
    NoReq = noreq
    NoConn = noconn
PROPERTIES
    ResponseSent
CHECK_DEADLOCK FALSE
