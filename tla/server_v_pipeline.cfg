SPECIFICATION FairSpec
CONSTANTS
    c1 = c1
    c2 = c2
    w1 = w1
    w2 = w2
    t1 = t1
    t2 = t2
    u1 = u1
    noreq = noreq
    noconn = noconn
    ConnWorkers = {w1}
    Conns = {c1}
    Threads = {t1}
    Users = {}
    MaxReqs = 2
    ConnOf <- OneConn
    TwoWay = {2}
    Big = {}
    Outcomes = {"reply"}
    MaxConn = 2
    MaxReqQ = 2
    MaxRespQ = 2
    MaxConnQ = 9
    NoReq = noreq
    NoConn = noconn
PROPERTIES
    RequestRead
CHECK_DEADLOCK FALSE
