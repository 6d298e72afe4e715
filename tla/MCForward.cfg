SPECIFICATION ForwardSpec
CONSTANTS
    n1 = n1
    n2 = n2
    t1 = t1
    t2 = t2
    t3 = t3
    None = None
    Torn = Torn
    Nodes = {n1, n2}
    Threads = {t1, t2, t3}
    NodeOf <- MCNodeOf
    Pid <- MCPid
    PidSize = 2
    SeqSize = 1
    Clock = {0, 1}
    Users = {u1}
    Messages = {1, 2}
    MaxMsgs = 2
    SyncLimit = 1
    MySQLFails = TRUE
    RedisFaults = {"link", "race"}
SYMMETRY MCSymmetry
INVARIANTS
    ForwardTypeOK
    SentIsStored
    CollisionNeedsWrap
    DeliveredIsOwn
    HandlerIsSet
    SubscribeOnItsWay
\* After the last chat and login nothing is left to do, and a thread whose
\* reply was lost in a race waits for ever.
CHECK_DEADLOCK FALSE
