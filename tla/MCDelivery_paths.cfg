SPECIFICATION DeliverySpec
CONSTANTS
    n1 = n1
    n2 = n2
    c1 = c1
    c2 = c2
    c3 = c3
    u1 = u1
    u2 = u2
    l1 = l1
    None = None
    Nodes = {n1, n2}
    Conns = {c1, c2, c3}
    NodeOf <- MCNodeOf
    Accounts <- HomeAccounts
    Users = {u1, u2}
    Overlap = FALSE
    Faults = {}
    MaxMsgs = 1
    SyncLimit = 1
    Groups = {}
    Legacy = {}
    LegacyOwner <- MCLegacyOwner
    PromptSubscribe = TRUE
INVARIANT DeliveryTypeOK
INVARIANT NoStrandedMessage
PROPERTY DeliveredBeforeAcked
PROPERTY LifecycleSpec
\* Every connection may be closed for good.
CHECK_DEADLOCK FALSE
