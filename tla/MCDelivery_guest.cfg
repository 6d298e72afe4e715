SPECIFICATION DeliverySpec
CONSTANTS
    n1 = n1
    n2 = n2
    c1 = c1
    c2 = c2
    c3 = c3
    u1 = u1
    u2 = u2
    l1 = l1
    None = None
    Nodes = {n1, n2}
    Conns = {c1, c2}
    NodeOf <- MCNodeOf
    Accounts <- GuestAccounts
    Users = {u1, u2}
    Overlap = FALSE
    Faults = {"redis"}
    MaxMsgs = 1
    SyncLimit = 1
    Groups = {}
    Legacy = {}
    LegacyOwner <- MCLegacyOwner
    PromptSubscribe = TRUE
INVARIANT AckedWasShown
PROPERTY StatusNeverRegresses
\* Every connection may be closed for good.
CHECK_DEADLOCK FALSE
