SPECIFICATION SessionSpec
CONSTANTS
    n1 = n1
    n2 = n2
    c1 = c1
    c2 = c2
    c3 = c3
    None = None
    Nodes = {n1, n2}
    Conns = {c1, c2, c3}
    NodeOf <- MCNodeOf
    Accounts <- MCAccounts
    Users = {u1}
    Overlap = TRUE
    Faults = {}
INVARIANT AccountInUse
\* Every connection may be closed for good.
CHECK_DEADLOCK FALSE
