SPECIFICATION Spec
CONSTANTS
    c1 = c1
    c2 = c2
    n1 = n1
    n2 = n2
    None = None
    IntMax = 3
    LongMax = 15
    Conns <- MCConns
    Names <- MCNames
    FirstNames <- MCFirstNames
    Values <- MCValues
    MaxUsers = 4
    MaxGroups = 2
    MaxRequests = 3
    Faults = {"fails", "unanswered", "crash"}
SYMMETRY MCSymmetry
INVARIANTS
    DirectoryTypeOK
    RegTellsOwn
    GroupHasItsCreator
    MembersAreAccounts
    RowsWereAskedFor
    OwnGroupsShowMe
    AudienceAreMembers
