SPECIFICATION FairClientSpec
CONSTANTS
    u1 = u1
    u2 = u2
    None = None
    Users <- MCUsers
    Threads <- MCThreads
    MaxInputs = 3
    MaxChats = 1
INVARIANTS
    ClientTypeOK
    OneAnswerDue
    ViewsAgree
    ChatIsKeptAlive
PROPERTIES
    WholeFrames
    WaitEnds
CHECK_DEADLOCK FALSE
