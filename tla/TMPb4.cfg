SPECIFICATION SpecBroadcasts
CONSTANTS
    Streams = {"s1"}
    Clients = {c1}
    RssValues = {6}
    ExitCodes = {1}
    Urls = {"u1"}
    MaxRuns = 2
    MaxReports = 3
    MaxClock = 1
    MaxBytes = 1
    MaxInbox = 4
    Int32Max = 5
    UintMod = 64
    Second = 2
    Interfaces = {"eth0"}
    Licenses = {9}
    UserCounts <- Users
    MaxCount = 2
    MaxTime = 3
    MaxNodeReports = 3
    MaxNodeFaults = 1
INVARIANTS
    StatisticsArrive
    ExitsAreTold
    FiguresAreTrue
CHECK_DEADLOCK FALSE
