SPECIFICATION SpecConfig
CONSTANTS
    IntMax = 1100000
    IntReadsAsDouble = TRUE
    LinkPaths = {"", "/bin/streamlink"}
    MaxRuns = 3
    Requests <- McRequests
INVARIANTS
    AcceptedConfigurationRuns
    ConfigIsAgreed
    RequestReachesRun
