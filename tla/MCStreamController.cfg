SPECIFICATION Spec
CONSTANTS
    StreamTypes <- AllStreamTypes
    MaxRestartAttempts = 2
    restart_after_frozen_sec = 2
    RunTimes <- SomeRunTimes
    MaxFaults = 1
    MaxCommands = 1
INVARIANTS
    Bookkeeping
    RunsAreLimited
PROPERTIES
    PeerCloseTerminates
    CommandsTakeEffect
