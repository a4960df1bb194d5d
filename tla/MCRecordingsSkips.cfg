SPECIFICATION SpecRecordings
CONSTANTS
    ChunkDuration = 2
    MaxLength = 2
    Delay = 3
    LifeTime = 4
    Kinds = {"recorder", "catchup"}
    UnsetTimes = {0, 5}
    MaxIndex = 5
    MaxTime = 8
    MaxRuns = 3
    UintMod = 16
    Resolution = 4
    Deviation <- McDeviation
    TooLarge = 0
    EntryDuration = 5
    Times = {0}
    MaxEntryIndex = 1
    MaxCatchups = 2
    MaxEntries = 3
INVARIANT ExistingIsSkipped
CHECK_DEADLOCK FALSE
