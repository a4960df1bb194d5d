SPECIFICATION Spec
CONSTANTS
    vod = vod
    cod1 = cod1
    other = other
    bad = bad
    r1 = r1
    r2 = r2
    NoStream = NoStream
    Vods = {vod, bad}
    Cods = {cod1}
    Others = {other}
    Invalid = {bad}
    Roots = {r1, r2}
    HttpRoots <- SomeRoots
    SyncLists <- SomeLists
    cods_ttl = 0
    MaxSyncs = 2
    MaxPending = 1
    MaxFaults = 1
INVARIANTS
    LinksFollowSync
    UnlinkedOnlyBySync
PROPERTIES
    IdleCodStops
    RequestedCodRuns
