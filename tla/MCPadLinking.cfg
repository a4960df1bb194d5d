SPECIFICATION SpecPipelines
CONSTANTS
    Configs <- McConfigs
    Sources <- McSources
    Lists <- McLists
    Sinks = {1, 2}
    MaxQueued = 2
    MaxPushed = 5
INVARIANTS
    AbortsAreForeseen
    GraphIsSound
    DataFindsItsWay
    PlaysTheList
    EndIsComplete
PROPERTY
    PlaylistEnds
CHECK_DEADLOCK FALSE
