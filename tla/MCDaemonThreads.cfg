SPECIFICATION Spec
CONSTANTS
    d1 = d1
    d2 = d2
    Daemons = {d1, d2}
    Nobody = Nobody
    Foreign = Foreign
    Ports = {1, 2, 3}
    Servers = {"http", "vods"}
    Default <- Three
    ConfigFiles <- AllFiles
INVARIANT
    InstancesAreSeparate
PROPERTIES
    StopEnds
    FailedStartEnds
CHECK_DEADLOCK FALSE
