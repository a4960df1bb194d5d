SPECIFICATION Spec
CONSTANTS
    h1 = h1
    v1 = v1
    c1 = c1
    Connections = {h1, v1, c1}
    ServerOf <- OneOfEach
    Home = Home
    dir = dir
    Roots = {Home, dir}
    Torn = Torn
    Linked <- Streams
    AtFirst <- AtFirstThere
    Written <- Streams
    Changed = {"none"}
    MaxRequests = 2
    MaxPrepares = 1
    MaxChanges = 1
INVARIANTS
    RequestsAreSettled
    ServedFromCurrentRoot
    PlaylistIsBacked
CHECK_DEADLOCK FALSE
