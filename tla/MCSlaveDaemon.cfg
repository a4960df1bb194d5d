SPECIFICATION Spec
CONSTANTS
    s1 = s1
    s2 = s2
    c1 = c1
    NoStream = NoStream
    Streams = {s1, s2}
    Clients = {c1}
    LocalClients = {c1}
    MaxForks = 2
    MaxCommands = 1
    MaxBadData = 1
INVARIANTS
    OneProcessPerStream
    ProcessesAreKnown
PROPERTIES
    ProcessesEnd
    ImplementsRegistry
