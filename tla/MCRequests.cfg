SPECIFICATION Spec
CONSTANTS
    Clients = {c1, c2}
    LocalClients = {c2}
    Streams = {"s1"}
    Directories_ = {"d1", "d2"}
    Usable = {"d1"}
    AskedMethods <- Methods
    MaxRequests = 2
    MaxPings = 1
    Int32Max = 5
INVARIANTS
    AnswersAreMatched
    ServedAreReported
PROPERTY RequestsAreAnswered
CHECK_DEADLOCK FALSE
