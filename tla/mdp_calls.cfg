SPECIFICATION Spec
CONSTANTS
    s1 = s1
    s2 = s2
    Servers = {s1, s2}
    SidAny = SidAny
    SidBroadcast = SidBroadcast
    NoContent = NoContent
    MaxResults = 2
    FileServers = {s2}
    AllMode = {s1}
    Destinations = {SidAny, SidBroadcast, s1}
    ResetsReceived = TRUE
    WaitTime = 1
    AckExtension = 1
    MaxCalls = 2
    MaxWait = 2
    MaxSends = 1
INVARIANTS
    AnswersAreOwned
    AnswersAreReal
PROPERTIES
    ImplementsRpcCall
CHECK_DEADLOCK FALSE
