SPECIFICATION Spec
CONSTANTS
    s1 = s1
    s2 = s2
    Servers = {s1, s2}
    SidAny = SidAny
    SidBroadcast = SidBroadcast
    NoContent = NoContent
    MaxResults = 2
    FileServers = {s2}
    Destinations = {SidBroadcast, SidAny, s1}
    ShortWait = 1
    LongWait = 2
    PassTime = 1
    MaxCalls = 1
    MaxFailures = 0
    MaxRestarts = 0
    MaxWait = 2
INVARIANTS
    AnswersAreReal
    SlotsInOrder
    NoAnswerOverlooked
    WaitIsBounded
PROPERTIES
    ImplementsRpcCall
CHECK_DEADLOCK FALSE
