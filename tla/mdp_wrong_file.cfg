SPECIFICATION Spec
CONSTANTS
    s1 = s1
    s2 = s2
    Servers = {s1, s2}
    SidAny = SidAny
    SidBroadcast = SidBroadcast
    NoContent = NoContent
    MaxResults = 2
    FileServers = {s1, s2}
    AllMode = {s1}
    Destinations = {SidAny}
    ResetsReceived = TRUE
    WaitTime = 1
    AckExtension = 1
    MaxCalls = 2
    MaxWait = 2
    MaxSends = 1
INVARIANTS
    FileIsTheAnswer
CHECK_DEADLOCK FALSE
