SPECIFICATION Spec
CONSTANTS
    s1 = s1
    s2 = s2
    Servers = {s1, s2}
    SidAny = SidAny
    SidBroadcast = SidBroadcast
    NoContent = NoContent
    MaxResults = 2
    FileServers = {}
    AllMode = {s1}
    Destinations = {SidBroadcast}
    ResetsReceived = TRUE
    WaitTime = 1
    AckExtension = 1
    MaxCalls = 1
    MaxWait = 2
    MaxSends = 2
INVARIANTS
    OneSlotPerServer
CHECK_DEADLOCK FALSE
