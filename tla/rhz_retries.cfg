SPECIFICATION FairSpec
CONSTANTS
    s1 = s1
    s2 = s2
    Servers = {s1}
    SidAny = SidAny
    SidBroadcast = SidBroadcast
    NoContent = NoContent
    MaxResults = 2
    FileServers = {}
    Destinations = {SidBroadcast, s1}
    ShortWait = 1
    LongWait = 2
    PassTime = 1
    MaxCalls = 1
    MaxFailures = 1
    MaxRestarts = 1
    MaxWait = 2
INVARIANTS
    TypeOK
    ExecutedOnce
PROPERTIES
    CallReturns
    CallsAreServed
CHECK_DEADLOCK FALSE
