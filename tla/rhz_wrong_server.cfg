SPECIFICATION Spec
CONSTANTS
    s1 = s1
    s2 = s2
    Servers = {s1, s2}
    SidAny = SidAny
    SidBroadcast = SidBroadcast
    NoContent = NoContent
    MaxResults = 2
    FileServers = {}
    Destinations = {SidAny, s1}
    ShortWait = 1
    LongWait = 2
    PassTime = 1
    MaxCalls = 2
    MaxFailures = 0
    MaxRestarts = 0
    MaxWait = 2
INVARIANTS
    CalledServerAnswers
CHECK_DEADLOCK FALSE
