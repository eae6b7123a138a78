SPECIFICATION FairSpec
CONSTANTS
    s1 = s1
    s2 = s2
    Servers = {s1}
    SidAny = SidAny
    SidBroadcast = SidBroadcast
    NoContent = NoContent
    Me = Me
    MaxResults = 2
    FileCalls = {}
    AllMode = {s1}
    MspMode = {}
    MdpMode = {}
    RhizomeMode = {}
    FileParams = {}
    MaxCalls = 1
    Destinations <- One
    Direct = {}
    MaxSends = 1
    MaxRestarts = 0
PROPERTIES
    LostCallEnds
CHECK_DEADLOCK FALSE
