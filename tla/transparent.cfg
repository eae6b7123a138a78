SPECIFICATION FairSpec
CONSTANTS
    s1 = s1
    s2 = s2
    Servers = {s1}
    SidAny = SidAny
    SidBroadcast = SidBroadcast
    NoContent = NoContent
    Me = Me
    MaxResults = 2
    FileCalls = {2}
    AllMode = {s1}
    MspMode = {}
    MdpMode = {}
    RhizomeMode = {}
    FileParams = {1}
    MaxCalls = 2
    Destinations <- OneThenEither
    Direct = {"mdp"}
    MaxSends = 1
    MaxRestarts = 1
INVARIANTS
    TypeOK
    WorkIsBounded
    IssuedOnce
    FallbackDiscardsNothing
    AcknowledgedIsNotRepeated
    ReturnsTellTheTruth
    TextsAreReal
    AnswerIsTheServers
PROPERTIES
    ImplementsRpcCall
    CallsEnd
CHECK_DEADLOCK FALSE
