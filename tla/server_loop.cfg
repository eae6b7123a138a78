SPECIFICATION FairSpec
CONSTANTS
    k1 = k1
    k2 = k2
    Commands <- MCCommands
    Conf <- MCConf
    Binaries <- MCBinaries
    ByteRange = 16
    Garbage = 16
    FlatSize = 40
    ShellChars = {";"}
    MaxListens = 2
    MaxCalls = 2
INVARIANTS
    TypeOK
    SocketsAreClosed
    CommandArrives
    DeclaredIsOffered
    PlainCommandsDoNotKill
    FileIsTheCallers
PROPERTIES
    StopMovesOn
    StopIsObeyed
    CallsAreTaken
CHECK_DEADLOCK FALSE
