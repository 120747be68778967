SPECIFICATION FairSpec
CONSTANTS
    ChannelSize = 1
    SocketBuffer = 2
    ReadSize = 1
    WriteSize = 2
    MaxIn = 3
    MaxOut = 3
INVARIANTS
    EofMeansAll
PROPERTIES
    BothWaysArePipes
    WrittenReachesPeer
    DropEndsRelay
CHECK_DEADLOCK FALSE
