SPECIFICATION Spec
CONSTANTS
    ChannelSize = 1
    SocketBuffer = 1
    ReadSize = 1
    WriteSize = 1
    MaxIn = 1
    MaxOut = 1
INVARIANT CloseForwardsWritten
CHECK_DEADLOCK FALSE
