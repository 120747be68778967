SPECIFICATION FairSpec
CONSTANTS
    Tasks = {t1, t2}
    Cap = 2
    TxPackets = 1
    RxPackets = 1
    MaxOut = 3
    MaxIn = 3
CHECK_DEADLOCK FALSE
INVARIANTS
    ReadyMeansReadable
PROPERTIES
    BothWaysArePipes
    SendReturns
    DropEndsRelay
