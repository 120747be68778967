SPECIFICATION FairSpec
CONSTANTS
    Mbufs = {b1, b2, b3, b4}
    None = None
    RxCap = 2
    TxCap = 2
    BurstSize = 2
    RxRingSize = 2
    TxRingSize = 1
    MaxInject = 1
    MaxFrames = 4
INVARIANTS
    TypeOK
    OwnedOnce
    NoMbufLost
    TxInOrder
PROPERTY TxFlushed
