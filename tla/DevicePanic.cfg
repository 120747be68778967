SPECIFICATION Spec
CONSTANTS
    Mbufs = {b1, b2, b3}
    None = None
    RxCap = 2
    TxCap = 1
    BurstSize = 2
    RxRingSize = 2
    TxRingSize = 1
    MaxInject = 0
    MaxFrames = 4
SYMMETRY Symmetry
INVARIANT TokenHasSpace
