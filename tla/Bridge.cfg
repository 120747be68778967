SPECIFICATION FairSpec
CONSTANTS
    Workers = {w1, w2}
    Calls = {c1, c2}
    NoCall = NoCall
    Asks <- MCAsks
    CmdSize = 1
    Ports = 2
    WorkersStop = TRUE
    AcceptSize = 1
    MaxAccepts = 2
INVARIANTS
    TypeOK
    NoLostCommand
    EvenDistribution
    ListenerDelivers
PROPERTY CallsReturn
CHECK_DEADLOCK FALSE
