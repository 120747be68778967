SPECIFICATION FairSpec
CONSTANTS
    l1 = l1
    l2 = l2
    l3 = l3
    Lcores <- MCLcores
    Main = l2
    Threads = {m1, m2}
    RetaSizes = {0, 2, 8}
CHECK_DEADLOCK FALSE
INVARIANTS
    TypeOK
    EalHasOneUser
    
    EveryQueueServed
PROPERTY RunReturns
