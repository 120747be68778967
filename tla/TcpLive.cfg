SPECIFICATION FairPeerSpec
CONSTANTS
    Handles = {h1, h2}
    Backlog = 1
    BatchSize = 2
CHECK_DEADLOCK FALSE
PROPERTIES
    RoundsEnd
    CloseReturns
    OrphansRemoved
