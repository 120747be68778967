SPECIFICATION Spec
CONSTANTS
    Handles = {h1, h2, h3}
    Backlog = 2
    BatchSize = 2
CHECK_DEADLOCK FALSE
SYMMETRY Symmetry
INVARIANTS
    TypeOK
    OneOwner
    
    NoLostWakeup
