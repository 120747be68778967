SPECIFICATION Spec
CONSTANTS
    Handles = {h1, h2, h3}
    Backlog = 2
    BatchSize = 3
CHECK_DEADLOCK FALSE
INVARIANT ListenerReady
