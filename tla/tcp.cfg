\* One connection, two chunks each way, a window of one.
SPECIFICATION Spec
CONSTANTS
    MaxChunks = 2
    Window = 1
INVARIANTS
    TypeOK
    ShutDeliversAll

    
CHECK_DEADLOCK FALSE
