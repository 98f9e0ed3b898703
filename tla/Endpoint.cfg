SPECIFICATION Spec
CHECK_DEADLOCK FALSE
CONSTANTS
    FD = {1, 3}
    Pipe = 2
    NoConn = 0
    Worker = {w1, w2}
    Capacity = 1
    Pill = 99
    Conn = {1, 2, 3}
    Size = 2
    Bounds <- Endpoints
SYMMETRY Symmetry
INVARIANTS
    NoUseAfterFree
    
    WholePdus
    SleepersWoken
PROPERTIES
    NoJobAfterPill
