SPECIFICATION Spec
CHECK_DEADLOCK FALSE
CONSTANTS
    Bounds <- Short
    Lossy = FALSE
INVARIANTS
    AckedForgotten
