SPECIFICATION FairSpec
CHECK_DEADLOCK FALSE
CONSTANTS
    Bounds <- OverlapOrCrash
    Lossy = FALSE
PROPERTIES
    AnsweredWhileUp
    CancelReturns
    ImplementsAtMostOnce
