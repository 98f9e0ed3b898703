SPECIFICATION PartsSpec
CHECK_DEADLOCK FALSE
CONSTANTS
    empty = empty
    x = x
    y = y
    Client = {c1, c2}
    NoClient = NoClient
    Data = {empty, x, y}
    Empty = empty
    Size <- Lengths
    NoExtent = NoExtent
    CallsFail = {"get", "getattr", "put", "remove"}
    Thread = {t1, t2, t3}
    Hinfo = {i1, i2}
    NULL = NULL
    Byte = {0, 1, 2}
    Zero = 0
    MaxOff = 4
    MaxLen = 2
    Width = 3
    MaxXid = 5
    MaxReports = 2
    Base = 4
    Initial = 25
    MaxItems = 2
    Msec = 4
    Nsec = 2
    ToMin = 4
    Timeouts = {4, 7, 12}
    MaxClock = 48
INVARIANTS
    ValidIsLatest
    OnlyOwnerCaches
    ServerLatestWhenFree
    HandleLives
    
    
    FrontExact
    RoundTrip
    TruncatedRefused
    TimesOutOnTime
PROPERTIES
    ImplementsSharedExtent
