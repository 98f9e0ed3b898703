SPECIFICATION Spec
CONSTANTS
    empty = empty
    x = x
    y = y
    Client = {c1, c2}
    NoClient = NoClient
    Data = {empty, x, y}
    Empty = empty
    Size <- Lengths
    NoExtent = NoExtent
    CallsFail = {}
INVARIANTS
    ReadIsLatest
