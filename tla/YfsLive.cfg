SPECIFICATION FairSpec
CONSTANTS
    Client = {c1, c2}
    Name = {a}
    DirInum = {i1, i2}
    FileInum = {i5}
    Root = i1
    NoInum = NoInum
    NoClient = NoClient
PROPERTIES
    OperationsReturn
