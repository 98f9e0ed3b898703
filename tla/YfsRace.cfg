SPECIFICATION Spec
CONSTANTS
    Client = {c1, c2}
    Name = {a}
    DirInum = {i1}
    FileInum = {i5, i6}
    Root = i1
    NoInum = NoInum
    NoClient = NoClient
INVARIANT
    LookupHasAttr
