SPECIFICATION Spec
CONSTANTS
    Client = {c1, c2}
    Name = {a, b}
    DirInum = {i1}
    FileInum = {i5, i6}
    Root = i1
    NoInum = NoInum
    NoClient = NoClient
SYMMETRY Symmetry
INVARIANTS
    NoDangling
    UniqueNames

    
