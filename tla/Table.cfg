SPECIFICATION Spec
CONSTANTS
    Keys = {1, 2, 3, 4, 5}
    Vals = {v1, v2}
    Hash <- SmallHash
    Absent = Absent
    Caps = {2, 4}
    MaxCap = 8
INVARIANTS WalksRight
PROPERTY ImplementsStore
