SPECIFICATION FairSpec
CONSTANTS
    Ids = {0, 1, 2, 3, 4}
    Inputs <- MCInputs
    NoRank = 127
    PosSpan = 8
    NoMerge = 127
    IdBits = 3
    DenseBits = 1
    NumSlots = 8
    Hash <- MCHash
    MaxDisplacement = 1
INVARIANTS Irreducible
PROPERTIES MergesLowest ImplementsLowestFirst Terminates
