SPECIFICATION MCSpec
CONSTANTS
    W = 4
    Look = 3
    TailWalk = 1
    Chunk = 3
    RelMax = 11
    RelLimit = 7
    Texts <- NoTexts
INVARIANTS
    TokensFollowPattern
    MasksTrusted
    SpansAreTokens
    BufferBounded
PROPERTIES
    CallsEnd
