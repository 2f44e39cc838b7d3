SPECIFICATION ChunksSpec
CONSTANTS
    Inputs <- MixedInputs
    MinChunk = 3
    ByteLevel = ByteLevel
    Space = "_"
    Mark = "M"
    Blanks = {"_", "n"}
    SplitPuncts = {"."}
    MaxCrossPieces = 2
    Letters = {"a"}
    Digits = {"1"}
INVARIANTS SameTokens
