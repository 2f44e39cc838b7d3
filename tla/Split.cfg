SPECIFICATION FairSpec
CONSTANTS
    Bytes = {"a", "b", "n", "x"}
    Inputs <- CleanInputs
    Streams <- StreamInputs
    ReadFails = TRUE
    Newline = "n"
    Malformed = "x"
INVARIANTS RegionsTile SameDocuments EndsAtSeparator
PROPERTY Terminates
