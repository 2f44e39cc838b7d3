SPECIFICATION Spec
CONSTANTS
    Bytes = {"a", "b", "n", "x"}
    Inputs = {}
    Streams <- StreamInputs
    ReadFails = FALSE
    Newline = "n"
    Malformed = "x"
INVARIANTS NothingDropped
