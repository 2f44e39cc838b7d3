SPECIFICATION Spec
CONSTANTS
    Short = {"w", "u", "s", "t"}
    Long = {"l", "h", "g"}
    Vocab = {"w", "u", "g"}
    Addable = {"u", "s"}
    Width <- MCWidth
    KeyLen <- MCKeyLen
    InlineMax = 1
    SlotBytes = 1
    MinSlots = 4
    ArenaSlack = 2
    LongFloor = 7
    EntryBytes = 1
    Budgets = {4, 40, Unbounded}
    Unbounded = Unbounded
    MaxArena = 6
INVARIANTS Coherent SeedPresent Bounded NoThrash
PROPERTY EmitsExpected
