SPECIFICATION Spec
CONSTANTS
    Keys <- MCKeys
    KeyBytes <- MCKeyBytes
    Encoding <- MCEncoding
    MaxEncoding = 12
    PackMax = 3
    Slots = {1, 2}
    FrontIndex <- MCFrontIndex
    EntryBytes = 2
    TokenBytes = 1
    Budgets = {7, 9, 14}
    OffsetLimit = 64
    NoKey = 0
    Undefined = Undefined
INVARIANTS EmitsEncoding WithinBudget
PROPERTY RoomAfterWipe
