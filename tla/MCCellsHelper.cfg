SPECIFICATION Spec
CONSTANTS
    p1 = p1
    p2 = p2
    Paths = {p1}
    Watched = p1
    StackSize = 12
    Byte = {0, 1}
    Ptr = Ptr
    Unknown = Unknown
    Numbers <- MCNumbers
    NumberAccesses <- WordAccesses
    PointerAccesses <- WordPointers
    HelperAccesses <- CellBuffers
    Filler = {1}
    NarrowFits = TRUE
    MaxSteps = 3
INVARIANTS
    CellsHoldTheirBytes
CHECK_DEADLOCK FALSE
