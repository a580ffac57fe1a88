SPECIFICATION Spec
CONSTANTS
    p1 = p1
    p2 = p2
    Paths = {p1}
    Watched = p1
    StackSize = 12
    Byte = {0, 1}
    Ptr = Ptr
    Unknown = Unknown
    Numbers <- MCNumbers
    NumberAccesses <- WordAccesses
    PointerAccesses <- WordPointers
    HelperAccesses <- WordBuffers
    Filler = {1}
    NarrowFits = TRUE
    MaxSteps = 5
INVARIANTS
    CellsHoldTheirBytes
    NumericBytes
PROPERTIES
    LoadsAgree
CHECK_DEADLOCK FALSE
