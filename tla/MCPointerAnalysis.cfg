SPECIFICATION Spec
CONSTANTS
    Var <- AllVariables
    Zero = Zero
    Reg = {0, 1, 2, 6, 10}
    W64 = 6
    W32 = 5
    W16 = 3
    W8 = 2
    R0 = 0
    R1 = 1
    R6 = 6
    R10 = 10
    CallerSaved = {1, 2}
    CalleeSaved = {6}
    MaxFrames = 2
    FrameSize = 2
    StackSize = 6
    WordBytes = 3
    CtxSize = 4
    CtxData = 0
    CtxEnd = 1
    CtxMeta = 2
    PTR_MAX = 12
    PtrMin = 3
    MAX_PACKET_SIZE = 3
    MapDesc <- Maps
    Address <- Where
    Entries <- AllEntries
    Numbers = {0, 1, 3, 63}
    Prologues <- AllPrologues
    Meeting <- MeetingPrologues
    Instructions <- AllInstructions
    MaxBody = 2
    Allowed = {}
INVARIANTS
    TypeOK
    Covered
    AcceptedIsSafe
    NoInternalError
CHECK_DEADLOCK FALSE
