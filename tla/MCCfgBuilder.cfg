SPECIFICATION FairSpec
CONSTANTS
    Programs <- AllPrograms
    MaxCallStackFrames = 3
INVARIANTS
    TypeOK
    AdjacencyMirror
    FramesBounded
    CfgMatchesProgram
    FramePrefixesMatch
    RefusalsJustified
PROPERTIES
    EdgesStay
    Terminates
