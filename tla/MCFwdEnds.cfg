SPECIFICATION AnFairSpec
CONSTANTS
    Labels = {0, 1, 2, 3, 4}
    Entry = 0
    Graphs <- LoopGraphs
    Domain <- MCDomain
    Bottom <- MCBottom
    Leq <- MCLeq
    Join <- MCJoin
    Meet <- MCMeet
    Widen <- MCWiden
    Narrow <- MCNarrow
    ConstantLimits <- MCConstantLimits
    Transform <- MCTransform
    Assume <- MCAssume
    Check <- MCCheck
    EntryInv <- MCEntryInv
    Code <- LoopCode
    MaxDescending = 3
    Values <- MCValues
    Gamma <- MCGamma
    Run <- MCRun
    Holds <- MCHolds
PROPERTIES
    AnalysisEnds
