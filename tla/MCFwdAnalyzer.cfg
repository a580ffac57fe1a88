SPECIFICATION AnSpec
CONSTANTS
    Labels = {0, 1, 2, 3, 4}
    Entry = 0
    Graphs <- JumpGraphs
    Domain <- MCDomain
    Bottom <- MCBottom
    Leq <- MCLeq
    Join <- MCJoin
    Meet <- MCMeet
    Widen <- MCWiden
    Narrow <- MCNarrow
    ConstantLimits <- MCConstantLimits
    Transform <- MCTransform
    Assume <- MCAssume
    Check <- MCCheck
    EntryInv <- MCEntryInv
    Code <- MCCode
    MaxDescending = 3
    Values <- MCValues
    Gamma <- MCGamma
    Run <- MCRun
    Holds <- MCHolds
INVARIANTS
    PostFollowsPre
    Sound
    VerifiedIsSafe
