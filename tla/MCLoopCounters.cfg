SPECIFICATION InstrFairSpec
CONSTANTS
    Labels = {0, 1, 2, 3, 4}
    Entry = 0
    Graphs <- BranchingGraphs
INVARIANTS
    TypeOK
    StackDiscipline
    EachPlacedOnce
    WeakTopologicalOrder
    CyclesAreLoops
    NestingAgrees
    EdgesPreserved
    OuterLoopsCounted
PROPERTIES
    Terminates
