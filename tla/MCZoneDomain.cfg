SPECIFICATION Spec
CONSTANTS
    W64 = 4
    x = x
    y = y
    v = v
    Var = {x, y, v}
    Zero = Zero
    Values <- SmallValues
    Csts <- SomeCsts
    Questions <- SomeQuestions
    Assigns <- SomeAssigns
    Ranges <- SomeRanges
    MaxBuild = 3
    MaxCombine = 2
INVARIANTS
    PointsCovered
    SubsumptionSound
    QuestionsSound
    NormalForm
CHECK_DEADLOCK FALSE
