SPECIFICATION Spec
CONSTANTS
    Batches <- AllBatches
    Names <- TheNames
INVARIANTS
    SuccessIsATrial
    TrialsAreOwn
PROPERTIES
    RowsSurvive
    RunEnds
CHECK_DEADLOCK FALSE
