SPECIFICATION Spec
CONSTANTS
    FileSets <- Files
    Suspected <- OnlyA
    Runs <- AllLoops
    Outcomes <- Outs
    Costs = {20, 30, 48}
INVARIANTS
    RefinementReplays
CHECK_DEADLOCK FALSE
