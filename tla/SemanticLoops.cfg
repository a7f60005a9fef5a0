SPECIFICATION Spec
CONSTANTS
    FileSets <- Files
    Suspected <- OnlyA
    Runs <- AllLoops
    Outcomes <- Outs
    Costs = {20, 30, 48}
INVARIANTS
    BudgetsHold
    NoBlindRetry
    SuccessIsEarned
    LastSlotReplays
PROPERTIES
    ExecutorIsRecoveryLoop
CHECK_DEADLOCK FALSE
