SPECIFICATION ControlledSpec
CONSTANTS
    FileSets <- Files
    Suspected <- OnlyA
    Loops <- AstrayLoops
INVARIANTS
    ForcedActionsRun
CHECK_DEADLOCK FALSE
