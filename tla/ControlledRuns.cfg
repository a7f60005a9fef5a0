SPECIFICATION ControlledSpec
CONSTANTS
    FileSets <- Files
    Suspected <- OnlyA
    Loops <- AllLoops
INVARIANTS
    EvidenceBetweenReplays
    ObjectsFollowReplays
PROPERTIES
    ControlledIsRecoveryLoop
CHECK_DEADLOCK FALSE
