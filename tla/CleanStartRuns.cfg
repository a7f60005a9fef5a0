SPECIFICATION Spec
CONSTANTS
    Trees <- TheTrees
    Clean = "clean"
    Holds <- TheFindings
    Runs <- AllRuns
CHECK_DEADLOCK FALSE
INVARIANTS
    SuccessIsJudged
    JudgedWasAdmitted
PROPERTIES
    RunEnds
    RunIsRecoveryLoop
