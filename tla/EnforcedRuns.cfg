SPECIFICATION Spec
CONSTANTS
    Trees <- TheTrees
    Head = "head"
    Previous = "previous"
    Candidate = "candidate"
    Mixed = "mixed"
    Blank = "none"
    Placeholder = "placeholder"
    Diff <- TheDiff
    Holds <- TheFindings
    Runs <- AllRuns
CHECK_DEADLOCK FALSE
INVARIANTS
    SuccessIsJudged
    PatchWasJudged
    SuccessPassedGates
PROPERTIES
    AttemptEnds
    AttemptIsRecoveryLoop
