SPECIFICATION Spec
CONSTANTS
    Settings <- AllSettings
    Programs <- SomePrograms
    MaxCandidates = 2
INVARIANTS
    SuccessIsVerified
    NamedCheckpointsSurvive
    TrialsAreContained
PROPERTIES
    RunIsRecoveryLoop
CHECK_DEADLOCK FALSE
