SPECIFICATION Spec
CONSTANTS
    Window = 2
    CustomStop = TRUE
    Configs <- Runs
    Histories <- FewHistories
INVARIANTS
    RelayTellsAgents
    StaleAtMostOnce
    OneCommandAfterStop
    SuccessIsVerified
PROPERTIES
    InternalAnchorHealthy
    ResetWipesWhatWasRead
    RunReturns
    RunIsEpisode
\* a run ends, and the background thread with it
CHECK_DEADLOCK FALSE
