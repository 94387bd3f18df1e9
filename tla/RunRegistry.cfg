SPECIFICATION FairSpec
CONSTANTS
    MaxRuns = 3
    MaxCompleted = 1
    LossyCancel = TRUE
INVARIANTS
    RunsAccounted
    MemoryBounded
PROPERTIES
    TerminalIsFinal
    CancelTerminates
CHECK_DEADLOCK FALSE
