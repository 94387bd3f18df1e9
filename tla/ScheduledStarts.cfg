CONSTANTS
    TicksPerDay = 6
    Horizon = 110
SPECIFICATION Spec
INVARIANT DueOnSchedule
CHECK_DEADLOCK FALSE
