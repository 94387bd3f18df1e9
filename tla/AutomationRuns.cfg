CONSTANTS
    TicksPerDay = 6
    Horizon = 110
    s1 = s1
    s2 = s2
    a1 = a1
    None = None
    Services = {s1, s2}
    Automations = {a1}
    Scheduled = {a1}
    Timed = {a1}
    Retries = 1
    Backoff = TRUE
    MaxRuns = 2
    MaxEvents = 2
SPECIFICATION Spec
INVARIANTS
    ClaimExclusive
    ScheduledOncePending
    RunningIsExecuted
PROPERTIES
    RetriesBounded
SYMMETRY Symmetric
CHECK_DEADLOCK FALSE
