CONSTANTS
    TicksPerDay = 6
    Horizon = 110
    s1 = s1
    s2 = s2
    a1 = a1
    None = None
    Services = {s1}
    Automations = {a1}
    Scheduled = {a1}
    Timed = {a1}
    Retries = 1
    Backoff = TRUE
    MaxRuns = 3
    MaxEvents = 1
SPECIFICATION FairSpec
PROPERTIES
    QueuedIsTaken
    ScheduleGoesOn
CHECK_DEADLOCK FALSE
