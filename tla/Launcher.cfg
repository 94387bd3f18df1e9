SPECIFICATION FairSpec
CONSTANTS
    c1 = c1  c2 = c2  d0 = d0  d1 = d1  d2 = d2  None = None
    Clients = {c1, c2}
    Daemons = {d0, d1, d2}
    ProgramsOf <- MCPrograms
    Old = d0
    MaxFaults = 1
INVARIANTS
    LoneLaunchesLeaveOne
    CommandsReachThisVersion
PROPERTY
    CommandsEnd
CHECK_DEADLOCK FALSE
