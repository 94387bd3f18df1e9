SPECIFICATION FairSpec
CONSTANTS
    r1 = r1
    r2 = r2
    r3 = r3
    r4 = r4
    None = None
    Requests <- FourRequests
INVARIANTS
    ExclusiveIsolation
    CountsAgree
    NoLostWakeup
PROPERTIES
    NoSharedPastQueuedExclusive
    AdmittedAmongShared
