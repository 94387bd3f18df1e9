SPECIFICATION FairSpec
CONSTANTS
    b = b
    c = c
    x = x
    y = y
    a1 = a1
    a2 = a2
    p1 = p1
    p2 = p2
    p3 = p3
    p4 = p4
    None = None
    Tasks <- MCTasks
    Agents <- MCAgents
    Pages <- MCPages
    AgentOf <- MCAgentOf
    Programs <- MCPrograms
    InitialTabs <- MCInitialTabs
    Lossy = {x}
INVARIANTS
    ClaimsExact
    ActiveOwned
PROPERTIES
    BatchUndisturbed
    LeasesKept
    CancelOwnAfterClosure
    NobodyHangsOnAClosedPage
    QueuedForEverOnlyBehindAHang
CHECK_DEADLOCK FALSE
