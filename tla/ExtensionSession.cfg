SPECIFICATION Spec
CONSTANTS
    r1 = r1
    r2 = r2
    None = None
    Requests = {r1, r2}
    Sockets <- Connections
    MaxFiles = 1
INVARIANTS
    NothingLeftBehind
    ReadyMeansSession
    ArtifactsComplete
    NobodyWaitsInVain
SYMMETRY Symmetric
CHECK_DEADLOCK FALSE
