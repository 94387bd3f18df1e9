CONSTANTS
    t1 = t1  t2 = t2  p1 = p1  p2 = p2  Watcher = Watcher  None = None
    Tasks = {t1, t2}
    Pages = {p1}
    Kinds = {"open", "close", "read", "rebuild"}
    Cancels = TRUE
SPECIFICATION Spec
SYMMETRY Symmetric
INVARIANTS DepthCounts 
