CONSTANTS
    t1 = t1  t2 = t2  p1 = p1  p2 = p2  Watcher = Watcher  None = None
    Tasks = {t1}
    Pages = {p1, p2}
    Kinds = {"page", "open", "close", "read", "rebuild"}
    Cancels = FALSE
SPECIFICATION FairSpec
INVARIANT BegunHasBackend
PROPERTY RebindEnds
