SPECIFICATION Spec
CONSTANTS
    t1 = t1  t2 = t2  t3 = t3  i1 = i1  i2 = i2  c1 = c1  c2 = c2  c3 = c3
    None = None  AnyType = AnyType
    Tasks = {t1, t2, t3}
    Ids = {i1, i2}
    Chrome = {c1, c2, c3}
    Calls = {"screenshot"}
    Notes = {"start_video"}
    WaitFilters <- AnyRecord
    Types = {"image"}
    RecordLimit = 1
SYMMETRY Symmetric
CONSTRAINT OneRecorded
INVARIANTS
    NeverWithoutPage
    PagesOwnedOnce
    KnownPagesOpen
    NothingKeptForTheGone
    NobodyMissesARecord
