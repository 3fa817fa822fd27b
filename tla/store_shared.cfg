\* A source and a path snapshot with one tree in two processes; one may die, the
\* object and the record may be damaged, sealing does not fail.
CONSTANTS
    a1 = a1
    a2 = a2
    b1 = b1
    k1 = k1
    k2 = k2
    t1 = t1
    r1 = r1
    r2 = r2
    q1 = q1
    i1 = i1
    i2 = i2
    NoKey = NoKey
    Orphan = Orphan
    Caller = {a1, b1}
    Instance = {i1, i2}
    Host <- HostOfTwo
    Request = {r1, q1}
    Key = {k1}
    Tree = {t1}
    KeyOf <- Sources
    TreeOf <- OneTree
    MaxRetainedTasks = 1
    FailPoints = {"fetch", "rename", "renameRecord"}
    MayCrash = {i2}
    MayDrift = {t1, k1}
SPECIFICATION Spec
INVARIANTS
    PublishedOnce
    RecordHasObject
    DriftIsRefused
