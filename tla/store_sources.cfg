\* Two threads and another process fetch one source; everything may fail or crash.
\* Beside it, every archive of up to four of fourteen entries, read with a limit
\* of three.
CONSTANTS
    a1 = a1
    a2 = a2
    b1 = b1
    k1 = k1
    k2 = k2
    t1 = t1
    r1 = r1
    r2 = r2
    q1 = q1
    i1 = i1
    i2 = i2
    NoKey = NoKey
    Orphan = Orphan
    Caller = {a1, a2, b1}
    Instance = {i1, i2}
    Host <- HostOf
    Request = {r1}
    Key = {k1}
    Tree = {t1}
    KeyOf <- Sources
    TreeOf <- OneTree
    MaxRetainedTasks = 2
    FailPoints <- AllPoints
    MayCrash = {i1, i2}
    MayDrift = {}
    MaxEntries = 3
    MaxFile = 2
    MaxExpanded = 3
    SkipsLinks = TRUE
    Archives <- MCArchives
    Leftovers <- MCLeftovers
    Excluded <- MCExcluded
SPECIFICATION StoreAndTrees
INVARIANTS
    ArchiveIsNormalized
    TypeOK
    OneRunnerPerTask
    FetchesOnlyWhatIsMissing
PROPERTIES
    KeepsPromise
