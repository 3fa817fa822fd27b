\* Publications, rollbacks and recoveries of other transactions overlap;
\* crashes and I/O errors at every control point.
CONSTANTS
    p1 = p1
    p2 = p2
    t1 = t1
    t2 = t2
    t3 = t3
    c1 = c1
    c2 = c2
    NoGen = NoGen
    TornGen = TornGen
    Orphan = Orphan
    Proc = {p1, p2}
    Txn = {t1, t2, t3}
    Content = {c1}
    RecoverAlone = FALSE
    Ops = {"publish", "recover", "rollback"}
    CrashOps = {"publish", "recover", "rollback"}
    CrashPoints <- AllPoints
    FailPoints <- AllPoints
SYMMETRY Symmetry
SPECIFICATION Spec
INVARIANTS
    TypeOK
    ActiveIsComplete
    LockExcludes
PROPERTIES
    TerminalRecords
    SuccessIsActive
    KeepsPromise
