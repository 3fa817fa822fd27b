\* An adoption crashes right after it took the project lock (AfterLock).
CONSTANTS
    p1 = p1
    p2 = p2
    t1 = t1
    t2 = t2
    t3 = t3
    a = a
    b = b
    m = m
    x = x
    d = d
    NoGen = NoGen
    TornGen = TornGen
    Orphan = Orphan
    NoTxn = NoTxn
    NoRecord = NoRecord
    TornManaged = TornManaged
    NoProc = NoProc
    Proc = {p1}
    Txn = {t1, t2}
    Source <- OneSource
    Content <- OneContent
    DeclaredBy <- Declares
    Unread = Unread
    RecoverAlone = TRUE
    AdoptAlone = TRUE
    Ops = {"publish", "adopt", "update", "recover", "rollback", "build"}
    CrashOps = {"publish", "adopt"}
    CrashPoints = {"create"}
    FailPoints = {}
SYMMETRY Symmetry
SPECIFICATION ProjectSpec
INVARIANTS
    UnmanagedIsFree
