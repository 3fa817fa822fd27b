\* Adoptions and updates stop at any point outside a half-written file;
\* recoveries are repeated; the sources are left alone.
CONSTANTS
    p1 = p1
    p2 = p2
    t1 = t1
    t2 = t2
    t3 = t3
    a = a
    b = b
    m = m
    x = x
    d = d
    NoGen = NoGen
    TornGen = TornGen
    Orphan = Orphan
    NoTxn = NoTxn
    NoRecord = NoRecord
    TornManaged = TornManaged
    NoProc = NoProc
    Proc = {p1, p2}
    Txn = {t1, t2, t3}
    Source <- OneSource
    Content <- OneContent
    DeclaredBy <- Declares
    Unread = Unread
    RecoverAlone = TRUE
    AdoptAlone = TRUE
    Ops = {"publish", "adopt", "update", "recover", "rollback", "build"}
    CrashOps = {"publish", "adopt", "update"}
    CrashPoints <- WholeFilePoints
    FailPoints <- WholeFilePoints
SPECIFICATION FairProjectSpec
INVARIANTS
    PreviousIsRestorable
PROPERTIES
    PendingSettles
    BegunIsSettled
