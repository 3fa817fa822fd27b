\* All commands; the configuration edited at any time, crashes and I/O errors at
\* every point of every command but rollback.
CONSTANTS
    p1 = p1
    p2 = p2
    t1 = t1
    t2 = t2
    t3 = t3
    a = a
    b = b
    m = m
    x = x
    d = d
    NoGen = NoGen
    TornGen = TornGen
    Orphan = Orphan
    NoTxn = NoTxn
    NoRecord = NoRecord
    TornManaged = TornManaged
    NoProc = NoProc
    Proc = {p1, p2}
    Txn = {t1, t2}
    Source <- EditedSources
    Content <- EditedContents
    DeclaredBy <- Declares
    Unread = Unread
    RecoverAlone = TRUE
    AdoptAlone = TRUE
    Ops = {"publish", "adopt", "update", "recover", "rollback", "build"}
    CrashOps = {"publish", "adopt", "update", "recover", "build"}
    CrashPoints <- AllPoints
    FailPoints <- AllPoints
SYMMETRY Symmetry
SPECIFICATION ProjectSpec
INVARIANTS
    RecordFollowsActive
    BuildIsStable
    ActiveMatchesInput
    RetainedIsComplete
PROPERTIES
    ContentIsAdopted
    PendingGuardsCommit
    ManagerDiscipline
    RecoverySettles
