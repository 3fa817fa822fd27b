\* Three packages, fifteen candidates in twenty-one sets of metadata, any mode.
CONSTANTS
    nowhere = nowhere
    anyRev = anyRev
    NoRevision = anyRev
    lean = lean
    lean2 = lean2
    none = none
    Toolchain = lean
    NoTool = none
    NoLock = NoLock
    NoBinding = NoBinding
    NoDocument = NoDocument
    NoAuthorization = NoAuthorization
    Stripped <- StrippedPlaces
    Key = {1, 2, 3}
    MaxDepth = 2
    Candidate <- Candidates
    Roots <- AllRoots
    Registries <- AllRegistries
    GivenLocks <- AllLocks
    UpdateSets <- AllUpdates
SPECIFICATION Spec
INVARIANTS
    GraphIsCoherent
    GraphIsAcyclic
    OrderDoesNotDecide
    FrozenReplays
    GenerationDescribesItsClosure
PROPERTIES
    UpdateIsTargeted
