SPECIFICATION Spec
CONSTANTS
    Nothing = Nothing
    NoRequest = NoRequest
    Sessions = {s1, s2}
    Contents = {c1, c2}
    Devices = {d1, d2}
    Selectors <- MCSelectors
    MaxInventory = 2
    RequestWindow = 3
    ObservationAge = 1
    ChallengeWindow = 2
    Identifiers <- MCIdentifiers
    Teams <- MCTeams
    ZeroDigest <- MCZero
    MaxGroups = 3
    RequestLife = 2
    Executables <- MCExecutables
    Projects <- MCProjects
    Terminals <- MCTerminals
    Environments <- MCEnvironments
    Paths <- MCPaths
    Packages <- MCPackages
    RequestNonces = {q1}
    ChallengeNonces = {n1}
    MaxClock = 3
    MaxDrift = 1
SYMMETRY Approve
CHECK_DEADLOCK FALSE
INVARIANTS
    AuthorityMatchesApproval
    WireIsFaithful
PROPERTIES
    KeepsPromise
