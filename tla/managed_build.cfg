SPECIFICATION Spec
CONSTANTS
    Nothing = Nothing
    Supported = "v4"
    Builders <- MCBuilders
    Makes <- MCMakes
    Entries <- MCEntries
    Updates <- MCUpdates
    Registered <- MCRegistered
    Runners = {"q"}
    MaxEvents = 1
CHECK_DEADLOCK FALSE
INVARIANTS
    ReferencesHold
PROPERTIES
    BuildKeepsProjectHealthy
