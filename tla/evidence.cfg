SPECIFICATION Spec
CONSTANTS
    Nothing = Nothing
    Supported = {"1.2"}
    Revisions = {"r1", "r2"}
    Toolchains = {"v4", "v5"}
    MaxPackages = 2
    Texts <- MCTexts
    Starts <- MCStarts
    Managed = "v4"
    OldTimes = {0}
    MaxEdits = 3
CHECK_DEADLOCK FALSE
INVARIANTS
    CommittedIntakeExisted
    AcceptedInputIsASnapshot
