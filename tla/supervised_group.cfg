SPECIFICATION Spec
CONSTANTS
    Reasons = {"Timeout", "OutputOverflow"}
CHECK_DEADLOCK FALSE
INVARIANTS
    GroupIsReaped
