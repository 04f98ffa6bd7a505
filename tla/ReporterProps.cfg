SPECIFICATION Spec
CONSTANTS
    Id = {"a", "b"}
    Reports <- MCReports
    Bad = {8}
    MaxWaiters = 2
    NONE = NONE
CHECK_DEADLOCK FALSE
INVARIANT
    Settles

