SPECIFICATION FairSpec
CONSTANTS
    Id = {"a", "b"}
    Reports <- MCReports
    Bad = {8}
    MaxWaiters = 2
    NONE = NONE
CHECK_DEADLOCK FALSE
INVARIANTS
    SendsChain
    NewestKept
    SettlesUnfailed
PROPERTY
    Drains
