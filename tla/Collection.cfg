SPECIFICATION FairSpec
CONSTANTS
    Id = {"a"}
    Items <- MCItems
    Batches <- MCBatches
    Default <- MCDefault
    Ttls = {0, 1, 2}
    Limits = {1, 2}
    MaxTime = 4
    NONE = NONE
    KEEP = KEEP
INVARIANTS
    IndexMatchesRecords
PROPERTIES
    ImplementsRegistry
    GhostsLeave
