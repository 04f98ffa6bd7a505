SPECIFICATION FairSpec
CONSTANTS
    Snapper = {"timer", "main"}
    Main = "main"
    MaxInc = 2
    MaxChange = 2
    NONE = NONE
CHECK_DEADLOCK FALSE
INVARIANTS
    FileIntactUndropped
    SavedSurvives
PROPERTIES
    SnapshotsAdvance
    AnsweredIsSaved
    ShutdownEnds
