SPECIFICATION Spec
CONSTANTS
    Snapper = {"timer", "main"}
    Main = "main"
    MaxInc = 2
    MaxChange = 1
    NONE = NONE
CHECK_DEADLOCK FALSE
INVARIANT
    DroppedStaysDropped
