SPECIFICATION Spec
CONSTANTS
    Id = {a, b, c}
    Cell = {1, 2, 3}
    CellSets <- MCCellSets
    X = {1, 2}
    MaxOps = 5
    NONE = NONE
SYMMETRY MCSymmetry
CHECK_DEADLOCK FALSE
INVARIANTS
    SlotsSound
    LayoutsAgree
    EntriesAccounted
