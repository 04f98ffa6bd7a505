SPECIFICATION Spec
CONSTANTS
    Dims <- MCDims
    Shapes <- MCShapes
    MaxCells = 16
    Value <- MCValue
    Numeral <- MCNumeral
    Device = {"d1", "d2"}
    Batches <- MCBatches
    ABSENT = ABSENT
    NONE = NONE
INVARIANTS
    SlotsEndAtError
    FilterExact
    UnderWayExact
