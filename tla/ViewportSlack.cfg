SPECIFICATION AggSpec
CONSTANTS
    Dev = {1, 2, 3, 4}
    Pos <- MCLine4
    MaxZoom = 3
    R2 <- MCR24
    H2 <- MCH24
    Radius <- MCRadius4
    Rank <- MCRank
    NONE = NONE
    Cell = {}
    CellSets <- MCNoCells
    All = All
    PREC = 64
    Boxes <- MCBoxes4
INVARIANT
    ViewportComplete
