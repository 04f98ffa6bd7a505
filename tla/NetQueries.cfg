SPECIFICATION AggSpec
CONSTANTS
    Dev = {1, 2, 3, 4}
    Pos <- MCLine
    MaxZoom = 1
    R2 <- MCR2
    H2 <- MCH2
    Radius <- MCRadius
    Rank <- MCRank
    NONE = NONE
    Cell = {"red"}
    CellSets <- MCCellSets
    All = All
    PREC = 32
    Boxes <- MCBoxes
INVARIANTS
    AggregatesExact
    ClusterIsItsMembers
    DrillDownPartitions
    SingleIsTheMember
    PagesCoverCluster
    ViewportComplete
    VerifyAccepts
    SelectionMatchesMap
