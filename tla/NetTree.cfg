SPECIFICATION Spec
CONSTANTS
    Dev <- MCDev
    Pos <- MCPos
    MaxZoom = 2
    R2 <- MCR2
    H2 <- MCH2
    Rank <- MCRank
    NONE = NONE
INVARIANTS
    TypeOK
    JobOK
    GridListsCenters
    Separation
    Covering
    RadiusBound
