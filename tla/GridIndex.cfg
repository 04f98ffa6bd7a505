SPECIFICATION Spec
CONSTANTS
    Slot = {s1, s2, s3}
    FineCell <- MCFineCell
    MaxZoom = 1
    Hash <- MCHash
    InitCap = 4
    MaxListed = 4
    NONE = NONE
SYMMETRY MCSymmetry
INVARIANTS
    FilingExact
    DirectoryExact
