SPECIFICATION Spec
CONSTANTS
    MaxNode = 2
    MaxSnap = 3
    a = a
    b = b
    snapshot = snapshot
    Names <- OneName
    SNAPSHOT_NAME = snapshot
    Types = {"DIR", "REG"}
    Data = {0}
    Times = {0}
    WriteFailures = TRUE
INVARIANTS
    IdsNeverReused
    IndInv
    DiffsMatchFullScan
PROPERTIES
    SealedViewsNeverChange
