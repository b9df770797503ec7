SPECIFICATION Spec
CONSTANTS
    MaxNode = 3
    MaxSnap = 2
    a = a
    b = b
    snapshot = snapshot
    Names <- MCNames
    SNAPSHOT_NAME = snapshot
    Types = {"DIR", "REG"}
    Data = {0}
    Times = {0}
    WriteFailures = FALSE
SYMMETRY NameSymmetry
INVARIANTS
    Acyclic
    MoveNeverStopsHalfway
PROPERTIES
    HandlesStayGood
