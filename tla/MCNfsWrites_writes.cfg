SPECIFICATION HSpec
CONSTANTS
    MaxNode = 3
    MaxSnap = 2
    a = a
    snapshot = snapshot
    Names <- OneName
    SNAPSHOT_NAME = snapshot
    Types = {"DIR", "LNK", "REG"}
    Data = {0}
    Times = {0}
    WriteFailures = FALSE
    Protocols = {3, 4}
    TimeAdvance = TRUE
    Crashes = TRUE
INVARIANTS
    NewObjectsAppearComplete
    V4WritesGoToLive
    RefusedLeavesTree
    DirsStampedWhenIdle
PROPERTIES
    NonEmptyStaysLinked
