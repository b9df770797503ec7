SPECIFICATION HSpec
CONSTANTS
    MaxNode = 2
    MaxSnap = 2
    a = a
    snapshot = snapshot
    Names <- OneName
    SNAPSHOT_NAME = snapshot
    Types = {"DIR", "REG"}
    Data = {0}
    Times = {0}
    WriteFailures = FALSE
    Protocols = {3}
    TimeAdvance = FALSE
    Crashes = FALSE
INVARIANTS
    WritesGoToLive
