SPECIFICATION BothSpec
CONSTANTS
    MaxNode = 3
    MaxSnap = 3
    MaxSum = 5
    a = a
    snapshot = snapshot
    Names <- OneName
    SNAPSHOT_NAME = snapshot
    Types = {"DIR", "REG"}
    Data = {0}
    Times = {0}
    WriteFailures = FALSE
INVARIANTS
    NlinkIsUplinks
    LinksMirror
    ReopenKeepsLiveView
    ReadsAgree
    AnswersAgree
    DiffsAndStatsAgree
    LookupResolves
    ParentHolds
PROPERTIES
    RefinesVersionedFs
    OracleImplementsFs
