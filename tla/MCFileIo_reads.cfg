SPECIFICATION Spec
CONSTANTS
    Word = 16
    MaxFileSize = 7
    MAX_READ = 3
    Sector = 2
    Capacity = 5
    ReportBlock = 4
    Seeds = {1, 2}
    Configs <- MCConfigs
    Default <- MCDefault
    hash <- MCHash
    Starts = {0, 3, 8}
    Counts = {1, 5}
    Lengths = {0, 2}
    MaxSnaps = 1
    MaxChanges = 3
INVARIANTS PiecesAssemble UsedIsAllocated VolumeCoversUse
PROPERTIES ScanEnds
