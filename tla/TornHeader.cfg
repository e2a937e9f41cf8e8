CONSTANTS
    Drainers = {d1, d2}
    None = None
    MaxSeq = 1
    MaxCrashes = 1
    MaxRecords = 9
    Oversized = {}
SPECIFICATION FairLog
PROPERTIES
    CardsReachDisk
