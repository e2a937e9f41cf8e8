CONSTANTS
    DirectIds = {t1}
    Holders = {x1, x2}
    Asked = {y1, y2}
    Operations = {op1}
    NoEffect = NoEffect
    MaxFence = 2
    MaxSteps = 2
    MaxTree = 1
    Servers = {y1, y2}
    Attempts = {x1, x2}
    Creation = create
    FollowUps = {follow}
    MaxExpected = 2
    MaxCrashes = 1
    Callers = {x1, x2}
    MaxContents = 3
    Rowids = {1, 2, 3}
    Roots = {w1}
    Names = {"x", "y"}
    PageLimit = 1
    MaxPages = 2
    MaxTime = 1
    Tasks = {x1, x2}
    Prompts = {y1, y2}
    None = None
    Capacity = 2
    MaxRevision = 7
    Faults = {"refused", "unrunnable", "switch", "sync", "duplicate"}
    Writers = {x1, x2}
    Reminders = {y1, y2}
    NoReminder = NoReminder
    MaxChanges = 4
SPECIFICATION ContentionSpec
SYMMETRY ContentionSymmetry
INVARIANTS
    DirectTurnsCorrect
    ServiceCorrect
    FileToolsCorrect
    CatalogCorrect
    WaitingIsKept
PROPERTIES
    NoStaleStep
CHECK_DEADLOCK FALSE
