CONSTANTS
    Effects = {e1}
    Checks = {}
    Coords = {c1, c2}
    None = None
    Requests = {"start", "follow_up", "cancel"}
    MaxTurns = 2
    MaxToken = 3
    MaxRevision = 40
SPECIFICATION RuntimeSpec
PROPERTIES
    StaleCancelRefused
CHECK_DEADLOCK FALSE
