CONSTANTS
    Effects = {e1}
    Checks = {}
    Coords = {c1, c2}
    None = None
    Requests = {"start", "append", "allow", "deny", "cancel"}
    MaxTurns = 1
    MaxToken = 2
    MaxRevision = 40
    Tasks = {t1, t2, t3}
    Prompts = {p1, p2}
    Capacity = 1
    MaxMailRevision = 6
    Faults = {}
SPECIFICATION LiveSpec
INVARIANTS
    MailboxIsCorrect
PROPERTIES
    SessionComesToRest
    PromptsRunInTheEnd
CHECK_DEADLOCK FALSE
