CONSTANTS
    Tasks = {c1, c2}
    Prompts = {p1}
    None = None
    Capacity = 2
    MaxRevision = 6
    Faults = {"switch"}
SPECIFICATION MailboxSpec
SYMMETRY MailboxSymmetry
INVARIANTS
    PromptsKept
CHECK_DEADLOCK FALSE
