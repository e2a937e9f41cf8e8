CONSTANTS
    Tasks = {c1, c2}
    Prompts = {p1}
    None = None
    Capacity = 2
    MaxRevision = 6
    Faults = {"duplicate"}
SPECIFICATION MailboxSpec
SYMMETRY MailboxSymmetry
INVARIANTS
    EntryHasOwner
CHECK_DEADLOCK FALSE
