CONSTANTS
    Effects = {e1, v1}
    Checks = {v1}
    Coords = {c1, c2}
    None = None
    Requests = {"start", "follow_up", "switch", "allow",
                "input", "cancel", "reconcile"}
    MaxTurns = 2
    MaxToken = 2
    MaxRevision = 40
SPECIFICATION RuntimeSpec
SYMMETRY CoordSymmetry
INVARIANTS
    EffectsRunOnce
    LedgerIsTruthful
PROPERTIES
    ImplementsStore
CHECK_DEADLOCK FALSE
