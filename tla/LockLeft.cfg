CONSTANTS
    Models = {m1, m2}
    DefaultModel = m1
    MaxPrompts = 1
    MaxSwitches = 1
    MaxRivals = 0
    MaxErrors = 0
SPECIFICATION ControlsSpec
INVARIANTS
    LockHoldsTheSession
CHECK_DEADLOCK FALSE
