SPECIFICATION Spec
CONSTANTS
    Effects = {e1, e2}
    None = None
    MaxTurns = 2
    MaxToken = 3
    MaxRevision = 12
SYMMETRY Symmetry
CHECK_DEADLOCK FALSE
INVARIANTS
    TypeOK
    LifecycleAgrees
    StartedWithConsent
    ReconciliationMatchesUnknown
    InFlightIsRecoverable
PROPERTIES
    CommitsAreFenced
    ImplementsEffectLedger
