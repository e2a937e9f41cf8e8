CONSTANTS
    Sessions = {s1, s2}
    Workspaces = {w1, w2}
    s1 = s1
    s2 = s2
    w1 = w1
    w2 = w2
    HomeOf <- MCHomeOf
    Watched = s1
    EngineCapacity = 2
    StreamCapacity = 1
    MaxUnsent = 1
    EventFaults = {"down", "sync"}
    Texts = {p1, p2}
    NoText = NoText
    MaxSubmissions = 2
    MaxRequests = 1
    MaxInFlight = 1
    TuiFaults = {"closed", "refused", "rival"}
    ServeSlots = {v1, v2}
    v1 = v1
    v2 = v2
    PortOf <- MCPortOf
    FreePorts = {7, 8}
    RemotePort = 7
    MaxMints = 2
    Models = {m1, m2}
    DefaultModel = m1
    MaxPrompts = 1
    MaxSwitches = 1
    MaxRivals = 0
    MaxErrors = 0
    Leader = l
    Forks = {d, e}
    TermImmune = {l, d}
    Foreign = {e}
    MaxAttempts = 3
    Deadline = 4
    ClientTimeout = 3
    BasePause = 1
    MaxPause = 2
    RetryAfters = {0, 3}
    Streaming = TRUE
    MaxCalls = 2
    Streams <- MCStreams
    NoId = NoId
    text1 = text1
    text2 = text2
    args1 = args1
    args2 = args2
    call1 = call1
    call2 = call2
    Drainers = {d1, d2}
    None = None
    MaxSeq = 4
    MaxCrashes = 2
    MaxRecords = 2
    Oversized = {2}
    d1 = d1
    d2 = d2
SPECIFICATION ProgressSpec
INVARIANTS
    EventStreamCorrect
    ServerProcessCorrect
    ProcessSupervisorCorrect
    ProviderClientCorrect
    ConversationLogCorrect
PROPERTIES
    DurableStays
    EveryWaitEnds
CHECK_DEADLOCK FALSE
