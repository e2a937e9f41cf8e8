CONSTANTS
    Texts = {p1, p2}
    NoText = NoText
    MaxSubmissions = 2
    MaxRequests = 1
    MaxInFlight = 1
    TuiFaults = {"timeout", "refused", "rival", "down"}
    Models = {m1, m2}
    DefaultModel = m1
    MaxPrompts = 1
    MaxSwitches = 1
    MaxRivals = 1
    MaxErrors = 0
    Widths = {1, 40, 120}
    Heights = {2, 6, 20}
    Cells = {70}
    Graphemes = {0, 2}
    MaxCardsShown = 1
    MaxText = 4
    MaxScrolls = 1
    Builtins = 9
    CallNames = {c1, c2}
    TailCards = 5
    MaxTurnsShown = 2
    MaxCallsShown = 3
    MaxProgress = 1
    Threads = {t1}
    CallIds = {a, b, c}
    MaxBatch = 2
    MaxReplies = 3
    MaxToolRounds = 2
    SnapshotPage = 1
    Tracked = {f1, f2}
    Skipped = {f3}
    MaxEdits = 3
    MaxSamples = 2
    Budget = 9
    Trigger = 7
    RetainSize = 3
    HeadSize = 1
    TailSize = 1
    ToolSize = 3
    SummarySizes = {1, 2}
    MaxFailures = 2
    TailPage = 4
    SourceSize = 3
    Strategies = {"off", "summarize", "elide"}
    MaxCards = 7
    old = old
    new1 = new1
    new2 = new2
    Openers = {old, new1, new2}
    Supports <- MCSupports
    NamingStep = 2
    MaxOpens = 2
    Imported = {i1}
    Native = {n1}
    MaxTurnsEach = 2
    MaxCardsEach = 1
    HomeLayers <- MCHomeLayers
    WorkLayers <- MCWorkLayers
    BuiltinCap = 9
    DefaultCap = 9
    ConfiguredCap = 8
    BytesPerToken = 2
    Sections <- MCSections
    MaxLayerEdits = 1
    MaxTurns = 1
    MaxPieces = 4
    Caps = {2, 6}
SPECIFICATION ComponentsSpec
INVARIANTS
    TuiSessionCorrect
    TuiControlsCorrect
    TuiScreenCorrect
    TuiTranscriptCorrect
    TerminalIsReturned
    ToolRoundsCorrect
    VerificationCorrect
    HistoryCorrect
    SchemaBootstrapCorrect
    LegacyImportCorrect
    ProviderBindingCorrect
    TextsAreHarmless
PROPERTIES
    NoUnseenDecision
    KeyStaysHome
CHECK_DEADLOCK FALSE
