CONSTANTS
    None = None
    Parts = {"window"}
    Payload = {p1, p2, p3}
    MaxSize = 2
    MaxBytes = 3
    Persistent = TRUE
    MaxFaults = 2
    BadText = BadText
    BadChar = BadChar
    MaxDropped = 2
    MaxSkipped = 2
    MaxCalls = 3
    Unreadable = Unreadable
    Reading <- MCReading
    Moment <- MCMoment
    SettingsFound <- MCSettingsFound
    Environment <- MCEnvironment
    DefaultSettings <- MCDefaultSettings
    CAP = 2
    TOP_N = 2
    MinWindow = 2
    DWORD = 8
    MaxCycles = 7
    MaxBoots = 2
    RegPc = {"p1", "p2"}
    Tool = {t1, t2}
    Batch <- MCBatch
    Output = {"keys", "more"}
    Pepper = {"salt", "none"}
    ServerPepper = "salt"
    Pc0 <- MCPc0
    RETENTION_DAYS = 1
    MaxTools = 2
    MaxDays = 1
    WindowReq = {w1, w2}
    WindowSample <- MCWindowSample
    MinuteTicks = 2
    AGGREGATE_WINDOW_MAX = 2
    Patterns <- MCPatterns
    MaxTicks = 2
    MaxSamples = 3
    Junk = Junk
    Unusable = Unusable
    PolicyThread = {y1, y2}
    PolicyDocs <- MCPolicyDocs
    AllowDocs <- MCAllowDocs
    GoodDocs <- MCGoodDocs
    Tokens = {"right", "wrong"}
    AdminToken = "right"
    MaxEdits = 1
    MaxGets = 2
    MaxReloads = 2
    Pc = {"p1", "p2", "p3", "p4"}
    FleetReq = {q1, q2}
    Clearer = {c1}
    StoreSlot = "class"
    Report <- MCReport
    Distance <- MCDistance
    NearDistance = 500
    Outcome = {"NORMAL"}
    Latest0 <- MCLatest0
    Store0 <- MCStore0
    FreshFor = 0
    MaxSegments = 3
    MaxReports = 2
    MaxClears = 1
    MaxNow = 1
SPECIFICATION PartsSpec
CHECK_DEADLOCK FALSE
INVARIANT PatternsLastMinutes
