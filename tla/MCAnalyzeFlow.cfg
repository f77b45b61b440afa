CONSTANTS
    None = None
    Req = {r1, r2}
    Sent <- MCSent
    RuleWindow = 2
    DecayCount = 2
    AiCooldown = 1
    MaxClock = 1
    MaxEvents = 1
    MaxArrivals = 3
    MINING_PROCESSES = {"miner"}
    GAME_RENDER_PROCESSES = {"game"}
    COMPILE_ENCODE_PROCESSES = {"compiler"}
    Whitelist = {"browser"}
    MINING_POOL_IPS = {}
    InfraIps = {"server"}
    MinInbound = 100000
    MinSustained = 2
    Thresholds <- MCThresholds
    MlCap = 5
    MaxDiscount <- MinusFour
    DangerDiscount <- MinusOne
    ContextDiscounts <- MCContextDiscounts
    Scores <- MCScores
    Promotion <- MCPromotion
SYMMETRY Threads
SPECIFICATION Spec
CHECK_DEADLOCK FALSE
INVARIANTS
    FlowTypeOK
    AlarmHasOwnEvidence
    NetworkAloneNeverAlarms
    OwnScoreCounts
    FailuresHaveCauses
    CallsRiseWithinCooldown
    JudgmentCoversAnswer
