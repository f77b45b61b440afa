CONSTANTS
    None = None
    Req = {r1}
    Sent <- QuietThenMining
    RuleWindow = 5
    DecayCount = 2
    AiCooldown = 1
    MaxClock = 1
    MaxEvents = 0
    MaxArrivals = 5
    MINING_PROCESSES = {"miner"}
    GAME_RENDER_PROCESSES = {"game"}
    COMPILE_ENCODE_PROCESSES = {"compiler"}
    Whitelist = {"browser"}
    MINING_POOL_IPS = {}
    InfraIps = {"server"}
    MinInbound = 100000
    MinSustained = 2
    Thresholds <- MCThresholds
    MlCap = 5
    MaxDiscount <- MinusFour
    DangerDiscount <- MinusOne
    ContextDiscounts <- MCContextDiscounts
    Scores <- MCScores
    Promotion <- MCPromotion
SPECIFICATION Spec
CHECK_DEADLOCK FALSE
INVARIANTS
    KnownMinerIsHigh
