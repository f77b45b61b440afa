CONSTANTS
    Request = {r1, r2, r3}
    Pc = {p1}
    Task <- MCTask
    None = None
    CorePoolSize = 1
    MaxPoolSize = 2
    QueueCapacity = 1
    TTL = 1
    MaxTime = 1
    MaxDbFaults = 1
    MaxRestarts = 1
    Earlier = r3
SPECIFICATION MCFairSpec
INVARIANTS
    TypeOK
    AnswerIsTrue
    PoolWithinLimits
PROPERTY
    AcceptedIsForwarded
