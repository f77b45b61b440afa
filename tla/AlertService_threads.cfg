CONSTANTS
    Thread = {t1, t2}
    Pc = {a}
    Verdict = {"OBSERVE", "MINING"}
    None = None
    Cooldown = 2
    MaxTime = 3
    MaxRows = 2
    MaxFaults = 1
    MaxRestarts = 1
SPECIFICATION Spec
INVARIANTS
    TypeOK
    AnomalyJudged
PROPERTY
    SkipHasCause
