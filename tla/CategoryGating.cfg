CONSTANTS
    Thread = {t1}
    None = None
    GapReset = 2
    Cap = 4
    ObserveMin = 1
    SuspiciousMin = 2
    ConfirmedMin = 3
    MaxTime = 6
    MaxObs = 4
    MaxRestarts = 1
SPECIFICATION Spec
INVARIANTS
    TypeOK
    SustainedIsObserved
    HighRiskIsEarned
