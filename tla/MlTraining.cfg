CONSTANTS
    Thread = {t1, t2}
    None = None
    TrainWindow = 4
    MinTrainSize = 2
    RetrainInterval = 2
    MaxSamples = 7
    MaxClears = 2
    MaxFaults = 1
SPECIFICATION Spec
INVARIANTS
    TypeOK
    ModelIsAWindow
    StaleModelNeedsRace
PROPERTY
    AloneCatchesUp
