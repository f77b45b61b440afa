CONSTANTS
    Thread = {t1}
    None = None
    TrainWindow = 4
    MinTrainSize = 2
    RetrainInterval = 2
    MaxSamples = 6
    MaxClears = 0
    MaxFaults = 0
SPECIFICATION Spec
INVARIANT
    RetrainedEveryInterval
