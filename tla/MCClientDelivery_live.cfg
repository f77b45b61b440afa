CONSTANTS
    MaxSamples = 4
    Payload <- MCPayload
    MaxSize = 2
    MaxBytes = 3
    Persistent = TRUE
    MaxFaults = 0
    RetryPerCycle = 2
    MaxCrashes = 2
    MaxLost = 1
    Poison <- OnePoison
    BadText = BadText
    BadChar = BadChar
    None = None
SPECIFICATION FairSpec
PROPERTIES
    KeepsPromise
    NoStarvation
