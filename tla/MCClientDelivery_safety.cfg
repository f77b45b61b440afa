CONSTANTS
    MaxSamples = 4
    Payload <- MCPayload
    MaxSize = 3
    MaxBytes = 2
    Persistent = TRUE
    MaxFaults = 1
    RetryPerCycle = 2
    MaxCrashes = 2
    MaxLost = 1
    Poison <- NoPoison
    BadText = BadText
    BadChar = BadChar
    None = None
SPECIFICATION Spec
INVARIANTS
    TypeOK
    LossPerCrash
    WaitingIsUnsettled
    DuplicateNeedsLostReply
    NoLossWhileAlive
