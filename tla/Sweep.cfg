SPECIFICATION Spec
CONSTANTS
    a1 = a1
    a2 = a2
    i1 = i1
    i2 = i2
    r1 = r1
    r2 = r2
    NoHash = NoHash
    Addresses <- TwoAddresses
    Intents <- TwoIntents
    Runs <- TwoRuns
    MaxCredits = 1
    elsewhere = elsewhere
    otherToken = otherToken
    canonical = canonical
    legacy = legacy
    Pin = Pin
    Usdt = Usdt
    MaxFeeLimit = 2
    LiveNames = {canonical, legacy}
    Accounts <- SomeAccounts
    Environments <- SomeEnvironments
    ServerItems <- SomeItems
    RawData <- SomeRawData
INVARIANTS RecordedWasBroadcast VerifiedBeforeSent BroadcastIsComplete OnlyTheIntentGoes
PROPERTIES RecordIsKept
SYMMETRY SweepSymmetry
CHECK_DEADLOCK FALSE
