SPECIFICATION LiveSpec
CONSTANTS
    d1 = d1
    d2 = d2
    w1 = w1
    w2 = w2
    Deliveries <- TwoRows
    Inactive <- InactiveRow
    Workers <- TwoWorkers
    BatchSize = 2
    MaxAttempts = 2
    MaxClaims = 3
    MaxReplays = 1
    MaxRedirects = 1
    Addresses <- EdgeAddresses
    Chains <- SomeChains
INVARIANTS DeliveredWasAcknowledged OneSenderPerLease NoDeniedIsContacted
PROPERTIES DeliveredIsFinal PendingIsSettled
CHECK_DEADLOCK FALSE
