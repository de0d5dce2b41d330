SPECIFICATION LiveSpec
CONSTANTS
    d1 = d1
    d2 = d2
    w1 = w1
    w2 = w2
    Deliveries <- OneRow
    Inactive <- NoRow
    Workers <- TwoWorkers
    BatchSize = 2
    MaxAttempts = 2
    MaxClaims = 3
    MaxReplays = 0
    MaxRedirects = 1
    Addresses = {}
    Chains = {}
PROPERTIES FailedIsRetried
CHECK_DEADLOCK FALSE
