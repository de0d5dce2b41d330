SPECIFICATION LiveSpec
CONSTANTS
    server = server
    worker = worker
    halted = halted
    api = api
    form = form
    watcher = watcher
    drain = drain
    prefix = prefix
    address = address
    Processes <- ThreeProcesses
    Server = server
    EnvPaused = {halted}
    Callers <- FourCallers
    ProcessOf <- Places
    Ttl = 1
    ApiRequests = {api}
    FormRequests = {form}
    Loops = {watcher, drain}
    Keys <- TwoKeys
    KeyOf <- RequestKeys
    MaxRequests <- Limits
    Window <- Windows
    SweepInterval = 1
    MaxRestarts = 1
INVARIANTS FlushedIsFresh CacheIsRecent LimitIsExact AbandonedIsSwept
PROPERTIES PauseTakesHold
