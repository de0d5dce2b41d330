SPECIFICATION ConsoleSpec
CONSTANTS
    r1 = r1
    r2 = r2
    a1 = a1
    a2 = a2
    Addresses = {a1, a2}
    GasRuns = {r1, r2}
    Targets = {2}
    Budgets = {2}
    PerAddressCap = 2
    InitialTrx = {1}
    WalletFunds = 3
    Fees = {0, 1}
    MaxItems = 2
    Terminals = {t1, t2}
    NoBlob = NoBlob
    TheFile = TheFile
    NoEntry = NoEntry
    Mangled = Mangled
    Seeds = {s1}
    Passphrases = {p1, p2}
    MaxSeedInits = 2
INVARIANTS SentWithinCaps OverfundedOnlyIfContested ShortOnlyByFees EntryOpensSeed
SYMMETRY GasSymmetry
CHECK_DEADLOCK FALSE
