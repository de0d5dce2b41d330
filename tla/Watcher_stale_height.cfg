SPECIFICATION Spec
CONSTANTS
    t1 = t1
    t2 = t2
    e1 = e1
    e2 = e2
    Usdt = Usdt
    OtherToken = OtherToken
    Deposit = Deposit
    OtherWallet = OtherWallet
    MaxPages = 2
    Accounts <- FourAccounts
    GivenReceipts = {}
    Listings = {}
    Dust = 1
    Tx <- TwoTx
    Amount <- Halves
    Endpoints = {}
    Price = 4
    Scale = 1
    ToleranceNum = 1
    ToleranceDen = 4
    MaxHeight = 2
    MaxForks = 2
    MaxLag = 0
    MaxCancels = 0
INVARIANTS PaidOnlyAtSolid
SYMMETRY TxSymmetry
