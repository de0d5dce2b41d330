SPECIFICATION Spec
CONSTANTS
    t1 = t1
    t2 = t2
    e1 = e1
    e2 = e2
    Usdt = Usdt
    OtherToken = OtherToken
    Deposit = Deposit
    OtherWallet = OtherWallet
    MaxPages = 2
    Accounts <- FourAccounts
    GivenReceipts <- SomeReceipts
    Listings <- SomePages
    Dust = 1
    Tx <- TwoTx
    Amount <- Split
    Endpoints <- TwoEndpoints
    Price = 4
    Scale = 1
    ToleranceNum = 1
    ToleranceDen = 4
    MaxHeight = 1
    MaxForks = 1
    MaxLag = 0
    MaxCancels = 0
INVARIANTS ReceivedIsExact OneClosingEvent LatestRowIsCurrent OneRealReceiptSuffices
PROPERTIES KeepsLedger ConfirmOnlyAgreed
SYMMETRY EndpointSymmetry
