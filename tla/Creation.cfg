SPECIFICATION Spec
CONSTANTS
    r1 = r1
    r2 = r2
    r3 = r3
    r4 = r4
    form = form
    b1 = b1
    b2 = b2
    b3 = b3
    Requests <- AllRequests
    Keyless = {form}
    Bodies = {b1, b2, b3}
    Body <- AllBodies
    Invalid = {b3}
    MaxLapses = 2
    Tx = {}
    Amount <- NoAmount
    Scale = 100
    ToleranceNum = 1
    ToleranceDen = 7
    Prices <- SomePrices
    Rates = {0, 1, 33, 97, 100, 103, 250}
INVARIANTS AddressesAreUnique AnswerFitsBody OneInvoicePerLease QuoteIsFloor QuoteIsPayable
SYMMETRY RetrySymmetry
CHECK_DEADLOCK FALSE
