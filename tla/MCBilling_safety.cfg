SPECIFICATION FairSpec
CONSTANTS
    w1 = w1
    w2 = w2
    c1 = c1
    c2 = c2
    c3 = c3
    c4 = c4
    c5 = c5
    k1 = k1
    k2 = k2
    Worker = {w1, w2}
    Cdr = {c1, c2, c3}
    Customer = {k1, k2}
    Owner <- MCOwner
    Billable = {c1, c2, c3}
    Answered = {c1, c2, c3}
    Quote <- MCQuote
    BatchLimit = 3
    LongCallId = {c3}
    LockWaitTimeouts = TRUE
    Adjustment <- MCAdjustment
    MaxAdjustments <- MCMaxAdjustments
    MaxLosses = 1
    Absent = Absent
    NoQuote = NoQuote
    RateError = RateError
    Nobody = Nobody
CHECK_DEADLOCK FALSE
INVARIANTS
    TypeOK
    LedgerExplainsBalance
    PricedIsDebited
    NoDoubleDebitWithoutVictims
PROPERTIES
    PricesAreFinal
    AtomicSpec
PROPERTY RateableIsRated
