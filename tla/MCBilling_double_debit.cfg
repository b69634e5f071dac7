SPECIFICATION Spec
CONSTANTS
    w1 = w1
    w2 = w2
    c1 = c1
    c2 = c2
    c3 = c3
    c4 = c4
    c5 = c5
    k1 = k1
    k2 = k2
    Worker = {w1, w2}
    Cdr = {c1, c2, c3, c4, c5}
    Customer = {k1, k2}
    Owner <- MCOwner
    Billable = {c1, c2, c3, c4, c5}
    Answered = {c1, c2, c3, c4, c5}
    Quote <- RateableQuote
    BatchLimit = 3
    LongCallId = {}
    LockWaitTimeouts = FALSE
    Adjustment <- MCAdjustment
    MaxAdjustments <- NoAdjustments
    MaxLosses = 0
    Absent = Absent
    NoQuote = NoQuote
    RateError = RateError
    Nobody = Nobody
SYMMETRY Workers
CHECK_DEADLOCK FALSE
INVARIANT NoDoubleDebit
