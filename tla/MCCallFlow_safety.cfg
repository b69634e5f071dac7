SPECIFICATION Spec
CONSTANTS
    g1 = g1
    g2 = g2
    c1 = c1
    c2 = c2
    Call = {c1, c2}
    Carrier = {g1, g2}
    Gateways <- SharedGroup
    CpsLimit <- BothLimited
    MaxWaits = 1
    MaxRestarts = 1
    None = None
CHECK_DEADLOCK FALSE
INVARIANTS
    TypeOK
    GateRespected
    MediaFreed
    RecordedOnceUntilRestart
    CdrNamesItsCarrier
    HangupCauseIsTrue
    AnsweredIsRecorded
PROPERTY NoCarrierAfterCancel
