SPECIFICATION Spec
CONSTANTS
    g1 = g1
    g2 = g2
    c1 = c1
    c2 = c2
    Call = {c1, c2}
    Carrier = {g1, g2}
    Gateways <- Spilling
    CpsLimit <- SecondLimited
    MaxWaits = 1
    MaxRestarts = 1
    None = None
CHECK_DEADLOCK FALSE
INVARIANT CpsRespected
