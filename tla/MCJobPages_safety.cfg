SPECIFICATION FairSpec
CONSTANTS
    Selection = {1, 2}
    GiveUp = 2
    MaxActs = 4
    MaxFailures = 2
    MaxRestarts = 1
INVARIANTS
    TypeOK
    NoRivals
    CreditedOnce
    AppliesWhatItSaw
PROPERTIES
    WaitsOnlyForTheDead
\* The bounds on what the user does are reached.
CHECK_DEADLOCK FALSE
