SPECIFICATION FairSpec
CONSTANTS
    Pages <- ThePages
    Control = {1, 2}
    Row = {1, 2}
    MaxActs = 2
    DeepPages = {"carriers", "customers", "profiles", "pricelists", "carrier-groups",
                 "CustomerIpsModal", "my/reseller/customers", "my/calls", "cdrs"}
    MaxFailures = 1
    MaxInFlight = 2
INVARIANTS
    TypeOK
    NoTwin
    DisabledByHandler
    
    DetailIsOfItsRow
PROPERTIES
    FlagsEnd
    PollingConverges
\* The bounds on what the user does are reached.
CHECK_DEADLOCK FALSE
