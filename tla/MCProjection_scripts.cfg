SPECIFICATION FairSpec
CONSTANTS
    Run = {r1, r2}
    Script <- MCScript
    Crossed = {1}
    MaxEdits = 2
    MaxFailures = 2
    MaxRestarts = 1
INVARIANTS
    TypeOK
    EditsReachKamailio
PROPERTY ReachesKamailio
