SPECIFICATION FairSpec
CONSTANTS
    a = a
    b = b
    None = None
    Clients <- MCClients
    MaxLines = 2
INVARIANTS
    SweepMissesAtMostOne
PROPERTIES
    ShutdownCompletes
    CommandAnswered
CHECK_DEADLOCK FALSE
