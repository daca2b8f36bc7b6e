SPECIFICATION FairSpec
CONSTANTS
    MaxPosts = 1
    MaxClicks = 1
    MaxFaults = 1
    FanLag = FALSE
INVARIANTS
    OneRunner
    ConnectedIsConsistent
PROPERTIES
    ShutdownStops
    ConfigTakesEffect
    DropIsRetried
