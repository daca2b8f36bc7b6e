SPECIFICATION FairSpec
CONSTANTS
    MaxPosts = 1
    MaxClicks = 0
    MaxFaults = 1
    FanLag = TRUE
PROPERTIES
    ConfigTakesEffect
