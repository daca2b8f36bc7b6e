SPECIFICATION FairSpec
CONSTANTS
    m1 = m1
    m2 = m2
    watts = watts
    swr = swr
    Meter <- MCMeter
    Level <- MCLevel
    Other = other
    None = None
    Zero = Zero
    Alias = alias
    AliasOf = watts
    MaxRounds = 2
    MaxEvents = 3
    MaxPackets = 1
    PacketBuf = 1
INVARIANTS
    MapsAgree
    MapFollowsRadio
    ValueOfLevel
PROPERTIES
    AnnouncedBecomesReadable
