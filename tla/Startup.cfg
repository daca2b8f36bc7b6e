SPECIFICATION Spec
CONSTANTS
    Lists <- Lists_
    NBatches = 3
    Files <- Files_
    CommandLines <- CommandLines_
    Answers <- Answers_
    LocalAddrs = {"10.0.0.9", "100.64.0.9"}
    Route <- Route_
    Split <- Split_
    UDPPorts = {"60000"}
    Posts <- Posts_
    NRuns = 2
    RadioPackets <- RadioPackets_
    FarPackets <- FarPackets_
    FlexyLAN = "10.0.0.9"
    FlexyTailnet = "100.64.0.9"
    FarLAN = "10.9.9.9"
    AllowFrom = {"100.64.0.9"}
    NServed = 1
    TTL = 2
INVARIANTS
    TypeOK
    AdvertisedIsServed
    NoEcho
PROPERTIES
    SetupTakesEffect
    WizardKeepsTheRest
    LatestListShown
    PeerIsReached
CHECK_DEADLOCK FALSE
