SPECIFICATION FairSpec
CONSTANTS
    RadioIP <- Radio
    ProxyIP <- Proxy
    ProxyLanIP <- ProxyLan
    ClientIP <- Client
    StatusIPs <- Plain
    Answers <- Replies
    ClientPorts = {11, 12}
    RadioVITA = 4991
    LocalPorts = {21, 22}
    MaxCmds = 2
    MaxStatus = 1
INVARIANTS
    OwnAddressAnswered
    StreamReachesClient
    RadioAddressHidden
PROPERTIES
    RelaysEnd
    HoleReopens
