SPECIFICATION FairSpec
CONSTANTS
    Servers = {s1, s2}
    Messages = {}
    Ports <- ToAll
    Forced = {}
    ProxyServers = {s1, s2}
    None = None
    MaxMutes = 2
    MaxFaults = 1
    MaxOrders = 0
INVARIANTS
    MuteAgreement
PROPERTIES
    Recovers
CHECK_DEADLOCK FALSE
