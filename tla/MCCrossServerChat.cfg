SPECIFICATION Spec
CONSTANTS
    Servers = {s1, s2}
    Messages = {m1, m2}
    Ports <- ToAll
    Forced = {m2}
    ProxyServers = {s1, s2}
    None = None
    MaxMutes = 0
    MaxFaults = 1
    MaxOrders = 1
SYMMETRY Symmetry
INVARIANTS
    NothingSkipped
    ShownAsTold
PROPERTIES
    ImplementsChannel
CHECK_DEADLOCK FALSE
