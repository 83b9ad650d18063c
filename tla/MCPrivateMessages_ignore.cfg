SPECIFICATION Spec
CONSTANTS
    s1 = s1  s2 = s2  alice = alice  bob = bob  eve = eve
    Servers = {s1, s2}
    Players = {alice, bob, eve}
    Starts <- MCStarts
    Display <- MCDisplay
    Ignores <- MCIgnores
    Shadowed = {eve}
    Spies = {bob}
    ProxyServers = {}
    Messages = {1, 2}
    Mentioning = {1}
    Replies = {2}
    Writers = {alice, eve}
    Nowhere = Nowhere  Nobody = Nobody  Proxy = Proxy
    TTL = 1
    MaxEvents = 1
INVARIANT IgnoreHolds
CHECK_DEADLOCK FALSE
