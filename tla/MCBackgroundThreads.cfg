SPECIFICATION ThreadsSpec
CONSTANTS
    Players = {a1, a2, u1}
    Admins = {a1, a2}
    Releases = {r1, r2}
    None = None
    NoPlayer = NoPlayer
    MaxChecks = 3
    MaxJoins = 2
    MaxBridges = 2
    MaxTraffic = 2
    MaxMishaps = 1
INVARIANTS
    NoticesBounded
    NobodyMissed
    StragglersOnly
    OnlyTheRaceLeaks
PROPERTIES
    SomeReleaseIsTold
    BridgeSettles
CHECK_DEADLOCK FALSE
