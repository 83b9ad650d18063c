SPECIFICATION Spec
CONSTANTS
    p1 = p1  p2 = p2  normal = normal  staff = staff  whisper = whisper  red = red
    Players = {p1, p2}
    Ops = {p1}
    Channels = {normal, staff, whisper}
    Normal = normal
    Restricted = {staff}
    Configurations <- MCConfigurations
    Lengths = {1}
    Colours = {red}
    NoChannel = NoChannel  NoColour = NoColour  NoSession = NoSession  NoRow = NoRow
    MaxTime = 2
    MaxOrders = 2
    MaxFaults = 1
INVARIANTS
    Restored
    ReachesThoseAllowed
