SPECIFICATION FairSpec
CONSTANTS
    Players = {p1, p2}
    Marks = {Clear, Muted}
    Clear = Clear
    Channels = {Normal, Global}
    Home = Normal
    NoChannel = NoChannel
    Absent = Absent
    MaxEvents = 6
INVARIANTS
    MembershipInStep
    SavedInOrder
    SettingsKept
PROPERTIES
    SavedInTheEnd
CHECK_DEADLOCK FALSE
