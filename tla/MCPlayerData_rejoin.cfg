SPECIFICATION Spec
CONSTANTS
    Players = {p1}
    Marks = {Clear, Muted}
    Clear = Clear
    Channels = {Normal, Global}
    Home = Normal
    NoChannel = NoChannel
    Absent = Absent
    MaxEvents = 6
INVARIANT
    SettingsPersist
CHECK_DEADLOCK FALSE
