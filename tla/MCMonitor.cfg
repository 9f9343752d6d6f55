CONSTANTS
    Slugs = {s1}
    Machines = {m1}
    Values = {v, bad}
    Garbage = {bad}
    NoValue = NoValue
    Conns = {c1, c2}
    NoMessage = NoMessage
    MaxChanges = 2
    MaxUnread = 1
SPECIFICATION FairSpec
INVARIANTS NoGap
PROPERTIES ViewsFollow SettingsFollow
CHECK_DEADLOCK FALSE
