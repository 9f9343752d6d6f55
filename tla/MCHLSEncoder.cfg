CONSTANTS
    Names <- MCNames
    NoName = NoName
    Playlists = {hd}
    Size = 4
    Sources <- MCSources
    MaxLog = 30
    Window = 3
    MaxSegments = 6
    MaxRestarts = 2
    MaxLost = 2
    LossFrom = 3
    MinUploads = 2
    ReuseNames = FALSE
SPECIFICATION EncoderSpec
INVARIANTS StableNumbering TrackedIsListed OnlyNewSegments ListedIsKept
PROPERTIES NeverRewinds
CHECK_DEADLOCK FALSE
