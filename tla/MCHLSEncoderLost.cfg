CONSTANTS
    Names <- MCNames
    NoName = NoName
    Playlists = {hd}
    Size = 4
    Sources <- MCSources
    MaxLog = 30
    Window = 3
    MaxSegments = 6
    MaxRestarts = 0
    MaxLost = 1
    LossFrom = 0
    MinUploads = 2
    ReuseNames = FALSE
SPECIFICATION EncoderSpec
INVARIANTS OnlyNewSegments
CHECK_DEADLOCK FALSE
