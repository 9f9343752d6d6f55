CONSTANTS
    Users = {u1}
    StreamSlugs = {s1}
    Transports = {hls}
    Names = {hd, sd, en}
    Audio = {en}
    Masters = {{hd, sd, en}, {hd}}
    SlidingWindow = 1
    MinSegments = 1
    StreamTimeout = 1
    TickInterval = 1
    CountInterval = 0
    NoStream = NoStream
    NoLine = NoLine
    NoPlaylist = NoPlaylist
    Started = Started
    MaxSegments = 3
    MaxFetches = 2
    MaxRewrites = 1
SPECIFICATION FairReceiverSpec
INVARIANTS ReceiverTypeOK
PROPERTIES CountIsExact QualitiesFollow
