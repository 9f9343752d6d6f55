\* Two requests at a time, so that they share a stream, a parser, or a
\* temporary file, and one may outlive its stream; durations at the limit of
\* TimeoutAssumption.
CONSTANTS
    Slugs = {s1}
    Origins = {o1, o2}
    NoOrigin = NoOrigin
    StreamTimeout = 4
    StreamExpireInterval = 1
    StreamOriginDuration = 2
    Requests = {r1, r2}
    Slow = {r1}
    Kinds = {"m3u8", "jpg"}
SPECIFICATION FairHandlerSpec
INVARIANTS Outlives ValidatedIsHandled NoPanic WholeFiles
PROPERTIES OriginExclusive KeepsStayLive SilentStreamRemoved
