\* A file of a directory, uploaded, kept and uploaded again at any time, as a segment
\* or as a thumbnail; a copy takes any time, so it outlives the file's entry, the
\* alive channel and the directory.  Two channels: one stream's may be sent after it
\* was closed, when the next stream's is in use.
CONSTANTS
    Files = {f}
    Dir = dir
    Channels = {c1, c2}
    NoChannel = NoChannel
    ExpireInterval = 2
    KeepDelay = 2
    Lifetime = 3
SPECIFICATION FairSpec
INVARIANTS NoOrphan
PROPERTIES KeptStays PromiseStays EventuallyRemoved
