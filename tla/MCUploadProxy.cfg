CONSTANTS
    Addresses = {a1, a2, bad}
    Invalid = {bad}
    Requests = {r1}
    MaxReloads = 3
    NoSink = NoSink
SPECIFICATION FairSpec
INVARIANTS ListFollowsConfig Delivered
PROPERTIES RemovedIsStopped
