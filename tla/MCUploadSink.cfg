CONSTANTS
    Producers = {p1, p2}
    QueueSize = 3
    Lifetimes = {1}
    RetryDelay = 1
    MaxUploads = 2
    MaxReloads = 1
    NoEntry = NoEntry
SPECIFICATION FairSpec
INVARIANTS Accounted
PROPERTIES QueueDrains ImplementsChannel
