CONSTANTS
    Producers = {p1, p2}
    QueueSize = 2
    Lifetimes = {1}
    RetryDelay = 1
    MaxUploads = 3
    MaxReloads = 0
    NoEntry = NoEntry
SPECIFICATION FairSpec
PROPERTIES HandleReturns
