CONSTANTS
    m1 = m1
    m2 = m2
    Clients = {m1}
    Keys = {s1, s2}
    NoSession = NoSession
    MaxSessions <- MCMaxSessions
    Sources = {a}
    NoStream = NoStream
    NoClient = NoClient
    Capacity = 1
    Announced = {m1}
    MaxEvents = 2
    MaxMoves = 1
    Interrupted = {m1}
    MaxBusErrors = 1
SPECIFICATION FairSpec
INVARIANTS TypeOK
PROPERTIES GoneIsStopped GetsTranscoded ShutdownEnds
