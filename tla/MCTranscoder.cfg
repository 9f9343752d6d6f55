CONSTANTS
    m1 = m1
    m2 = m2
    Clients = {m1, m2}
    Keys = {s1}
    NoSession = NoSession
    MaxSessions <- MCMaxSessions
    Sources = {a}
    NoStream = NoStream
    NoClient = NoClient
    Capacity = 2
    Announced = {m1, m2}
    MaxEvents = 2
    MaxMoves = 0
    Interrupted = {m1}
    MaxBusErrors = 0
SPECIFICATION Spec
INVARIANTS UnitIsClaimed ClaimIsServed ViewFollows
PROPERTIES ShutdownIsClean
