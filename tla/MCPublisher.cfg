CONSTANTS
    Clients = {h1, h2}
    Keys = {s1}
    NoSession = NoSession
    h1 = h1
    h2 = h2
    MaxSessions <- MCMaxSessions
    TTL = 3
    Scrapers = 1
SPECIFICATION FairSpec
INVARIANTS SurvivesMisses
PROPERTIES TakenByOwnerOrLoser StaysRegistered GetsUnregistered
