\* Every interleaving of requests, connects, timers and close events.
SPECIFICATION FairSpec
CONSTANTS
    s1 = s1
    s2 = s2
    s3 = s3
    s4 = s4
    Endpoints = {e1, e2}
    Sockets <- MCSockets
    MaxSize = 1
INVARIANTS
    TypeOK
    NoOrphan
    OneIdlePerEndpoint
PROPERTIES
    TakenIsLeftAlone
    IdleEnds
