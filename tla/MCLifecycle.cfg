\* The process from its start to its end, where it stops.
SPECIFICATION FairProcessSpec
CONSTANTS
    c1 = c1
    c2 = c2
    c3 = c3
    Peers <- MCPeers
INVARIANTS
    ProcessTypeOK
    ZeroIsClean
PROPERTY ShutdownEnds
CHECK_DEADLOCK FALSE
