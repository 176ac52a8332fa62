\* Two handshakes at a time, in chunks cut anywhere.
SPECIFICATION FairSpec
CONSTANTS
    c1 = c1
    c2 = c2
    Clients = {c1, c2}
    Conversations <- MCConversations
INVARIANTS
    TypeOK
    ActiveConnectionsCounted
    TargetAsRequested
PROPERTY
    HandshakeEnds
