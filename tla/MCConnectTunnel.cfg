\* One client and three relays. A handler stops when its sockets are closed.
SPECIFICATION FairSpec
CONSTANTS
    m1 = m1
    m2 = m2
    m3 = m3
    NONE = NONE
    Relays <- MCRelays
INVARIANTS
    TypeOK
    OneBlamedForALeaver
    OneStray
PROPERTIES
    AnswerSpec
    LeaverFreesTunnel
CHECK_DEADLOCK FALSE
