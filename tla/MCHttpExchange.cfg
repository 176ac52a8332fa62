\* One request and four relays. A handler stops when it is through.
SPECIFICATION FairSpec
CONSTANTS
    s1 = s1
    s2 = s2
    t1 = t1
    p1 = p1
    NONE = NONE
    Relays <- MCRelays
    KindOf <- MCKindOf
    Sizes <- MCSizes
    Troubles <- MCTroubles
INVARIANTS
    TypeOK
    HealthyBlamed
    BodyKept
PROPERTIES
    AnswerSpec
    AnsweredInTheEnd
CHECK_DEADLOCK FALSE
