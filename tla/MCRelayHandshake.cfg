\* Every cut of every answer. A handshake stops when it is over.
SPECIFICATION Spec
CONSTANTS
    Streams <- MCStreams
    MaxHeader = 6
INVARIANTS
    TypeOK
    HeaderFound
    VerdictIsTheRelays
CHECK_DEADLOCK FALSE
