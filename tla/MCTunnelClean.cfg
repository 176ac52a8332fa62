\* Is the answer all that is taken from the stream?
SPECIFICATION Spec
CONSTANTS
    Streams <- MCStreams
    MaxHeader = 6
INVARIANT
    TunnelClean
CHECK_DEADLOCK FALSE
