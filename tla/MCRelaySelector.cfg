\* Every sequence of calls, failures, refreshes, rotates and ticks, in random
\* order and by two sorts.
SPECIFICATION RotationSpec
CONSTANTS
    m1 = m1
    m2 = m2
    m3 = m3
    t1 = t1
    mullvad = mullvad
    tor = tor
    UNDEF = UNDEF
    NULL = NULL
    Hosts <- MCHosts
    Sources <- MCSources
    SourceOf <- MCSourceOf
    SortKeys = {"hostname", "country"}
    Rank <- MCRank
    Inventories <- MCInventories
    Filters <- MCFilters
    Backoffs = {2}
    DefaultBackoff = 2
INVARIANTS
    TypeOK
    CacheCoherent
    RotationCurrent
    NoStarvation
PROPERTY
    PoolSpec
