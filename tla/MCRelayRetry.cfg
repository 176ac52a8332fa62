\* Two overlapping requests of one session, with failures, refreshes, rotates,
\* clients that leave, and time; backoffs may be 0.
SPECIFICATION FairSpec
CONSTANTS
    l1 = l1
    l2 = l2
    t1 = t1
    lists = lists
    tor = tor
    page = page
    socket = socket
    early = early
    shop = shop
    UNDEF = UNDEF
    NONE = NONE
    Hosts <- MCHosts
    Sources <- MCSources
    SourceOf <- MCSourceOf
    SortKeys = {"hostname"}
    Rank <- MCRank
    Inventories <- MCInventories
    Filters <- MCFilters
    Backoffs = {0, 1}
    DefaultBackoff = 1
    Keys = {shop}
    TTL = 2
    Requests <- MCRequests
    KindOf <- MCKindOf
    Plain <- MCPlain
    KeyOf <- MCKeyOf
    MaxCount = 2
INVARIANTS
    TypeOK
    SingleSource
    StatsBalance
    BindingEarned
PROPERTIES
    GiveUpJustified
    RetriesEnd
