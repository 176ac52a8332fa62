\* Can one relay's failure unbind a session from another relay?
SPECIFICATION Spec
CONSTANTS
    l1 = l1
    l2 = l2
    t1 = t1
    lists = lists
    tor = tor
    page = page
    socket = socket
    early = early
    shop = shop
    UNDEF = UNDEF
    NONE = NONE
    Hosts <- MCTwoRelays
    Sources <- MCSources
    SourceOf <- MCTwoSourceOf
    SortKeys = {"hostname"}
    Rank <- MCTwoRanks
    Inventories <- MCTwoOnly
    Filters <- MCTwoOnly
    Backoffs = {1}
    DefaultBackoff = 1
    Keys = {shop}
    TTL = 2
    Requests <- MCThreeRequests
    KindOf <- MCThreeKinds
    Plain <- MCPlain
    KeyOf <- MCThreeKeys
    MaxCount = 3
PROPERTY
    RebindingKept
