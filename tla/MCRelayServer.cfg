\* Overlapping refreshes, rotates and lists, and whether the inventory settles
\* once the sources do.
SPECIFICATION FairSpec
CONSTANTS
    m1 = m1
    m2 = m2
    g1 = g1
    r1 = r1
    r2 = r2
    mullvad = mullvad
    lists = lists
    UNDEF = UNDEF
    Hosts <- MCHosts
    Sources <- MCSources
    SourceOf <- MCSourceOf
    SortKeys = {"hostname"}
    Rank <- MCRank
    Inventories = {}
    Filters <- MCOneFilter
    Backoffs = {1}
    DefaultBackoff = 1
    Enabled <- MCEnabled
    Throwing = {mullvad}
    Offers <- MCOffers
    Refreshes <- MCRefreshes
    MaxList = 2
INVARIANTS
    TypeOK
    ListsCurrent
    NeverEmptied
PROPERTY
    InventoryConverges
