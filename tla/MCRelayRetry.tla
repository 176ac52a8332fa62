---------------------------- MODULE MCRelayRetry ----------------------------
(* Two relays of one source, one of them plain, and one of another; and    *)
(* two requests of one session, an HTTP request and a tunnel. The instance *)
(* for a rebinding has a third request, which has come before them, and    *)
(* two relays.                                                             *)
EXTENDS RelayRetry, TLC

CONSTANTS l1, l2, t1, lists, tor, page, socket, early, shop

MCHosts == {l1, l2, t1}
MCSources == {lists, tor}
MCSourceOf == [h \in MCHosts |-> IF h = t1 THEN tor ELSE lists]
MCRank == [hostname |-> l1 :> 1 @@ l2 :> 2 @@ t1 :> 3]
MCPlain == {l2}
MCInventories == {MCHosts, {l2, t1}}
MCFilters == {MCHosts}

MCRequests == {page, socket}
MCKindOf == page :> "http" @@ socket :> "tunnel"
MCKeyOf == page :> shop @@ socket :> shop

MCTwoRelays == {l1, l2}
MCTwoRanks == [hostname |-> l1 :> 1 @@ l2 :> 2]
MCTwoSourceOf == l1 :> lists @@ l2 :> lists
MCThreeRequests == {page, socket, early}
MCThreeKinds == [r \in MCThreeRequests |-> "tunnel"]
MCThreeKeys == [r \in MCThreeRequests |-> shop]
MCTwoOnly == {MCTwoRelays}
=============================================================================
