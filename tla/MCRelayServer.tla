--------------------------- MODULE MCRelayServer ---------------------------
(* Two sources: one that reports its failures, with two relays that come   *)
(* and go, and the lists, which never report one.                          *)
EXTENDS RelayServer, TLC

CONSTANTS m1, m2, g1, mullvad, lists, r1, r2

MCHosts == {m1, m2, g1}
MCSources == {mullvad, lists}
MCSourceOf == [h \in MCHosts |-> IF h = g1 THEN lists ELSE mullvad]
MCRank == [hostname |-> m1 :> 1 @@ m2 :> 2 @@ g1 :> 3]
MCOneFilter == {MCHosts}
MCOffers == mullvad :> {{}, {m1}, {m1, m2}} @@ lists :> {{}, {g1}}
MCRefreshes == {r1, r2}
MCEnabled == <<mullvad, lists>>
=============================================================================
