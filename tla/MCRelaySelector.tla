-------------------------- MODULE MCRelaySelector --------------------------
(* Four relays of two sources, so that one source has a cycle of three and *)
(* the other can be wholly on backoff.                                     *)
EXTENDS RelayRotation, TLC

CONSTANTS m1, m2, m3, t1, mullvad, tor

MCHosts == {m1, m2, m3, t1}
MCSources == {mullvad, tor}
MCSourceOf == [h \in MCHosts |-> IF h = t1 THEN tor ELSE mullvad]

\* The sorts disagree about which relay comes first.
MCRank ==
    [hostname |-> m1 :> 1 @@ m2 :> 2 @@ m3 :> 3 @@ t1 :> 4,
     country  |-> m1 :> 2 @@ m2 :> 4 @@ m3 :> 3 @@ t1 :> 1]

\* Two sources, one source, and the nothing a failed refresh can leave.
MCInventories == {MCHosts, {m1, m2}, {}}
MCFilters == {MCHosts, {m2, m3, t1}}
=============================================================================
