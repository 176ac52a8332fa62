--------------------------- MODULE RelayRotation ---------------------------
(***************************************************************************)
(* How evenly RelaySelector rotates: a history of how long each relay has  *)
(* been passed over, beside the selector's own steps.                      *)
(***************************************************************************)
EXTENDS RelaySelector

VARIABLE waits   \* for each relay, the calls of next since it could first be
                 \* returned or was last returned

rotationVars == <<vars, waits>>

\* A relay waits while it can serve; whichever call returns it ends the wait.
Waits(h) ==
    IF h \notin Servable' \/ h \in reply'.got THEN 0
    ELSE IF reply'.call = "next" THEN waits[h] + 1
    ELSE waits[h]

RotationInit == Init /\ waits = [h \in Hosts |-> 0]

\* An update restarts the rotation and the waits; nothing waits during a list.
RotationNext ==
    \/ List /\ UNCHANGED waits
    \/ /\ \/ NextRelay
          \/ \E s \in Sources : NextFromSource(s)
          \/ \E h \in Hosts : Mark(h)
          \/ Tick
       /\ waits' = [h \in Hosts |-> Waits(h)]
    \/ /\ \/ \E inventory \in Inventories : Update(inventory, config)
          \/ \E c \in PartialConfigs : Update(relays, NormalizeConfig(c))
       /\ waits' = [h \in Hosts |-> 0]

RotationSpec == RotationInit /\ [][RotationNext]_rotationVars

\* How often next may return something else than h. Under a sort every other
\* matched relay is returned at most once before h. In random order each of the
\* turns of h's source deals at least one relay: what is left of a cycle that h
\* is already out of, then a whole cycle that comes to h last; and between two
\* turns of h's source each other source has one.
Patience(h) ==
    LET siblings == Cardinality(OfSource(Matched, SourceOf[h])) - 1
    IN  IF config.sort = "random"
          THEN Cardinality(SourcesOf(Matched)) * (2 * siblings + 1) - 1
          ELSE Cardinality(Matched) - 1

\* No healthy matching relay is starved, whatever the other relays' failures
\* and recoveries do to the cursors and to the cycles, and however many retries
\* draw from the same cycles (relay-selector.ts, next).
NoStarvation == \A h \in Servable : waits[h] <= Patience(h)

=============================================================================
