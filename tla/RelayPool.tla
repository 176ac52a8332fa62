----------------------------- MODULE RelayPool -----------------------------
(***************************************************************************)
(* What a relay selector promises its callers, with none of the cursors,   *)
(* orders, cycles and caches that RelaySelector keeps to deliver it: each  *)
(* answer is about the inventory, the config and the backoffs as they are  *)
(* at the call, whatever was asked before.                                 *)
(*                                                                         *)
(* The last answer is visible in reply until the next event.               *)
(***************************************************************************)
EXTENDS RelayHealth

VARIABLE reply   \* the last call and the relays it returned

poolVars == <<relays, config, cooling, reply>>

\* next and nextFromSource return one relay or undefined, list a set.
Replies == [call : {"none", "list", "next", "nextFromSource"},
            from : Sources \cup {UNDEF}, got : SUBSET Hosts]

Silent == [call |-> "none", from |-> UNDEF, got |-> {}]

PoolTypeOK == HealthTypeOK /\ reply \in Replies

-----------------------------------------------------------------------------

List ==
    /\ reply' = [call |-> "list", from |-> UNDEF, got |-> Servable]
    /\ UNCHANGED healthVars

NextRelay ==
    /\ \E got \in NextAnswers :
           reply' = [call |-> "next", from |-> UNDEF, got |-> got]
    /\ UNCHANGED healthVars

NextFromSource(s) ==
    /\ \E got \in SourceAnswers(s) :
           reply' = [call |-> "nextFromSource", from |-> s, got |-> got]
    /\ UNCHANGED healthVars

Mark(h) == MarkUnhealthy(h) /\ reply' = Silent

Update(nextRelays, nextConfig) ==
    /\ UpdateHealth(nextRelays, nextConfig)
    /\ reply' = Silent

Tick ==
    /\ cooling' = Cooled
    /\ reply' = Silent
    /\ UNCHANGED <<relays, config>>

-----------------------------------------------------------------------------

Init ==
    /\ relays \in Inventories \ {{}}   \* main exits when no relay was loaded
    /\ config \in Configs
    /\ cooling = [h \in Hosts |-> 0]
    /\ reply = Silent

\* A refresh replaces the inventory, POST /rotate the config.
Next ==
    \/ List
    \/ NextRelay
    \/ \E s \in Sources : NextFromSource(s)
    \/ \E h \in Hosts : Mark(h)
    \/ \E inventory \in Inventories : Update(inventory, config)
    \/ \E c \in PartialConfigs : Update(relays, NormalizeConfig(c))
    \/ Tick

Spec == Init /\ [][Next]_poolVars

=============================================================================
