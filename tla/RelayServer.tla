---------------------------- MODULE RelayServer ----------------------------
(***************************************************************************)
(* createServer (server.ts) with the routes that read and change what it   *)
(* keeps (routes.ts), the loading of the sources behind a refresh          *)
(* (startup.ts), and the two runtimes that main (index.ts) builds from the *)
(* first inventory: that of the HTTP listener and that of the SOCKS5 one.  *)
(*                                                                         *)
(* A refresh loads the enabled sources one after the other, and between    *)
(* two of them anything else may happen, another refresh included: POST    *)
(* /relays/refresh and the timer start theirs without looking for one that *)
(* is under way. The last source's answer and the change of inventory are  *)
(* one step. So is POST /rotate, once its body is read.                    *)
(*                                                                         *)
(* The server's array, the handle's relayByHostname and the selector's     *)
(* relays are assigned in that one step and are one variable here.         *)
(***************************************************************************)
EXTENDS RelayHealth, Sequences, Functions

CONSTANTS
    Enabled,    \* the enabled sources, in the order of their descriptors
    Throwing,   \* the sources whose load throws when it has no relay
    Offers,     \* the sets of relays each source can have
    Refreshes,  \* as many names as refreshes can overlap
    MaxList     \* the capacity of relayListCache

ASSUME ServerAssumption ==
    /\ Enabled \in Seq(Sources) /\ Enabled # <<>>
    /\ Throwing \subseteq Sources
    /\ Offers \in [Sources -> SUBSET SUBSET Hosts]
    /\ \A s \in Sources : \A S \in Offers[s] : OfSource(S, s) = S
    /\ MaxList \in Nat \ {0}

VARIABLES
    upstream,      \* what each source would answer now, {} for a failure
    loading,       \* the descriptor each refresh waits for, 0 when there is none
    gathered,      \* the relays it has collected
    errors,        \* whether one of its loads threw
    relayListCache,
    socks5Relays   \* the inventory of the SOCKS5 listener's runtime

refreshVars == <<loading, gathered, errors>>
vars == <<relays, config, cooling, upstream, loading, gathered, errors,
          relayListCache, socks5Relays>>

Upstreams == {u \in [Sources -> SUBSET Hosts] :
                  \A s \in Sources : u[s] \in Offers[s]}

\* What loadRelaySources returns when the sources answer u.
Offered(u) == UNION {u[s] : s \in Range(Enabled)}

\* relayFilterCacheKey. It leaves out unhealthyBackoffMs, which no list shows.
ListKey(c) == [admits |-> c.admits, sort |-> c.sort]
ListKeys == [admits: Filters, sort: Sorts \cup {UNDEF}]

TypeOK ==
    /\ HealthTypeOK
    /\ upstream \in Upstreams
    /\ loading \in [Refreshes -> 0..Len(Enabled)]
    /\ gathered \in [Refreshes -> SUBSET Hosts]
    /\ errors \in [Refreshes -> BOOLEAN]
    /\ relayListCache \in Seq([key: ListKeys, list: SUBSET Hosts])
    /\ socks5Relays \in SUBSET Hosts

-----------------------------------------------------------------------------
(* GET /relays and POST /rotate.                                           *)

\* A fresh selector knows of no failure: relays on backoff are listed too.
Listed(key) ==
    [key |-> key, list |-> {h \in relays : h \in key.admits}]

Cached(key) == \E i \in DOMAIN relayListCache : relayListCache[i].key = key

\* listRelays, when the filters are not cached: the oldest entry makes room once
\* the cache is over its capacity.
Cache(entries, key) ==
    LET longer == Append(entries, Listed(key))
    IN  IF Len(longer) > MaxList THEN Tail(longer) ELSE longer

GetRelays(key) ==
    /\ relayListCache' = IF Cached(key) THEN relayListCache
                                        ELSE Cache(relayListCache, key)
    /\ UNCHANGED <<healthVars, upstream, refreshVars, socks5Relays>>

\* The answer holds a preview of the list, which fills the emptied cache again.
Rotate(c) ==
    /\ UpdateHealth(relays, NormalizeConfig(c))
    /\ relayListCache' = Cache(<<>>, ListKey(config'))
    /\ UNCHANGED <<upstream, refreshVars, socks5Relays>>

-----------------------------------------------------------------------------
(* Refreshes.                                                              *)

\* POST /relays/refresh, or the timer.
StartRefresh(f) ==
    /\ loading[f] = 0
    /\ loading' = [loading EXCEPT ![f] = 1]
    /\ UNCHANGED <<healthVars, upstream, gathered, errors, relayListCache,
                   socks5Relays>>

\* tryLoadSource: what a refresh has once the source it waits for has answered,
\* and whether that source or an earlier one threw.
Gathered(f) == gathered[f] \cup upstream[Enabled[loading[f]]]

\* Mutant: only the last source's error is remembered.
FailedLast(f) ==
    LET s == Enabled[loading[f]]
    IN  s \in Throwing /\ upstream[s] = {}

Failed(f) ==
    LET s == Enabled[loading[f]]
    IN  errors[f] \/ (s \in Throwing /\ upstream[s] = {})

LoadSource(f) ==
    /\ loading[f] \in 1..(Len(Enabled) - 1)
    /\ loading' = [loading EXCEPT ![f] = @ + 1]
    /\ gathered' = [gathered EXCEPT ![f] = Gathered(f)]
    /\ errors' = [errors EXCEPT ![f] = Failed(f)]
    /\ UNCHANGED <<healthVars, upstream, relayListCache, socks5Relays>>

\* Mutant: the cached lists survive the refresh.
FinishRefreshUncleared(f) ==
    /\ loading[f] = Len(Enabled)
    /\ IF Failed(f) /\ Gathered(f) = {}
         THEN UNCHANGED healthVars
         ELSE UpdateHealth(Gathered(f), config)
    /\ loading' = [loading EXCEPT ![f] = 0]
    /\ gathered' = [gathered EXCEPT ![f] = {}]
    /\ errors' = [errors EXCEPT ![f] = FALSE]
    /\ UNCHANGED <<upstream, relayListCache, socks5Relays>>

\* Mutant: the relays that were loaded are added to those there are.
FinishRefreshMerging(f) ==
    /\ loading[f] = Len(Enabled)
    /\ UpdateHealth(relays \cup Gathered(f), config)
    /\ relayListCache' = <<>>
    /\ loading' = [loading EXCEPT ![f] = 0]
    /\ gathered' = [gathered EXCEPT ![f] = {}]
    /\ errors' = [errors EXCEPT ![f] = FALSE]
    /\ UNCHANGED <<upstream, socks5Relays>>

\* The inventory is kept only when every relay is missing for an error.
FinishRefresh(f) ==
    /\ loading[f] = Len(Enabled)
    /\ IF Failed(f) /\ Gathered(f) = {}
         THEN UNCHANGED <<healthVars, relayListCache>>
         ELSE UpdateHealth(Gathered(f), config) /\ relayListCache' = <<>>
    /\ loading' = [loading EXCEPT ![f] = 0]
    /\ gathered' = [gathered EXCEPT ![f] = {}]
    /\ errors' = [errors EXCEPT ![f] = FALSE]
    /\ UNCHANGED <<upstream, socks5Relays>>

\* A source has other relays than before, or fails, or recovers.
SourceChanges(s) ==
    /\ \E S \in Offers[s] \ {upstream[s]} :
           upstream' = [upstream EXCEPT ![s] = S]
    /\ UNCHANGED <<healthVars, refreshVars, relayListCache, socks5Relays>>

-----------------------------------------------------------------------------

\* main: both listeners start from one load, and not without a relay. The config
\* is RUNTIME_DEFAULT_CONFIG.
Init ==
    /\ upstream \in Upstreams
    /\ \E u \in Upstreams : relays = Offered(u) /\ relays # {}
    /\ config \in [admits: {f \in Filters : Hosts \subseteq f},
                   sort: {"random"}, backoff: {DefaultBackoff}]
    /\ cooling = [h \in Hosts |-> 0]
    /\ loading = [f \in Refreshes |-> 0]
    /\ gathered = [f \in Refreshes |-> {}]
    /\ errors = [f \in Refreshes |-> FALSE]
    /\ relayListCache = <<>>
    /\ socks5Relays = relays

Next ==
    \/ \E key \in ListKeys : GetRelays(key)
    \/ \E c \in PartialConfigs : Rotate(c)
    \/ \E f \in Refreshes : StartRefresh(f) \/ LoadSource(f) \/ FinishRefresh(f)
    \/ \E s \in Sources : SourceChanges(s)

Spec == Init /\ [][Next]_vars

\* The interval timer starts refreshes for ever, and each source's load has a
\* timeout.
Fairness ==
    /\ WF_vars(\E f \in Refreshes : StartRefresh(f))
    /\ \A f \in Refreshes : WF_vars(LoadSource(f) \/ FinishRefresh(f))

FairSpec == Spec /\ Fairness

-----------------------------------------------------------------------------
(* Properties.                                                             *)

\* A list that GET /relays would answer from the cache is the one it would
\* compute from the inventory in force, however a refresh, a rotate and earlier
\* GETs interleave (server.ts, listRelays, updateConfig and refresh); and the
\* cache holds one list for each key, and no more than its capacity.
ListsCurrent ==
    /\ \A i \in DOMAIN relayListCache :
           relayListCache[i] = Listed(relayListCache[i].key)
    /\ \A i, j \in DOMAIN relayListCache :
           relayListCache[i].key = relayListCache[j].key => i = j
    /\ Len(relayListCache) <= MaxList

\* With a source that reports its failures, the server is never left without
\* relays, whichever of the sources fail in whichever of the overlapping loads
\* (startup.ts, loadRelaySources).
NeverEmptied == Range(Enabled) \cap Throwing # {} => relays # {}

\* Once the sources stop changing, the inventory comes to be theirs and stays
\* so, though a refresh that began earlier may overwrite the result of a later
\* one; only when they have nothing at all is the last inventory kept.
InventoryConverges ==
    \A u \in Upstreams :
        <>[](upstream = u) => <>[](relays = Offered(u) \/ Offered(u) = {})

=============================================================================
