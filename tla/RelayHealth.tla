---------------------------- MODULE RelayHealth ----------------------------
(***************************************************************************)
(* What relayrad knows of its relays: the inventory the sources returned,  *)
(* the selection config in force, and the relays that are backing off      *)
(* after a failure (relay-utils.ts and the non-rotating part of            *)
(* relay-selector.ts).                                                     *)
(*                                                                         *)
(* Two abstractions are made here and kept everywhere.                     *)
(*                                                                         *)
(*  - A filter (country, city, hostname, provider, ownership, excluded     *)
(*    countries) is the set of hosts it admits: the rest of the program    *)
(*    only ever asks whether a relay matches.                              *)
(*  - An instant is never stored; what is stored is the time that is left  *)
(*    until it. unhealthyUntil[h] - now is cooling[h], and an entry that   *)
(*    is absent, or whose instant has passed, is 0: isUnhealthy answers    *)
(*    false for both, and deleting an expired entry changes no answer.     *)
(***************************************************************************)
EXTENDS Naturals, FiniteSets

CONSTANTS
    Hosts,        \* every hostname that can occur in an inventory
    Sources,      \* "mullvad", "tor", "nordvpn", "github-lists"
    SourceOf,     \* the source field of each relay
    SortKeys,     \* the deterministic sorts: "hostname", "country", "city"
    Rank,         \* the place of each host under each of them
    Inventories,  \* the relay lists a (re)load can return
    Filters,      \* the sets of hosts a selection config can admit
    Backoffs,     \* the values unhealthyBackoffMs can be given, in ticks
    DefaultBackoff, \* its default of 30_000 ms, in ticks
    UNDEF         \* an optional field that was not given

Sorts == SortKeys \cup {"random"}

ASSUME HostsAssumption ==
    /\ IsFiniteSet(Hosts)
    /\ SourceOf \in [Hosts -> Sources]
    /\ Inventories \subseteq SUBSET Hosts
    /\ Filters \subseteq SUBSET Hosts

ASSUME RankAssumption ==
    /\ "hostname" \in SortKeys
    /\ "random" \notin SortKeys
    /\ Rank \in [SortKeys -> [Hosts -> Nat]]
    /\ \A k \in SortKeys : \A g, h \in Hosts :
           Rank[k][g] = Rank[k][h] => g = h

ASSUME BackoffAssumption ==
    /\ Backoffs \subseteq Nat
    /\ DefaultBackoff \in Backoffs
    /\ UNDEF \notin Backoffs
    /\ UNDEF \notin Sorts

VARIABLES
    relays,    \* the current inventory
    config,    \* the resolved selection config
    cooling    \* time left of each host's backoff, 0 when it is healthy

healthVars == <<relays, config, cooling>>

\* A selection config as the caller gives it, and as it is kept.
PartialConfigs == [admits: Filters, sort: Sorts \cup {UNDEF},
                   backoff: Backoffs \cup {UNDEF}]
Configs == [admits: Filters, sort: Sorts, backoff: Backoffs]

\* Mutant: a field that was not given stays undefined.
NormalizeConfigUndefaulted(c) == c

NormalizeConfig(c) ==
    [admits  |-> c.admits,
     sort    |-> IF c.sort = UNDEF THEN "hostname" ELSE c.sort,
     backoff |-> IF c.backoff = UNDEF THEN DefaultBackoff ELSE c.backoff]

HealthTypeOK ==
    /\ relays \in SUBSET Hosts
    /\ config \in Configs
    /\ cooling \in [Hosts -> Nat]

-----------------------------------------------------------------------------

Matches(h) == h \in config.admits

Matched == {h \in relays : Matches(h)}

IsUnhealthy(h) == cooling[h] > 0

\* The relays a call made now may return.
Servable == {h \in Matched : ~IsUnhealthy(h)}

OfSource(S, s) == {h \in S : SourceOf[h] = s}

SourcesOf(S) == {SourceOf[h] : h \in S}

\* Where h stands in the list S once it is sorted, counting from 0.
Position(h, S) ==
    Cardinality({g \in S : Rank[config.sort][g] < Rank[config.sort][h]})

-----------------------------------------------------------------------------
(* What a selector answers, as a set of sets: undefined is {}, and a relay *)
(* is the singleton of its host. RelaySelector is proved to keep to this.  *)

\* One relay of S, or undefined if and only if there is none.
OneOf(S) == IF S = {} THEN {{}} ELSE {{h} : h \in S}

\* The relay of S that sorts first, or undefined if and only if S is empty.
FirstOf(S) ==
    IF S = {} THEN {{}}
    ELSE {{h} : h \in {g \in S :
             \A k \in S : Rank[config.sort][g] <= Rank[config.sort][k]}}

\* What next can answer. Under a deterministic sort it answers undefined only
\* when no relay at all can serve. In random order it is some source's turn,
\* and it answers for that source alone.
NextAnswers ==
    IF config.sort # "random" \/ Matched = {}
      THEN OneOf(Servable)
      ELSE UNION {OneOf(OfSource(Servable, s)) : s \in SourcesOf(Matched)}

\* What nextFromSource can answer.
SourceAnswers(s) ==
    IF config.sort = "random" THEN OneOf(OfSource(Servable, s))
                              ELSE FirstOf(OfSource(Servable, s))

-----------------------------------------------------------------------------

MarkUnhealthy(h) ==
    /\ cooling' = [cooling EXCEPT ![h] = config.backoff]
    /\ UNCHANGED <<relays, config>>

\* update(nextRelays, nextConfig): the backoffs survive it. A refresh gives no
\* config, and the one in force is kept; /rotate gives every field, and a field
\* that is undefined overwrites the one in force with its default.
UpdateHealth(nextRelays, nextConfig) ==
    /\ relays' = nextRelays
    /\ config' = nextConfig
    /\ UNCHANGED cooling

\* Time passes.
Cooled == [h \in Hosts |-> IF cooling[h] > 0 THEN cooling[h] - 1 ELSE 0]

=============================================================================
