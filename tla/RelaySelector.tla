--------------------------- MODULE RelaySelector ---------------------------
(***************************************************************************)
(* createRelaySelector (relay-selector.ts): the rotation over the matched  *)
(* relays. Under a deterministic sort one cursor walks the sorted list. In *)
(* random order the sources take turns, and each source deals its relays   *)
(* in shuffled cycles.                                                     *)
(*                                                                         *)
(* A shuffle is drawn late: a cycle is the set of relays its cursor has    *)
(* not passed, and a pick chooses which of them comes next and which       *)
(* relays on backoff lay before it. The answers this allows are those of   *)
(* all the permutations Math.random can produce.                           *)
(*                                                                         *)
(* The three structural caches are filled from one another and dropped     *)
(* together, so the first, matchedCache, stands for them.                  *)
(***************************************************************************)
EXTENDS RelayHealth, Sequences

CONSTANT NULL   \* the empty matchedCache

ASSUME NullAssumption == \A S \in SUBSET Hosts : S # NULL

VARIABLES
    cursor,         \* index in the sorted list of the next relay to look at
    sourceOrder,    \* randomSourceOrder; <<>> until a multi-source next
    sourceCursor,   \* how many sources have had their turn in this round
    cycles,         \* for each source, what is left of its cycle
    matchedCache,
    reply           \* the last call and the relays it returned

randomVars == <<sourceOrder, sourceCursor, cycles>>
vars == <<relays, config, cooling, cursor, sourceOrder, sourceCursor, cycles,
          matchedCache, reply>>

Pool == INSTANCE RelayPool WITH
    relays <- relays, config <- config, cooling <- cooling, reply <- reply

\* The matched relays as getMatched, getSorted and getGroupedBySource see them.
Candidates == IF matchedCache = NULL THEN Matched ELSE matchedCache

Healthy(S) == {h \in S : ~IsUnhealthy(h)}

NoCycles == [s \in Sources |-> {}]

\* Every order shuffleValues can put the elements of S in.
Orders(S) == {order \in [1..Cardinality(S) -> S] :
                  \A x \in S : \E i \in DOMAIN order : order[i] = x}

TypeOK ==
    /\ HealthTypeOK
    /\ cursor \in Nat
    /\ sourceOrder \in Seq(Sources)
    /\ sourceCursor \in Nat
    /\ cycles \in [Sources -> SUBSET Hosts]
    /\ matchedCache \in {NULL} \cup SUBSET Hosts
    /\ reply \in Pool!Replies

-----------------------------------------------------------------------------
(* A deterministic sort.                                                   *)

\* How many relays the scan from the cursor passes before it comes to h.
Ahead(h, S) ==
    (Position(h, S) + Cardinality(S) - cursor) % Cardinality(S)

NextSorted ==
    /\ \/ /\ Healthy(Candidates) = {}
          /\ reply' = [call |-> "next", from |-> UNDEF, got |-> {}]
          /\ UNCHANGED cursor
       \/ \E h \in Healthy(Candidates) :
            /\ \A g \in Healthy(Candidates) :
                   Ahead(h, Candidates) <= Ahead(g, Candidates)
            /\ reply' = [call |-> "next", from |-> UNDEF, got |-> {h}]
            /\ cursor' = (Position(h, Candidates) + 1)
                             % Cardinality(Candidates)
    /\ UNCHANGED randomVars

\* nextFromSource always looks from the start of the list.
FirstFromSource(s) ==
    \E got \in FirstOf(Healthy(OfSource(Candidates, s))) :
        reply' = [call |-> "nextFromSource", from |-> s, got |-> got]

-----------------------------------------------------------------------------
(* Random order.                                                           *)

\* Mutant: a cycle with no healthy relay left is not shuffled anew.
DealOnce(s, before, call, from) ==
    LET all  == OfSource(Candidates, s)
        pool == IF before[s] = {} THEN all ELSE before[s]
    IN  \/ \E h \in Healthy(pool), passed \in SUBSET (pool \ Healthy(pool)) :
             /\ reply' = [call |-> call, from |-> from, got |-> {h}]
             /\ cycles' = [before EXCEPT ![s] = pool \ (passed \cup {h})]
        \/ /\ Healthy(pool) = {}
           /\ reply' = [call |-> call, from |-> from, got |-> {}]
           /\ cycles' = [before EXCEPT ![s] = pool]

\* Mutant: each pick shuffles anew.
DealAnew(s, before, call, from) ==
    LET all == OfSource(Candidates, s)
    IN  /\ \/ \E h \in Healthy(all) :
                reply' = [call |-> call, from |-> from, got |-> {h}]
           \/ /\ Healthy(all) = {}
              /\ reply' = [call |-> call, from |-> from, got |-> {}]
        /\ cycles' = [before EXCEPT ![s] = all]

\* nextFromSourceInternal(s), when the cycles it finds are those of before. A
\* cycle with no healthy relay left is shuffled anew, once.
Deal(s, before, call, from) ==
    LET all  == OfSource(Candidates, s)
        due  == IF before[s] = {} THEN all ELSE before[s]
        pool == IF Healthy(due) # {} THEN due ELSE all
    IN  \/ \E h \in Healthy(pool), passed \in SUBSET (pool \ Healthy(pool)) :
             /\ reply' = [call |-> call, from |-> from, got |-> {h}]
             /\ cycles' = [before EXCEPT ![s] = pool \ (passed \cup {h})]
        \/ /\ Healthy(pool) = {}
           /\ reply' = [call |-> call, from |-> from, got |-> {}]
           /\ cycles' = [before EXCEPT ![s] = all]

\* With a single source there are no turns to take.
NextOfOnly(s) ==
    /\ SourcesOf(Candidates) = {s}
    /\ Deal(s, cycles, "next", UNDEF)
    /\ UNCHANGED <<sourceOrder, sourceCursor>>

\* The sources take turns in an order drawn, together with new cycles, by the
\* first call after an update: an update empties the order, so that the test of
\* the generation counter agrees with that of the cursor.
NextTurn ==
    LET sources == SourcesOf(Candidates)
        fresh == sourceCursor >= Len(sourceOrder)
        turn == IF fresh THEN 1 ELSE sourceCursor + 1
    IN  /\ Cardinality(sources) > 1
        /\ \E order \in IF fresh THEN Orders(sources) ELSE {sourceOrder} :
             /\ sourceOrder' = order
             /\ sourceCursor' = turn % Len(order)
             /\ Deal(order[turn], IF fresh THEN NoCycles ELSE cycles,
                     "next", UNDEF)

NextRandom ==
    \/ /\ SourcesOf(Candidates) = {}
       /\ reply' = [call |-> "next", from |-> UNDEF, got |-> {}]
       /\ UNCHANGED randomVars
    \/ \E s \in Sources : NextOfOnly(s)
    \/ NextTurn

-----------------------------------------------------------------------------
(* The selector's operations.                                              *)

List ==
    /\ reply' = [call |-> "list", from |-> UNDEF, got |-> Healthy(Candidates)]
    /\ matchedCache' = Candidates
    /\ UNCHANGED <<healthVars, cursor, randomVars>>

NextRelay ==
    /\ IF config.sort = "random"
         THEN NextRandom /\ UNCHANGED cursor
         ELSE NextSorted
    /\ matchedCache' = Candidates
    /\ UNCHANGED healthVars

NextFromSource(s) ==
    /\ IF config.sort = "random"
         THEN Deal(s, cycles, "nextFromSource", s)
         ELSE FirstFromSource(s) /\ UNCHANGED cycles
    /\ matchedCache' = Candidates
    /\ UNCHANGED <<healthVars, cursor, sourceOrder, sourceCursor>>

Mark(h) ==
    /\ MarkUnhealthy(h)
    /\ reply' = Pool!Silent
    /\ UNCHANGED <<cursor, randomVars, matchedCache>>

\* Mutant: the caches are not invalidated.
UpdateKeepingCache(nextRelays, nextConfig) ==
    /\ UpdateHealth(nextRelays, nextConfig)
    /\ cursor' = 0
    /\ sourceOrder' = <<>>
    /\ sourceCursor' = 0
    /\ cycles' = NoCycles
    /\ reply' = Pool!Silent
    /\ UNCHANGED matchedCache

\* Mutant: the rotation goes on where it was.
UpdateKeepingRotation(nextRelays, nextConfig) ==
    /\ UpdateHealth(nextRelays, nextConfig)
    /\ matchedCache' = NULL
    /\ reply' = Pool!Silent
    /\ UNCHANGED <<cursor, randomVars>>

Update(nextRelays, nextConfig) ==
    /\ UpdateHealth(nextRelays, nextConfig)
    /\ cursor' = 0
    /\ sourceOrder' = <<>>
    /\ sourceCursor' = 0
    /\ cycles' = NoCycles
    /\ matchedCache' = NULL
    /\ reply' = Pool!Silent

Tick ==
    /\ cooling' = Cooled
    /\ reply' = Pool!Silent
    /\ UNCHANGED <<relays, config, cursor, randomVars, matchedCache>>

-----------------------------------------------------------------------------

Init ==
    /\ relays \in Inventories \ {{}}   \* main exits when no relay was loaded
    /\ config \in Configs
    /\ cooling = [h \in Hosts |-> 0]
    /\ cursor = 0
    /\ sourceOrder = <<>>
    /\ sourceCursor = 0
    /\ cycles = NoCycles
    /\ matchedCache = NULL
    /\ reply = Pool!Silent

\* A refresh replaces the inventory, POST /rotate the config.
Next ==
    \/ List
    \/ NextRelay
    \/ \E s \in Sources : NextFromSource(s)
    \/ \E h \in Hosts : Mark(h)
    \/ \E inventory \in Inventories : Update(inventory, config)
    \/ \E c \in PartialConfigs : Update(relays, NormalizeConfig(c))
    \/ Tick

Spec == Init /\ [][Next]_vars

-----------------------------------------------------------------------------
(* Properties.                                                             *)

\* No structural cache outlives the inventory or the config it was built from.
CacheCoherent == matchedCache \in {NULL, Matched}

\* Everything the rotation is in the middle of belongs to the inventory and the
\* config in force: the cursor points into the sorted list, the order of turns
\* is one of exactly the sources that have a matching relay, and no cycle deals
\* a relay that was removed, is filtered out or belongs to another source.
RotationCurrent ==
    /\ cursor = 0 \/ cursor < Cardinality(Matched)
    /\ \/ sourceOrder = <<>> /\ sourceCursor = 0
       \/ sourceOrder \in Orders(SourcesOf(Matched))
            /\ sourceCursor < Len(sourceOrder)
    /\ \A s \in Sources : cycles[s] \subseteq OfSource(Matched, s)

\* The selector is a RelayPool: with cursors, orders, cycles and caches hidden,
\* each of its answers is one a fresh look at the inventory, the config and the
\* backoffs would allow.
PoolSpec == Pool!Spec

=============================================================================
