------------------------ MODULE RelaySelectorProofs ------------------------
(***************************************************************************)
(* Proofs about RelaySelector, for every inventory, filter, ranking and    *)
(* backoff: its types, the coherence of its caches and of its rotation,    *)
(* that it implements RelayPool, and how long it can pass a relay over.    *)
(***************************************************************************)
EXTENDS RelayRotation, FiniteSetTheorems, SequenceTheorems, TLAPS

\* The inductive invariant: the refinement reads the caches, and the caches are
\* only of use when they hold what a fresh filter would.
IInv == TypeOK /\ CacheCoherent /\ RotationCurrent

-----------------------------------------------------------------------------
(* Facts about the operators the steps are made of.                        *)

LEMMA SubsetsOfHosts ==
    ASSUME NEW S \in SUBSET Hosts
    PROVE  /\ IsFiniteSet(S)
           /\ Cardinality(S) \in Nat
           /\ S # {} => Cardinality(S) > 0
  BY FS_Subset, FS_CardinalityType, FS_EmptySet, HostsAssumption

LEMMA MatchedHosts ==
    ASSUME HealthTypeOK
    PROVE  Matched \in SUBSET Hosts /\ Servable \in SUBSET Hosts
  BY DEF HealthTypeOK, Matched, Servable

LEMMA OneOfHosts ==
    ASSUME NEW S \in SUBSET Hosts
    PROVE  /\ OneOf(S) \subseteq SUBSET Hosts
           /\ FirstOf(S) \subseteq SUBSET Hosts
  BY DEF OneOf, FirstOf

LEMMA NormalizedType ==
    ASSUME NEW c \in PartialConfigs
    PROVE  NormalizeConfig(c) \in Configs
  BY BackoffAssumption, RankAssumption
     DEF PartialConfigs, NormalizeConfig, Configs, Sorts

LEMMA CandidatesAreMatched ==
    ASSUME CacheCoherent
    PROVE  Candidates = Matched /\ Healthy(Candidates) = Servable
  BY DEF CacheCoherent, Candidates, Healthy, Servable

LEMMA PositionType ==
    ASSUME NEW S \in SUBSET Hosts, NEW h
    PROVE  Position(h, S) \in Nat
  <1> DEFINE below == {g \in S : Rank[config.sort][g] < Rank[config.sort][h]}
  <1>1. below \in SUBSET Hosts
    OBVIOUS
  <1>2. QED
    BY <1>1, SubsetsOfHosts DEF Position

LEMMA SourcesOfHosts ==
    ASSUME NEW S \in SUBSET Hosts
    PROVE  /\ SourcesOf(S) \in SUBSET Sources
           /\ IsFiniteSet(SourcesOf(S))
           /\ Cardinality(SourcesOf(S)) \in Nat
  <1>1. SourcesOf(S) \in SUBSET Sources
    BY HostsAssumption DEF SourcesOf
  <1>2. IsFiniteSet(S)
    BY SubsetsOfHosts
  <1>3. IsFiniteSet(SourcesOf(S))
    <2> DEFINE f == [h \in S |-> SourceOf[h]]
    <2>1. f \in Surjection(S, SourcesOf(S))
      BY DEF Surjection, SourcesOf
    <2>2. QED
      BY <1>2, <2>1, FS_Surjection
  <1>4. QED
    BY <1>1, <1>3, FS_CardinalityType

\* An order of turns is a sequence of sources, one place for each.
LEMMA OrderIsSeq ==
    ASSUME NEW S \in SUBSET Hosts, NEW order \in Orders(SourcesOf(S))
    PROVE  /\ order \in Seq(Sources)
           /\ Len(order) = Cardinality(SourcesOf(S))
  <1> DEFINE n == Cardinality(SourcesOf(S))
  <1>1. n \in Nat /\ SourcesOf(S) \in SUBSET Sources
    BY SourcesOfHosts
  <1>2. order \in [1..n -> SourcesOf(S)]
    BY DEF Orders
  <1>3. order \in [1..n -> Sources]
    BY <1>1, <1>2
  <1>4. order \in Seq(Sources)
    BY <1>1, <1>3, SeqDef
  <1>5. Len(order) = n
    BY <1>1, <1>3, <1>4, LenProperties
  <1> QED
    BY <1>4, <1>5

\* What a deal returns and what it leaves belong to the source that dealt; and
\* it returns nothing only when that source has nothing to serve.
LEMMA DealIsOfSource ==
    ASSUME IInv, NEW s \in Sources, NEW call, NEW from,
           NEW before \in [Sources -> SUBSET Hosts],
           \A r \in Sources : before[r] \subseteq OfSource(Matched, r),
           Deal(s, before, call, from)
    PROVE  /\ \E got \in OneOf(OfSource(Servable, s)) :
                  reply' = [call |-> call, from |-> from, got |-> got]
           /\ cycles' \in [Sources -> SUBSET Hosts]
           /\ \A r \in Sources : cycles'[r] \subseteq OfSource(Matched, r)
  <1> DEFINE all == OfSource(Matched, s)
             due == IF before[s] = {} THEN all ELSE before[s]
             pool == IF Healthy(due) # {} THEN due ELSE all
  <1>1. Candidates = Matched
    BY CandidatesAreMatched DEF IInv
  <1>2. pool \in SUBSET all /\ all \in SUBSET Hosts
    BY MatchedHosts DEF IInv, TypeOK, OfSource
  <1>3. Healthy(pool) \in SUBSET OfSource(Servable, s)
    BY <1>2 DEF Healthy, OfSource, Servable
  <1>4. Healthy(pool) = {} => OfSource(Servable, s) = {}
    BY DEF Healthy, OfSource, Servable
  <1>5. PICK got, rest :
            /\ got \in OneOf(OfSource(Servable, s))
            /\ rest \in SUBSET all
            /\ reply' = [call |-> call, from |-> from, got |-> got]
            /\ cycles' = [before EXCEPT ![s] = rest]
    <2>1. CASE Healthy(pool) = {}
      <3>1. /\ reply' = [call |-> call, from |-> from, got |-> {}]
            /\ cycles' = [before EXCEPT ![s] = all]
        BY <1>1, <2>1 DEF Deal
      <3>2. QED
        BY <1>4, <2>1, <3>1 DEF OneOf
    <2>2. CASE Healthy(pool) # {}
      <3>1. PICK h \in Healthy(pool), passed \in SUBSET (pool \ Healthy(pool)) :
                /\ reply' = [call |-> call, from |-> from, got |-> {h}]
                /\ cycles' = [before EXCEPT ![s] = pool \ (passed \cup {h})]
        BY <1>1, <2>2 DEF Deal
      <3>2. {h} \in OneOf(OfSource(Servable, s))
        BY <1>3 DEF OneOf
      <3>3. pool \ (passed \cup {h}) \in SUBSET all
        BY <1>2
      <3>4. QED
        BY <3>1, <3>2, <3>3
    <2> QED
      BY <2>1, <2>2
  <1> QED
    BY <1>2, <1>5

\* Whose turn it is, and where the turns stand afterwards.
LEMMA TurnIsOfSource ==
    ASSUME IInv, NextTurn
    PROVE  /\ sourceOrder' \in Orders(SourcesOf(Matched))
           /\ sourceCursor' \in Nat
           /\ sourceCursor' < Len(sourceOrder')
           /\ \E s \in SourcesOf(Matched),
                  before \in {cycles, NoCycles} :
                  Deal(s, before, "next", UNDEF)
  <1> DEFINE sources == SourcesOf(Matched)
             fresh == sourceCursor >= Len(sourceOrder)
             turn == IF fresh THEN 1 ELSE sourceCursor + 1
  <1>1. Candidates = Matched
    BY CandidatesAreMatched DEF IInv
  <1>2. Matched \in SUBSET Hosts
    BY MatchedHosts DEF IInv, TypeOK
  <1>3. PICK order \in IF fresh THEN Orders(sources) ELSE {sourceOrder} :
            /\ sourceOrder' = order
            /\ sourceCursor' = turn % Len(order)
            /\ Deal(order[turn], IF fresh THEN NoCycles ELSE cycles,
                    "next", UNDEF)
    BY <1>1 DEF NextTurn
  <1>4. order \in Orders(sources)
    <2>1. CASE fresh
      BY <1>3, <2>1
    <2>2. CASE ~fresh
      <3>1. sourceOrder # <<>>
        BY <2>2, EmptySeq DEF IInv, TypeOK
      <3>2. QED
        BY <1>3, <2>2, <3>1 DEF IInv, RotationCurrent
    <2> QED
      BY <2>1, <2>2
  <1>5. Len(order) = Cardinality(sources) /\ Cardinality(sources) \in Nat
    BY <1>2, <1>4, OrderIsSeq, SourcesOfHosts
  <1>6. Cardinality(sources) > 1
    BY <1>1 DEF NextTurn
  <1>7. turn \in 1..Cardinality(sources)
    <2>1. CASE fresh
      BY <1>5, <1>6, <2>1
    <2>2. CASE ~fresh
      BY <1>3, <1>5, <2>2, EmptySeq DEF IInv, TypeOK, RotationCurrent
    <2> QED
      BY <2>1, <2>2
  <1>8. order[turn] \in sources
    BY <1>4, <1>7 DEF Orders
  <1>9. turn % Len(order) \in Nat /\ turn % Len(order) < Len(order)
    BY <1>5, <1>6, <1>7
  <1> QED
    BY <1>3, <1>4, <1>8, <1>9

\* A position that is taken modulo the size of the list points into it.
LEMMA CursorInList ==
    ASSUME NEW S \in SUBSET Hosts, S # {}, NEW h
    PROVE  /\ (Position(h, S) + 1) % Cardinality(S) \in Nat
           /\ (Position(h, S) + 1) % Cardinality(S) < Cardinality(S)
  BY SubsetsOfHosts, PositionType

-----------------------------------------------------------------------------
(* What one call does: the invariant is kept, and the reply is one that    *)
(* RelayPool allows.                                                       *)

LEMMA NextSortedStep ==
    ASSUME IInv, config.sort # "random", NextSorted
    PROVE  /\ cursor' \in Nat
           /\ cursor' = 0 \/ cursor' < Cardinality(Matched)
           /\ UNCHANGED randomVars
           /\ \E got \in OneOf(Servable) :
                  reply' = [call |-> "next", from |-> UNDEF, got |-> got]
  <1>1. Candidates = Matched /\ Healthy(Candidates) = Servable
    BY CandidatesAreMatched DEF IInv
  <1>2. Matched \in SUBSET Hosts
    BY MatchedHosts DEF IInv, TypeOK
  <1>3. UNCHANGED randomVars
    BY DEF NextSorted
  <1>4. CASE /\ Servable = {}
             /\ reply' = [call |-> "next", from |-> UNDEF, got |-> {}]
             /\ UNCHANGED cursor
    BY <1>3, <1>4 DEF IInv, TypeOK, RotationCurrent, OneOf
  <1>5. ASSUME NEW h \in Servable,
               reply' = [call |-> "next", from |-> UNDEF, got |-> {h}],
               cursor' = (Position(h, Matched) + 1) % Cardinality(Matched)
        PROVE  /\ cursor' \in Nat
               /\ cursor' = 0 \/ cursor' < Cardinality(Matched)
               /\ UNCHANGED randomVars
               /\ \E got \in OneOf(Servable) :
                      reply' = [call |-> "next", from |-> UNDEF, got |-> got]
    <2>1. Matched # {}
      BY DEF Servable
    <2>2. cursor' \in Nat /\ cursor' < Cardinality(Matched)
      BY <1>2, <1>5, <2>1, CursorInList
    <2>3. {h} \in OneOf(Servable)
      BY DEF OneOf
    <2> QED
      BY <1>3, <1>5, <2>2, <2>3
  <1> QED
    BY <1>1, <1>4, <1>5 DEF NextSorted

LEMMA NextRandomStep ==
    ASSUME IInv, config.sort = "random", NextRandom
    PROVE  /\ sourceOrder' \in Seq(Sources)
           /\ sourceCursor' \in Nat
           /\ \/ sourceOrder' = <<>> /\ sourceCursor' = 0
              \/ sourceOrder' \in Orders(SourcesOf(Matched))
                   /\ sourceCursor' < Len(sourceOrder')
           /\ cycles' \in [Sources -> SUBSET Hosts]
           /\ \A s \in Sources : cycles'[s] \subseteq OfSource(Matched, s)
           /\ \/ /\ Matched = {}
                 /\ reply' = [call |-> "next", from |-> UNDEF, got |-> {}]
              \/ \E s \in SourcesOf(Matched) :
                    \E got \in OneOf(OfSource(Servable, s)) :
                      reply' = [call |-> "next", from |-> UNDEF, got |-> got]
  <1>1. Candidates = Matched
    BY CandidatesAreMatched DEF IInv
  <1>2. Matched \in SUBSET Hosts
    BY MatchedHosts DEF IInv, TypeOK
  <1>3. SourcesOf(Matched) \in SUBSET Sources
    BY <1>2, SourcesOfHosts
  <1>4. /\ cycles \in [Sources -> SUBSET Hosts]
        /\ \A s \in Sources : cycles[s] \subseteq OfSource(Matched, s)
    BY DEF IInv, TypeOK, RotationCurrent
  <1>5. /\ NoCycles \in [Sources -> SUBSET Hosts]
        /\ \A s \in Sources : NoCycles[s] \subseteq OfSource(Matched, s)
    BY DEF NoCycles
  <1>6. CASE /\ SourcesOf(Candidates) = {}
             /\ reply' = [call |-> "next", from |-> UNDEF, got |-> {}]
             /\ UNCHANGED randomVars
    <2>1. Matched = {}
      BY <1>1, <1>6 DEF SourcesOf
    <2>2. QED
      BY <1>4, <1>6, <2>1 DEF IInv, TypeOK, RotationCurrent, randomVars
  <1>7. ASSUME NEW s \in Sources, NextOfOnly(s)
        PROVE  /\ UNCHANGED <<sourceOrder, sourceCursor>>
               /\ cycles' \in [Sources -> SUBSET Hosts]
               /\ \A r \in Sources : cycles'[r] \subseteq OfSource(Matched, r)
               /\ s \in SourcesOf(Matched)
               /\ \E got \in OneOf(OfSource(Servable, s)) :
                      reply' = [call |-> "next", from |-> UNDEF, got |-> got]
    <2>1. Deal(s, cycles, "next", UNDEF)
      BY <1>7 DEF NextOfOnly
    <2>2. QED
      BY <1>1, <1>4, <1>7, <2>1, DealIsOfSource DEF NextOfOnly
  <1>8. CASE NextTurn
    <2>1. /\ sourceOrder' \in Orders(SourcesOf(Matched))
          /\ sourceCursor' \in Nat
          /\ sourceCursor' < Len(sourceOrder')
      BY <1>8, TurnIsOfSource
    <2>2. sourceOrder' \in Seq(Sources)
      BY <1>2, <2>1, OrderIsSeq
    <2>3. PICK s \in SourcesOf(Matched), before \in {cycles, NoCycles} :
              Deal(s, before, "next", UNDEF)
      BY <1>8, TurnIsOfSource
    <2>4. /\ \E got \in OneOf(OfSource(Servable, s)) :
                 reply' = [call |-> "next", from |-> UNDEF, got |-> got]
          /\ cycles' \in [Sources -> SUBSET Hosts]
          /\ \A r \in Sources : cycles'[r] \subseteq OfSource(Matched, r)
      BY <1>3, <1>4, <1>5, <2>3, DealIsOfSource
    <2> QED
      BY <2>1, <2>2, <2>4
  <1>9. ASSUME NEW s \in Sources, NextOfOnly(s)
        PROVE  /\ sourceOrder' \in Seq(Sources)
               /\ sourceCursor' \in Nat
               /\ \/ sourceOrder' = <<>> /\ sourceCursor' = 0
                  \/ sourceOrder' \in Orders(SourcesOf(Matched))
                       /\ sourceCursor' < Len(sourceOrder')
    BY <1>7, <1>9 DEF IInv, TypeOK, RotationCurrent
  <1> QED
    BY <1>6, <1>7, <1>8, <1>9 DEF NextRandom

\* A call reads the inventory, the config and the backoffs and changes none.
LEMMA CallsKeepMatched ==
    ASSUME UNCHANGED healthVars
    PROVE  Matched' = Matched
  BY DEF healthVars, Matched, Matches

LEMMA RepliesType ==
    ASSUME NEW call \in {"none", "list", "next", "nextFromSource"},
           NEW from \in Sources \cup {UNDEF}, NEW got \in SUBSET Hosts
    PROVE  [call |-> call, from |-> from, got |-> got] \in Pool!Replies
  BY DEF Pool!Replies

\* RelayPool and RelaySelector extend the same RelayHealth.
LEMMA PoolHealth ==
    /\ Pool!Servable = Servable /\ Pool!Matched = Matched
    /\ Pool!NextAnswers = NextAnswers
    /\ \A s : Pool!SourceAnswers(s) = SourceAnswers(s)
  <1>1. Pool!Servable = Servable /\ Pool!Matched = Matched
    BY DEF Pool!Servable, Pool!Matched, Pool!Matches, Pool!IsUnhealthy,
           Servable, Matched, Matches, IsUnhealthy
  <1>2. /\ \A S : Pool!SourcesOf(S) = SourcesOf(S)
        /\ \A S, s : Pool!OfSource(S, s) = OfSource(S, s)
        /\ \A S : Pool!OneOf(S) = OneOf(S) /\ Pool!FirstOf(S) = FirstOf(S)
    BY DEF Pool!SourcesOf, Pool!OfSource, Pool!OneOf, Pool!FirstOf, SourcesOf,
           OfSource, OneOf, FirstOf
  <1> QED
    BY <1>1, <1>2 DEF Pool!NextAnswers, Pool!SourceAnswers, NextAnswers,
                      SourceAnswers

LEMMA ListStep ==
    ASSUME IInv, List
    PROVE  IInv' /\ Pool!List
  <1>1. Candidates = Matched /\ Healthy(Candidates) = Servable
    BY CandidatesAreMatched DEF IInv
  <1>2. Matched \in SUBSET Hosts /\ Servable \in SUBSET Hosts
    BY MatchedHosts DEF IInv, TypeOK
  <1>3. Matched' = Matched
    BY CallsKeepMatched DEF List
  <1>4. reply' \in Pool!Replies
    BY <1>1, <1>2, RepliesType DEF List
  <1>5. TypeOK'
    BY <1>1, <1>2, <1>4
       DEF IInv, TypeOK, HealthTypeOK, List, healthVars, randomVars
  <1>6. CacheCoherent' /\ RotationCurrent'
    BY <1>1, <1>3 DEF IInv, CacheCoherent, RotationCurrent, List, randomVars,
                      SourcesOf, OfSource, Orders
  <1>7. Pool!List
    BY <1>1, PoolHealth DEF List, Pool!List, Pool!healthVars, healthVars
  <1> QED
    BY <1>5, <1>6, <1>7 DEF IInv

LEMMA NextRelayStep ==
    ASSUME IInv, NextRelay
    PROVE  IInv' /\ Pool!NextRelay
  <1>1. Candidates = Matched /\ Healthy(Candidates) = Servable
    BY CandidatesAreMatched DEF IInv
  <1>2. Matched \in SUBSET Hosts /\ Servable \in SUBSET Hosts
    BY MatchedHosts DEF IInv, TypeOK
  <1>3. Matched' = Matched /\ matchedCache' = Matched /\ UNCHANGED healthVars
    BY <1>1, CallsKeepMatched DEF NextRelay
  <1>4. /\ cursor' \in Nat
        /\ sourceOrder' \in Seq(Sources)
        /\ sourceCursor' \in Nat
        /\ cycles' \in [Sources -> SUBSET Hosts]
        /\ cursor' = 0 \/ cursor' < Cardinality(Matched)
        /\ \/ sourceOrder' = <<>> /\ sourceCursor' = 0
           \/ sourceOrder' \in Orders(SourcesOf(Matched))
                /\ sourceCursor' < Len(sourceOrder')
        /\ \A s \in Sources : cycles'[s] \subseteq OfSource(Matched, s)
    <2>1. CASE config.sort = "random"
      BY <2>1, NextRandomStep DEF NextRelay, IInv, TypeOK, RotationCurrent
    <2>2. CASE config.sort # "random"
      BY <2>2, NextSortedStep
         DEF NextRelay, IInv, TypeOK, RotationCurrent, randomVars
    <2> QED
      BY <2>1, <2>2
  <1>5. PICK got \in NextAnswers :
            reply' = [call |-> "next", from |-> UNDEF, got |-> got]
    <2>1. CASE config.sort = "random" /\ Matched = {}
      <3>1. Servable = {} /\ SourcesOf(Matched) = {}
        BY <2>1 DEF Servable, SourcesOf
      <3>2. reply' = [call |-> "next", from |-> UNDEF, got |-> {}]
        BY <2>1, <3>1, NextRandomStep DEF NextRelay
      <3>3. QED
        BY <2>1, <3>1, <3>2 DEF OneOf, NextAnswers
    <2>2. CASE config.sort = "random" /\ Matched # {}
      BY <2>2, NextRandomStep DEF NextRelay, NextAnswers
    <2>3. CASE config.sort # "random"
      BY <2>3, NextSortedStep DEF NextRelay, NextAnswers
    <2> QED
      BY <2>1, <2>2, <2>3
  <1>6. got \in SUBSET Hosts
    <2>1. \A s : OfSource(Servable, s) \in SUBSET Hosts
      BY <1>2 DEF OfSource
    <2>2. QED
      BY <1>2, <1>5, <2>1, OneOfHosts DEF NextAnswers
  <1>7. reply' \in Pool!Replies
    BY <1>5, <1>6, RepliesType
  <1>8. TypeOK'
    BY <1>2, <1>3, <1>4, <1>7 DEF IInv, TypeOK, HealthTypeOK, healthVars
  <1>9. CacheCoherent' /\ RotationCurrent'
    BY <1>3, <1>4 DEF CacheCoherent, RotationCurrent, SourcesOf, OfSource, Orders
  <1>10. Pool!NextRelay
    BY <1>3, <1>5, PoolHealth DEF Pool!NextRelay, Pool!healthVars, healthVars
  <1> QED
    BY <1>8, <1>9, <1>10 DEF IInv

LEMMA NextFromSourceStep ==
    ASSUME IInv, NEW s \in Sources, NextFromSource(s)
    PROVE  IInv' /\ Pool!NextFromSource(s)
  <1>1. Candidates = Matched
    BY CandidatesAreMatched DEF IInv
  <1>2. Matched \in SUBSET Hosts /\ OfSource(Servable, s) \in SUBSET Hosts
    BY MatchedHosts DEF IInv, TypeOK, OfSource
  <1>3. Matched' = Matched /\ matchedCache' = Matched /\ UNCHANGED healthVars
    BY <1>1, CallsKeepMatched DEF NextFromSource
  <1>4. /\ cycles' \in [Sources -> SUBSET Hosts]
        /\ \A r \in Sources : cycles'[r] \subseteq OfSource(Matched, r)
        /\ \E got \in SourceAnswers(s) :
               reply' = [call |-> "nextFromSource", from |-> s, got |-> got]
    <2>1. CASE config.sort = "random"
      BY <2>1, DealIsOfSource
         DEF NextFromSource, SourceAnswers, IInv, TypeOK, RotationCurrent
    <2>2. CASE config.sort # "random"
      <3>1. Healthy(OfSource(Candidates, s)) = OfSource(Servable, s)
        BY <1>1 DEF Healthy, OfSource, Servable
      <3>2. QED
        BY <2>2, <3>1
           DEF NextFromSource, FirstFromSource, SourceAnswers, IInv, TypeOK,
               RotationCurrent
    <2> QED
      BY <2>1, <2>2
  <1>5. reply' \in Pool!Replies
    BY <1>2, <1>4, OneOfHosts, RepliesType DEF SourceAnswers
  <1>6. TypeOK'
    BY <1>2, <1>3, <1>4, <1>5
       DEF IInv, TypeOK, HealthTypeOK, healthVars, NextFromSource
  <1>7. CacheCoherent' /\ RotationCurrent'
    BY <1>3, <1>4 DEF IInv, CacheCoherent, RotationCurrent, SourcesOf, OfSource,
                      Orders, NextFromSource
  <1>8. Pool!NextFromSource(s)
    BY <1>3, <1>4, PoolHealth
       DEF Pool!NextFromSource, Pool!healthVars, healthVars
  <1> QED
    BY <1>6, <1>7, <1>8 DEF IInv

\* A backoff, and the passing of time, touch neither the inventory nor the
\* rotation.
LEMMA HealthStep ==
    ASSUME IInv,
           UNCHANGED <<relays, config, cursor, randomVars, matchedCache>>,
           cooling' \in [Hosts -> Nat],
           reply' = Pool!Silent
    PROVE  IInv'
  <1>1. Matched' = Matched
    BY DEF Matched, Matches
  <1>2. reply' \in Pool!Replies
    BY RepliesType DEF Pool!Silent
  <1>3. TypeOK'
    BY <1>2 DEF IInv, TypeOK, HealthTypeOK, randomVars
  <1>4. CacheCoherent' /\ RotationCurrent'
    BY <1>1 DEF IInv, CacheCoherent, RotationCurrent, SourcesOf, OfSource,
                Orders, randomVars
  <1> QED
    BY <1>3, <1>4 DEF IInv

LEMMA MarkStep ==
    ASSUME IInv, NEW h \in Hosts, Mark(h)
    PROVE  IInv' /\ Pool!Mark(h)
  <1>1. cooling' \in [Hosts -> Nat]
    BY BackoffAssumption
       DEF IInv, TypeOK, HealthTypeOK, Configs, Mark, MarkUnhealthy
  <1>2. IInv'
    BY <1>1, HealthStep DEF Mark, MarkUnhealthy
  <1>3. Pool!Mark(h)
    BY DEF Mark, MarkUnhealthy, Pool!Mark, Pool!MarkUnhealthy
  <1> QED
    BY <1>2, <1>3

LEMMA TickStep ==
    ASSUME IInv, Tick
    PROVE  IInv' /\ Pool!Tick
  <1>1. Cooled \in [Hosts -> Nat]
    BY DEF Cooled, IInv, TypeOK, HealthTypeOK
  <1>2. IInv'
    BY <1>1, HealthStep DEF Tick
  <1>3. Pool!Tick
    BY DEF Tick, Pool!Tick, Cooled, Pool!Cooled
  <1> QED
    BY <1>2, <1>3

LEMMA UpdateStep ==
    ASSUME IInv, NEW nextRelays \in SUBSET Hosts, NEW nextConfig \in Configs,
           Update(nextRelays, nextConfig)
    PROVE  IInv' /\ Pool!Update(nextRelays, nextConfig)
  <1>1. reply' \in Pool!Replies
    BY RepliesType DEF Update, Pool!Silent
  <1>2. TypeOK'
    BY <1>1, EmptySeq
       DEF IInv, TypeOK, HealthTypeOK, Update, UpdateHealth, NoCycles
  <1>3. CacheCoherent' /\ RotationCurrent'
    BY DEF Update, CacheCoherent, RotationCurrent, NoCycles
  <1>4. Pool!Update(nextRelays, nextConfig)
    BY DEF Update, UpdateHealth, Pool!Update, Pool!UpdateHealth
  <1> QED
    BY <1>2, <1>3, <1>4 DEF IInv

-----------------------------------------------------------------------------

LEMMA InitStep ==
    ASSUME Init
    PROVE  IInv /\ Pool!Init
  <1>1. TypeOK
    BY HostsAssumption, EmptySeq, RepliesType
       DEF Init, TypeOK, HealthTypeOK, NoCycles, Pool!Silent
  <1>2. CacheCoherent /\ RotationCurrent
    BY DEF Init, CacheCoherent, RotationCurrent, NoCycles
  <1>3. Pool!Init
    BY DEF Init, Pool!Init, Pool!Configs, Configs, Pool!Sorts, Sorts
  <1> QED
    BY <1>1, <1>2, <1>3 DEF IInv

LEMMA NextStep ==
    ASSUME IInv, [Next]_vars
    PROVE  IInv' /\ [Pool!Next]_(Pool!poolVars)
  <1>1. CASE List
    BY <1>1, ListStep DEF Pool!Next
  <1>2. CASE NextRelay
    BY <1>2, NextRelayStep DEF Pool!Next
  <1>3. ASSUME NEW s \in Sources, NextFromSource(s)
        PROVE  IInv' /\ Pool!Next
    BY <1>3, NextFromSourceStep DEF Pool!Next
  <1>4. ASSUME NEW h \in Hosts, Mark(h)
        PROVE  IInv' /\ Pool!Next
    BY <1>4, MarkStep DEF Pool!Next
  <1>5. ASSUME NEW inventory \in Inventories, Update(inventory, config)
        PROVE  IInv' /\ Pool!Next
    BY <1>5, UpdateStep, HostsAssumption
       DEF Pool!Next, IInv, TypeOK, HealthTypeOK
  <1>6. ASSUME NEW c \in PartialConfigs, Update(relays, NormalizeConfig(c))
        PROVE  IInv' /\ Pool!Next
    <2>1. IInv' /\ Pool!Update(relays, NormalizeConfig(c))
      BY <1>6, UpdateStep, NormalizedType DEF IInv, TypeOK, HealthTypeOK
    <2>2. /\ Pool!PartialConfigs = PartialConfigs
          /\ Pool!NormalizeConfig(c) = NormalizeConfig(c)
      BY DEF Pool!PartialConfigs, PartialConfigs, Pool!Sorts, Sorts,
             Pool!NormalizeConfig, NormalizeConfig
    <2> QED
      BY <2>1, <2>2 DEF Pool!Next
  <1>7. CASE Tick
    BY <1>7, TickStep DEF Pool!Next
  <1>8. CASE UNCHANGED vars
    BY <1>8, CallsKeepMatched
       DEF vars, IInv, TypeOK, HealthTypeOK, CacheCoherent, RotationCurrent,
           SourcesOf, OfSource, Orders, healthVars, Pool!poolVars
  <1> QED
    BY <1>1, <1>2, <1>3, <1>4, <1>5, <1>6, <1>7, <1>8 DEF Next

-----------------------------------------------------------------------------
(* The theorems about Spec.                                                *)

\* The inductive invariant: types, cache and rotation together.
THEOREM Invariance == Spec => []IInv
  <1>1. Init => IInv
    BY InitStep
  <1>2. IInv /\ [Next]_vars => IInv'
    BY NextStep
  <1> QED
    BY <1>1, <1>2, PTL DEF Spec

\* Every variable keeps its type.
THEOREM TypeCorrect == Spec => []TypeOK
  <1>1. IInv => TypeOK
    BY DEF IInv
  <1> QED
    BY <1>1, Invariance, PTL

\* The caches never outlive what they were computed from (relay-selector.ts,
\* invalidateStructuralCache).
THEOREM CachesAreCoherent == Spec => []CacheCoherent
  <1>1. IInv => CacheCoherent
    BY DEF IInv
  <1> QED
    BY <1>1, Invariance, PTL

\* Cursors, orders and cycles are always about the current inventory and config
\* (relay-selector.ts, update and ensureSourceOrder).
THEOREM RotationIsCurrent == Spec => []RotationCurrent
  <1>1. IInv => RotationCurrent
    BY DEF IInv
  <1> QED
    BY <1>1, Invariance, PTL

\* RelaySelector implements RelayPool: whatever was asked before, each answer is
\* one that the inventory, the config and the backoffs of the moment allow.
THEOREM SelectorImplementsPool == Spec => PoolSpec
  <1>1. Init => Pool!Init
    BY InitStep
  <1>2. IInv /\ [Next]_vars => [Pool!Next]_(Pool!poolVars)
    BY NextStep
  <1> QED
    BY <1>1, <1>2, Invariance, PTL DEF Spec, PoolSpec, Pool!Spec

-----------------------------------------------------------------------------
(* How long a relay waits. In both orders the invariant weighs what it has *)
(* waited against what can still come before it.                           *)

\* How many deals of its source the relay h has before it at most, when its
\* source has the relays of all and its cycle is down to c: those of the cycle
\* before h, or the rest of the cycle and then one that comes to h last.
LeftOf(h, c, all) ==
    IF h \in c THEN Cardinality(c) - 1
               ELSE Cardinality(c) + Cardinality(all) - 1

\* How many turns of others come before the i-th of k, when at of them are over.
Until(i, at, k) == IF i > at THEN i - 1 - at ELSE i - 1 + k - at

\* What was waited, and what may be left of it with k sources and m siblings: u
\* turns of others, and l deals with a round of turns for each.
Fits(w, u, l, k, m) == w + u + k * l <= k * (2 * (m - 1) + 1) - 1

Siblings(h) == OfSource(Matched, SourceOf[h])

\* In random order: an only source has no turns, and until an order is drawn
\* nobody has called next.
RandomKept(h) ==
    LET k == Cardinality(SourcesOf(Matched))
        m == Cardinality(Siblings(h))
        left == LeftOf(h, cycles[SourceOf[h]], Siblings(h))
    IN  IF k = 1 THEN Fits(waits[h], 0, left, k, m)
        ELSE IF sourceOrder = <<>> THEN waits[h] = 0
        ELSE \A i \in 1..k :
                 sourceOrder[i] = SourceOf[h] =>
                     Fits(waits[h], Until(i, sourceCursor, k), left, k, m)

\* Under a sort: what the scan has returned and what it has ahead.
SortedKept(h) == waits[h] + Ahead(h, Matched) <= Cardinality(Matched) - 1

Kept(h) == IF config.sort = "random" THEN RandomKept(h) ELSE SortedKept(h)

\* The inductive invariant of RelayRotation.
RInv ==
    /\ IInv
    /\ waits \in [Hosts -> Nat]
    /\ \A h \in Hosts : h \notin Servable => waits[h] = 0
    /\ \A h \in Servable : Kept(h)

\* Multiplication is monotone.
LEMMA Times ==
    ASSUME NEW k \in Nat, NEW a \in Nat, NEW b \in Nat, a <= b
    PROVE  k * a \in Nat /\ k * b \in Nat /\ k * a <= k * b
  OBVIOUS

\* Whoever has not waited yet can wait as long as anyone.
LEMMA FitsAtFirst ==
    ASSUME NEW k \in Nat, k >= 1, NEW m \in Nat, m >= 1,
           NEW l \in Nat, l <= 2 * (m - 1), NEW u \in Nat, u <= k - 1
    PROVE  Fits(0, u, l, k, m)
  <1> DEFINE q == 2 * (m - 1)
  <1>1. q \in Nat /\ l <= q
    OBVIOUS
  <1> HIDE DEF q
  <1>2. k * l <= k * q /\ k * q \in Nat /\ k * l \in Nat
    BY <1>1, Times
  <1>3. k * (q + 1) = k * q + k
    BY <1>1
  <1> QED
    BY <1>2, <1>3 DEF Fits, q

\* A deal that is of the source and not of the relay.
LEMMA FitsAfterDeal ==
    ASSUME NEW k \in Nat, k >= 1, NEW m \in Nat, m >= 1, NEW w \in Nat,
           NEW l \in Nat, NEW n \in Nat, n + 1 <= l,
           NEW u \in Nat, u <= k - 1, Fits(w, 0, l, k, m)
    PROVE  Fits(w + 1, u, n, k, m)
  <1> DEFINE bound == k * (2 * (m - 1) + 1) - 1
  <1>1. w + 0 + k * l <= bound /\ bound \in Int
    BY DEF Fits
  <1> HIDE DEF bound
  <1>2. k * (n + 1) <= k * l /\ k * l \in Nat /\ k * n \in Nat
    BY Times
  <1>3. k * (n + 1) = k * n + k
    OBVIOUS
  <1>4. w + 1 + u + k * n <= bound
    BY <1>1, <1>2, <1>3
  <1> QED
    BY <1>4 DEF Fits, bound

\* What fits is within the patience, and so is anything that has less left.
LEMMA FitsWithin ==
    ASSUME NEW k \in Nat, NEW m \in Nat, NEW w \in Nat, NEW l \in Nat,
           NEW u \in Nat, Fits(w, u, l, k, m)
    PROVE  /\ w <= k * (2 * (m - 1) + 1) - 1
           /\ \A n \in 0..l : Fits(w, u, n, k, m)
  <1> DEFINE bound == k * (2 * (m - 1) + 1) - 1
  <1>1. w + u + k * l <= bound /\ bound \in Int
    BY DEF Fits
  <1> HIDE DEF bound
  <1>2. ASSUME NEW n \in 0..l
        PROVE  Fits(w, u, n, k, m)
    <2>1. k * n <= k * l /\ k * n \in Nat /\ k * l \in Nat
      BY Times
    <2> QED
      BY <1>1, <2>1 DEF Fits, bound
  <1>3. k * l \in Nat
    BY Times
  <1> QED
    BY <1>1, <1>2, <1>3 DEF bound

\* The remainders that the scan and the turns take.
LEMMA Modulo ==
    ASSUME NEW n \in Nat, n > 0, NEW a \in 0..(2 * n - 1)
    PROVE  a % n = IF a < n THEN a ELSE a - n
  <1>1. \A b \in Nat : b < n => b % n = b
    OBVIOUS
  <1>2. \A b \in Nat : b < n => (b + n) % n = b
    OBVIOUS
  <1>3. CASE a < n
    BY <1>1, <1>3
  <1>4. CASE ~(a < n)
    <2> DEFINE b == a - n
    <2>1. b \in Nat /\ b < n /\ a = b + n
      BY <1>4
    <2> HIDE DEF b
    <2>2. a % n = b
      BY <1>2, <2>1
    <2> QED
      BY <1>4, <2>1, <2>2
  <1> QED
    BY <1>3, <1>4

\* The scan goes on where it stopped, so that a relay it did not come to is nearer
\* by what it passed and by the one it returned.
LEMMA ScanGoesOn ==
    ASSUME NEW n \in Nat, n > 0,
           NEW c \in 0..n - 1, NEW g \in 0..n - 1, NEW h \in 0..n - 1, g # h,
           (g + n - c) % n <= (h + n - c) % n
    PROVE  ((h + n - ((g + 1) % n)) % n) + 1 <= (h + n - c) % n
  <1>1. /\ (g + n - c) % n = IF g < c THEN g + n - c ELSE g - c
        /\ (h + n - c) % n = IF h < c THEN h + n - c ELSE h - c
    <2>1. g + n - c \in 0..(2 * n - 1) /\ h + n - c \in 0..(2 * n - 1)
      OBVIOUS
    <2>2. /\ (g + n - c) % n = IF g + n - c < n THEN g + n - c ELSE g + n - c - n
          /\ (h + n - c) % n = IF h + n - c < n THEN h + n - c ELSE h + n - c - n
      BY <2>1, Modulo
    <2> QED
      BY <2>2
  <1>2. (g + 1) % n = IF g + 1 < n THEN g + 1 ELSE 0
    <2>1. g + 1 \in 0..(2 * n - 1)
      OBVIOUS
    <2>2. (g + 1) % n = IF g + 1 < n THEN g + 1 ELSE g + 1 - n
      BY <2>1, Modulo
    <2> QED
      BY <2>2
  <1> DEFINE d == (g + 1) % n
  <1>3. d \in 0..n - 1
    BY <1>2
  <1>4. ASSUME NEW b \in 0..n - 1
        PROVE  (h + n - b) % n = IF h < b THEN h + n - b ELSE h - b
    <2> DEFINE a == h + n - b
    <2>1. a \in 0..(2 * n - 1)
      OBVIOUS
    <2> HIDE DEF a
    <2>2. a % n = IF a < n THEN a ELSE a - n
      BY <2>1, Modulo
    <2> QED
      BY <2>2 DEF a
  <1> DEFINE ag == (g + n - c) % n
             ah == (h + n - c) % n
             an == (h + n - d) % n
  <1>5. /\ ag = IF g < c THEN g + n - c ELSE g - c
        /\ ah = IF h < c THEN h + n - c ELSE h - c
        /\ an = IF h < d THEN h + n - d ELSE h - d
        /\ d = IF g + 1 < n THEN g + 1 ELSE 0
        /\ ag <= ah
    BY <1>1, <1>2, <1>3, <1>4
  <1> HIDE DEF d, ag, ah, an
  <1>6. an + 1 <= ah
    BY <1>5
  <1> QED
    BY <1>6 DEF an, ah, d

\* Positions are those of a list: within it, and no two relays share one.
LEMMA PositionsInList ==
    ASSUME HealthTypeOK, config.sort # "random",
           NEW S \in SUBSET Hosts, NEW g \in S, NEW h \in S
    PROVE  /\ Position(h, S) \in 0..Cardinality(S) - 1
           /\ g # h => Position(g, S) # Position(h, S)
  <1> DEFINE Below(x) == {y \in S : Rank[config.sort][y] < Rank[config.sort][x]}
             rank(x) == Rank[config.sort][x]
  <1>1. config.sort \in SortKeys
    BY DEF HealthTypeOK, Configs, Sorts
  <1>2. \A x \in S : rank(x) \in Nat
    BY <1>1, RankAssumption
  <1>3. \A x, y \in S : rank(x) = rank(y) => x = y
    BY <1>1, RankAssumption
  <1>4. \A x : Position(x, S) = Cardinality(Below(x))
    BY DEF Position
  <1>5. ASSUME NEW x \in S
        PROVE  /\ IsFiniteSet(Below(x)) /\ Cardinality(Below(x)) \in Nat
               /\ Cardinality(Below(x)) <= Cardinality(S) - 1
    <2>1. Below(x) \in SUBSET (S \ {x})
      BY <1>2
    <2>2. /\ IsFiniteSet(S) /\ IsFiniteSet(S \ {x})
          /\ Cardinality(S \ {x}) = Cardinality(S) - 1
      BY SubsetsOfHosts, FS_RemoveElement
    <2> QED
      BY <2>1, <2>2, FS_Subset, FS_CardinalityType
  <1>6. ASSUME NEW x \in S, NEW y \in S, rank(x) < rank(y)
        PROVE  Cardinality(Below(x)) # Cardinality(Below(y))
    <2>1. Below(x) \in SUBSET Below(y) /\ x \in Below(y) /\ x \notin Below(x)
      BY <1>2, <1>6
    <2>2. IsFiniteSet(Below(y))
      BY <1>5
    <2> HIDE DEF Below
    <2> QED
      BY <2>1, <2>2, FS_Subset
  <1>7. Cardinality(S) \in Nat
    BY SubsetsOfHosts
  <1>8. g # h => rank(g) < rank(h) \/ rank(h) < rank(g)
    BY <1>2, <1>3
  <1> HIDE DEF Below, rank
  <1> QED
    BY <1>4, <1>5, <1>6, <1>7, <1>8

\* What is left before h is bounded by two cycles of its source.
LEMMA LeftBound ==
    ASSUME NEW all \in SUBSET Hosts, NEW c \in SUBSET all, NEW h \in all
    PROVE  /\ Cardinality(all) \in Nat /\ Cardinality(all) >= 1
           /\ LeftOf(h, c, all) \in Nat
           /\ LeftOf(h, c, all) <= 2 * (Cardinality(all) - 1)
  <1>1. /\ IsFiniteSet(all) /\ IsFiniteSet(all \ {h})
        /\ Cardinality(all) \in Nat
        /\ Cardinality(all \ {h}) \in Nat
        /\ Cardinality(all \ {h}) = Cardinality(all) - 1
    BY SubsetsOfHosts, FS_RemoveElement, FS_CardinalityType
  <1>2. CASE h \in c
    <2>1. Cardinality(c) <= Cardinality(all) /\ Cardinality(c) \in Nat
      BY <1>1, FS_Subset, SubsetsOfHosts
    <2>2. Cardinality(c) > 0
      BY <1>2, SubsetsOfHosts
    <2> QED
      BY <1>1, <1>2, <2>1, <2>2 DEF LeftOf
  <1>3. CASE h \notin c
    <2>1. c \in SUBSET (all \ {h})
      BY <1>3
    <2>2. Cardinality(c) <= Cardinality(all) - 1 /\ Cardinality(c) \in Nat
      BY <1>1, <2>1, FS_Subset, SubsetsOfHosts
    <2> QED
      BY <1>1, <1>3, <2>2 DEF LeftOf
  <1> QED
    BY <1>2, <1>3

\* Dealing g from the cycle c, or from a new one that h comes back in.
LEMMA PassedIsNearer ==
    ASSUME NEW all \in SUBSET Hosts, NEW h \in all, NEW c \in SUBSET all,
           NEW pool, pool = c \/ (pool = all /\ h \notin c),
           NEW passed, h \notin passed, NEW g \in pool, g # h
    PROVE  LeftOf(h, pool \ (passed \cup {g}), all) + 1 <= LeftOf(h, c, all)
  <1> DEFINE rest == pool \ (passed \cup {g})
  <1>1. h \in rest <=> h \in pool
    OBVIOUS
  <1>2. pool \in SUBSET Hosts
    OBVIOUS
  <1>3. /\ IsFiniteSet(pool) /\ Cardinality(pool) \in Nat
        /\ Cardinality(all) \in Nat /\ Cardinality(c) \in Nat
    BY <1>2, SubsetsOfHosts
  <1>4. /\ IsFiniteSet(pool \ {g})
        /\ Cardinality(pool \ {g}) = Cardinality(pool) - 1
    BY <1>3, FS_RemoveElement
  <1>5. rest \in SUBSET (pool \ {g})
    OBVIOUS
  <1> HIDE DEF rest
  <1>6. /\ Cardinality(rest) \in Nat
        /\ Cardinality(rest) + 1 <= Cardinality(pool)
    BY <1>3, <1>4, <1>5, FS_Subset, FS_CardinalityType
  <1>7. LeftOf(h, rest, all) + 1 <= LeftOf(h, c, all)
    <2>1. CASE pool = c
      BY <1>1, <1>3, <1>6, <2>1 DEF LeftOf
    <2>2. CASE pool = all /\ h \notin c
      BY <1>1, <1>3, <1>6, <2>2 DEF LeftOf
    <2> QED
      BY <2>1, <2>2
  <1> QED
    BY <1>7 DEF rest

\* A relay that can serve and that its source passes over in a deal is nearer
\* by that deal, also when the deal starts a cycle.
LEMMA DealPasses ==
    ASSUME IInv, NEW s \in Sources, NEW call, NEW from,
           NEW before \in [Sources -> SUBSET Hosts],
           \A r \in Sources : before[r] \subseteq OfSource(Matched, r),
           Deal(s, before, call, from),
           NEW h \in Servable, SourceOf[h] = s, h \notin reply'.got
    PROVE  LeftOf(h, cycles'[s], Siblings(h)) + 1
               <= LeftOf(h, before[s], Siblings(h))
  <1> DEFINE all == OfSource(Matched, s)
             due == IF before[s] = {} THEN all ELSE before[s]
             pool == IF Healthy(due) # {} THEN due ELSE all
  <1>1. Candidates = Matched
    BY CandidatesAreMatched DEF IInv
  <1>2. Siblings(h) = all /\ h \in all /\ ~IsUnhealthy(h)
    BY DEF Siblings, OfSource, Servable
  <1>3. all \in SUBSET Hosts /\ before[s] \in SUBSET all
    BY MatchedHosts DEF IInv, TypeOK, OfSource
  <1>4. Healthy(pool) # {}
    BY <1>2 DEF Healthy
  <1>5. pool = before[s] \/ (pool = all /\ h \notin before[s])
    BY <1>2 DEF Healthy
  <1>6. PICK g \in Healthy(pool), passed \in SUBSET (pool \ Healthy(pool)) :
            /\ reply' = [call |-> call, from |-> from, got |-> {g}]
            /\ cycles' = [before EXCEPT ![s] = pool \ (passed \cup {g})]
    BY <1>1, <1>4, SMTT(30) DEF Deal
  <1>7. g # h /\ g \in pool /\ h \notin passed
    BY <1>2, <1>6 DEF Healthy
  <1>8. cycles'[s] = pool \ (passed \cup {g})
    BY <1>6
  <1> HIDE DEF pool, all
  <1>9. LeftOf(h, pool \ (passed \cup {g}), all) + 1 <= LeftOf(h, before[s], all)
    BY <1>2, <1>3, <1>5, <1>7, PassedIsNearer
  <1> QED
    BY <1>2, <1>8, <1>9

\* The deals of another source leave the cycle of a relay alone.
LEMMA DealsOfOthers ==
    ASSUME NEW s \in Sources, NEW call, NEW from,
           NEW before \in [Sources -> SUBSET Hosts],
           Deal(s, before, call, from), NEW r \in Sources, r # s
    PROVE  cycles'[r] = before[r]
  BY DEF Deal

\* Less than a round is left until a turn comes.
LEMMA UntilInRound ==
    ASSUME NEW k \in Nat, NEW i \in 1..k, NEW at \in 0..k - 1
    PROVE  Until(i, at, k) \in Nat /\ Until(i, at, k) <= k - 1
  BY DEF Until

\* A turn brings every other turn nearer.
LEMMA TurnPasses ==
    ASSUME NEW k \in Nat, k > 0, NEW i \in 1..k, NEW at \in 0..k - 1
    PROVE  IF i = at + 1 THEN Until(i, at, k) = 0
           ELSE Until(i, (at + 1) % k, k) + 1 = Until(i, at, k)
  <1>1. (at + 1) % k = IF at + 1 < k THEN at + 1 ELSE 0
    <2>1. at + 1 \in 0..(2 * k - 1)
      OBVIOUS
    <2>2. (at + 1) % k = IF at + 1 < k THEN at + 1 ELSE at + 1 - k
      BY <2>1, Modulo
    <2> QED
      BY <2>2
  <1>2. CASE at + 1 < k
    BY <1>1, <1>2 DEF Until
  <1>3. CASE at + 1 = k
    BY <1>1, <1>3 DEF Until
  <1> QED
    BY <1>2, <1>3

\* How many sources and siblings a relay that can serve has.
LEMMA Sizes ==
    ASSUME IInv, NEW h \in Servable
    PROVE  /\ h \in Matched /\ Matched \in SUBSET Hosts
           /\ SourceOf[h] \in SourcesOf(Matched) /\ SourceOf[h] \in Sources
           /\ h \in Siblings(h) /\ Siblings(h) \in SUBSET Hosts
           /\ Siblings(h) = OfSource(Matched, SourceOf[h])
           /\ Cardinality(SourcesOf(Matched)) \in Nat
           /\ Cardinality(SourcesOf(Matched)) >= 1
           /\ Cardinality(Siblings(h)) \in Nat
           /\ Cardinality(Siblings(h)) >= 1
           /\ Cardinality(Matched) \in Nat /\ Cardinality(Matched) >= 1
  <1>1. h \in Matched /\ Matched \in SUBSET Hosts
    BY MatchedHosts DEF IInv, TypeOK, Servable
  <1>2. SourceOf[h] \in SourcesOf(Matched)
    BY <1>1 DEF SourcesOf
  <1>3. /\ SourcesOf(Matched) \in SUBSET Sources
        /\ IsFiniteSet(SourcesOf(Matched))
        /\ Cardinality(SourcesOf(Matched)) \in Nat
    BY <1>1, SourcesOfHosts
  <1>4. Cardinality(SourcesOf(Matched)) # 0
    BY <1>2, <1>3, FS_EmptySet
  <1>5. /\ h \in Siblings(h) /\ Siblings(h) \in SUBSET Hosts
        /\ Siblings(h) = OfSource(Matched, SourceOf[h])
    BY <1>1 DEF Siblings, OfSource
  <1>6. Cardinality(Siblings(h)) \in Nat /\ Cardinality(Siblings(h)) > 0
    BY <1>5, SubsetsOfHosts
  <1>7. Cardinality(Matched) \in Nat /\ Cardinality(Matched) > 0
    BY <1>1, SubsetsOfHosts
  <1> QED
    BY <1>1, <1>2, <1>3, <1>4, <1>5, <1>6, <1>7

\* A relay that has not waited satisfies the invariant wherever the cursors and
\* the cycles stand.
FreshKept == \A h \in Servable : waits[h] = 0 => Kept(h)

\* There is room for a whole wait ahead of it.
LEMMA FreshIsKept == IInv => FreshKept
  <1> SUFFICES ASSUME IInv, NEW h \in Servable, waits[h] = 0
               PROVE  Kept(h)
    BY DEF FreshKept
  <1> DEFINE k == Cardinality(SourcesOf(Matched))
             m == Cardinality(Siblings(h))
             left == LeftOf(h, cycles[SourceOf[h]], Siblings(h))
             n == Cardinality(Matched)
  <1>1. /\ k \in Nat /\ k >= 1 /\ m \in Nat /\ m >= 1 /\ n \in Nat /\ n >= 1
        /\ SourceOf[h] \in Sources
        /\ h \in Siblings(h) /\ Siblings(h) \in SUBSET Hosts
    BY Sizes
  <1>2. left \in Nat /\ left <= 2 * (m - 1)
    <2>1. cycles[SourceOf[h]] \in SUBSET Siblings(h)
      BY <1>1, Sizes DEF IInv, RotationCurrent
    <2> QED
      BY <1>1, <2>1, LeftBound
  <1>3. CASE config.sort = "random"
    <2>1. Fits(0, 0, left, k, m)
      <3> HIDE DEF k, m, left
      <3> QED
        BY <1>1, <1>2, FitsAtFirst
    <2>2. ASSUME sourceOrder # <<>>, NEW i \in 1..k
          PROVE  Fits(0, Until(i, sourceCursor, k), left, k, m)
      <3>1. Len(sourceOrder) = k /\ sourceCursor \in 0..k - 1
        BY <2>2, <1>1, Sizes, OrderIsSeq DEF IInv, TypeOK, RotationCurrent
      <3> HIDE DEF k, m, left
      <3>2. /\ Until(i, sourceCursor, k) \in Nat
            /\ Until(i, sourceCursor, k) <= k - 1
        BY <1>1, <3>1, UntilInRound
      <3> QED
        BY <1>1, <1>2, <3>2, FitsAtFirst
    <2> QED
      BY <1>3, <2>1, <2>2 DEF Kept, RandomKept
  <1>4. CASE config.sort # "random"
    <2>1. Position(h, Matched) + n - cursor \in Nat
      BY <1>1, Sizes, PositionType DEF IInv, TypeOK, RotationCurrent
    <2>2. Ahead(h, Matched) \in 0..n - 1
      <3> DEFINE a == Position(h, Matched) + n - cursor
      <3>1. a \in Nat
        BY <2>1
      <3> HIDE DEF a, n
      <3>2. a % n \in 0..n - 1
        BY <1>1, <3>1
      <3> QED
        BY <3>2 DEF Ahead, a, n
    <2> QED
      BY <1>1, <1>4, <2>2 DEF Kept, SortedKept
  <1> QED
    BY <1>3, <1>4

\* What the calls, a backoff and the passing of time leave of the rotation's
\* frame.
LEMMA SameFrame ==
    ASSUME UNCHANGED healthVars
    PROVE  /\ Matched' = Matched /\ Servable' = Servable
           /\ SourcesOf(Matched)' = SourcesOf(Matched)
           /\ \A h : Siblings(h)' = Siblings(h)
           /\ \A h, S : Position(h, S)' = Position(h, S)
  BY DEF healthVars, Matched, Matches, Servable, IsUnhealthy, SourcesOf,
         Siblings, OfSource, Position

\* Whoever keeps its place and waits no longer keeps the invariant.
LEMMA StandingStill ==
    ASSUME RInv, UNCHANGED <<relays, config, cursor, randomVars>>,
           NEW h \in Servable, waits'[h] = waits[h]
    PROVE  Kept(h)'
  <1>1. Kept(h)
    BY DEF RInv
  <1>2. Matched' = Matched
    BY DEF Matched, Matches
  <1> QED
    BY <1>1, <1>2 DEF Kept, RandomKept, SortedKept, Siblings, Ahead, Position,
                      SourcesOf, OfSource, randomVars

\* A sorted next that returns another relay than h.
LEMMA SortedPasses ==
    ASSUME RInv, UNCHANGED healthVars, config.sort # "random", NextSorted,
           NEW h \in Servable, h \notin reply'.got, waits'[h] = waits[h] + 1
    PROVE  Kept(h)'
  <1> DEFINE n == Cardinality(Matched)
             ph == Position(h, Matched)
  <1>1. Candidates = Matched /\ Healthy(Candidates) = Servable
    BY CandidatesAreMatched DEF RInv, IInv
  <1>2. PICK g \in Servable :
            /\ Ahead(g, Matched) <= Ahead(h, Matched)
            /\ reply' = [call |-> "next", from |-> UNDEF, got |-> {g}]
            /\ cursor' = (Position(g, Matched) + 1) % n
    BY <1>1 DEF NextSorted
  <1> DEFINE pg == Position(g, Matched)
  <1>3. g # h
    BY <1>2
  <1>4. /\ n \in Nat /\ n > 0 /\ Matched \in SUBSET Hosts
        /\ g \in Matched /\ h \in Matched
    BY Sizes DEF RInv
  <1>5. pg \in 0..n - 1 /\ ph \in 0..n - 1 /\ pg # ph
    BY <1>3, <1>4, PositionsInList DEF RInv, IInv, TypeOK
  <1>6. cursor \in 0..n - 1
    BY <1>4 DEF RInv, IInv, TypeOK, RotationCurrent
  <1>7. (pg + n - cursor) % n <= (ph + n - cursor) % n
    BY <1>2 DEF Ahead
  <1>8. ((ph + n - ((pg + 1) % n)) % n) + 1 <= (ph + n - cursor) % n
    <2> HIDE DEF n, pg, ph
    <2> QED
      BY <1>4, <1>5, <1>6, <1>7, ScanGoesOn
  <1>9. Ahead(h, Matched)' = (ph + n - ((pg + 1) % n)) % n
    BY <1>2, SameFrame DEF Ahead
  <1>10. waits[h] + ((ph + n - cursor) % n) <= n - 1 /\ waits[h] \in Nat
    BY <1>4 DEF RInv, Kept, SortedKept, Ahead
  <1>11. waits'[h] + Ahead(h, Matched)' <= n - 1
    <2> DEFINE a == (ph + n - ((pg + 1) % n)) % n
               b == (ph + n - cursor) % n
    <2>1. a \in Int /\ b \in Int
      <3> HIDE DEF n, pg, ph
      <3>1. (pg + 1) % n \in 0..n - 1
        BY <1>4, <1>5
      <3> DEFINE c == (pg + 1) % n
      <3> HIDE DEF c
      <3>2. (ph + n - c) \in Nat /\ (ph + n - cursor) \in Nat
        BY <1>4, <1>5, <1>6, <3>1 DEF c
      <3> QED
        BY <1>4, <3>2 DEF c
    <2>2. a + 1 <= b /\ Ahead(h, Matched)' = a /\ waits[h] + b <= n - 1
      BY <1>8, <1>9, <1>10
    <2> HIDE DEF a, b, n
    <2> QED
      BY <1>4, <1>10, <2>1, <2>2
  <1>12. config'.sort # "random" /\ Matched' = Matched
    BY SameFrame DEF healthVars
  <1> QED
    BY <1>11, <1>12 DEF Kept, SortedKept

\* Whatever source deals, the cycle of a relay that is not returned gets no
\* longer before it; and it gets shorter when the source is its own.
LEMMA DealsKeepLeft ==
    ASSUME IInv, NEW s \in Sources, NEW call, NEW from,
           NEW before \in [Sources -> SUBSET Hosts],
           \A r \in Sources : before[r] \subseteq OfSource(Matched, r),
           Deal(s, before, call, from),
           NEW h \in Servable, h \notin reply'.got
    PROVE  LET then == LeftOf(h, cycles'[SourceOf[h]], Siblings(h))
               now == LeftOf(h, before[SourceOf[h]], Siblings(h))
           IN  /\ now \in Nat /\ now <= 2 * (Cardinality(Siblings(h)) - 1)
               /\ then \in 0..now
               /\ s = SourceOf[h] => then + 1 <= now
  <1> DEFINE then == LeftOf(h, cycles'[SourceOf[h]], Siblings(h))
             now == LeftOf(h, before[SourceOf[h]], Siblings(h))
  <1>1. /\ h \in Siblings(h) /\ Siblings(h) \in SUBSET Hosts
        /\ Siblings(h) = OfSource(Matched, SourceOf[h])
        /\ SourceOf[h] \in Sources
    BY Sizes
  <1>2. /\ before[SourceOf[h]] \in SUBSET Siblings(h)
        /\ cycles'[SourceOf[h]] \in SUBSET Siblings(h)
    BY <1>1, DealIsOfSource
  <1>3. /\ now \in Nat /\ now <= 2 * (Cardinality(Siblings(h)) - 1)
        /\ then \in Nat
    BY <1>1, <1>2, LeftBound
  <1>4. s = SourceOf[h] => then + 1 <= now
    BY DealPasses
  <1>5. s # SourceOf[h] => then = now
    BY <1>1, DealsOfOthers
  <1>6. then \in 0..now
    <2> HIDE DEF then, now
    <2> QED
      BY <1>3, <1>4, <1>5
  <1> QED
    BY <1>3, <1>4, <1>6

\* A call of next that leaves the only source to deal.
LEMMA OnlyPasses ==
    ASSUME RInv, UNCHANGED healthVars, config.sort = "random",
           NEW s \in Sources, NextOfOnly(s),
           NEW h \in Servable, h \notin reply'.got, waits'[h] = waits[h] + 1
    PROVE  Kept(h)'
  <1> DEFINE m == Cardinality(Siblings(h))
             now == LeftOf(h, cycles[SourceOf[h]], Siblings(h))
             then == LeftOf(h, cycles'[SourceOf[h]], Siblings(h))
  <1>1. IInv /\ waits[h] \in Nat /\ Kept(h)
    BY Sizes DEF RInv
  <1>2. SourcesOf(Matched) = {s} /\ Deal(s, cycles, "next", UNDEF)
    BY <1>1, CandidatesAreMatched DEF NextOfOnly, IInv
  <1>3. SourceOf[h] = s /\ Cardinality(SourcesOf(Matched)) = 1
    BY <1>1, <1>2, Sizes, FS_Singleton
  <1>4. /\ now \in Nat /\ then \in 0..now /\ then + 1 <= now
        /\ m \in Nat /\ m >= 1
    BY <1>1, <1>2, <1>3, DealsKeepLeft, Sizes
       DEF IInv, TypeOK, RotationCurrent
  <1>5. Fits(waits[h], 0, now, 1, m)
    BY <1>1, <1>3 DEF Kept, RandomKept
  <1>6. Fits(waits[h] + 1, 0, then, 1, m)
    <2> HIDE DEF now, then, m
    <2>1. 1 \in Nat /\ 1 >= 1 /\ 0 \in Nat /\ 0 <= 1 - 1
      OBVIOUS
    <2>2. waits[h] \in Nat /\ then \in Nat
      BY <1>1, <1>4
    <2> QED
      BY <1>4, <1>5, <2>1, <2>2, FitsAfterDeal
  <1>7. /\ config'.sort = "random"
        /\ Cardinality(SourcesOf(Matched))' = 1
        /\ Siblings(h)' = Siblings(h)
    BY <1>3, SameFrame DEF healthVars
  <1> QED
    BY <1>6, <1>7 DEF Kept, RandomKept

\* A turn: of h's source, which deals; or of another, which comes nearer to it.
LEMMA TurnKeepsFit ==
    ASSUME NEW k \in Nat, k >= 1, NEW m \in Nat, m >= 1, NEW w \in Nat,
           NEW at \in 0..k - 1, NEW i \in 1..k,
           NEW l \in Nat, NEW n \in 0..l, i = at + 1 => n + 1 <= l,
           Fits(w, Until(i, at, k), l, k, m)
    PROVE  Fits(w + 1, Until(i, (at + 1) % k, k), n, k, m)
  <1>1. (at + 1) % k \in 0..k - 1
    OBVIOUS
  <1> DEFINE u == Until(i, at, k)
             v == Until(i, (at + 1) % k, k)
  <1>2. u \in Nat /\ v \in Nat /\ v <= k - 1
    BY <1>1, UntilInRound
  <1>3. IF i = at + 1 THEN u = 0 ELSE v + 1 = u
    BY TurnPasses
  <1>4. Fits(w, u, l, k, m)
    OBVIOUS
  <1> HIDE DEF u, v
  <1>5. CASE i = at + 1
    <2>1. Fits(w + 1, v, n, k, m)
      BY <1>2, <1>3, <1>4, <1>5, FitsAfterDeal
    <2> QED
      BY <2>1 DEF v
  <1>6. CASE i # at + 1
    <2>1. Fits(w, v + 1, n, k, m)
      BY <1>2, <1>3, <1>4, <1>6, FitsWithin
    <2>2. Fits(w + 1, v, n, k, m)
      <3>1. w + (v + 1) = (w + 1) + v
        BY <1>2
      <3> QED
        BY <2>1, <3>1 DEF Fits
    <2> QED
      BY <2>2 DEF v
  <1> QED
    BY <1>5, <1>6

\* A call of next that leaves h to the turns to come.
LEMMA TurnPassesOver ==
    ASSUME RInv, IInv', UNCHANGED healthVars, config.sort = "random", NextTurn,
           NEW h \in Servable, h \notin reply'.got, waits'[h] = waits[h] + 1
    PROVE  Kept(h)'
  <1> DEFINE k == Cardinality(SourcesOf(Matched))
             m == Cardinality(Siblings(h))
             fresh == sourceCursor >= Len(sourceOrder)
             at == IF fresh THEN 0 ELSE sourceCursor
             before == IF fresh THEN NoCycles ELSE cycles
             now == LeftOf(h, before[SourceOf[h]], Siblings(h))
             then == LeftOf(h, cycles'[SourceOf[h]], Siblings(h))
  <1>1. IInv /\ waits[h] \in Nat /\ Kept(h)
    BY Sizes DEF RInv
  <1>2. Candidates = Matched
    BY <1>1, CandidatesAreMatched DEF IInv
  <1>3. PICK order \in IF fresh THEN Orders(SourcesOf(Matched))
                                ELSE {sourceOrder} :
            /\ sourceOrder' = order
            /\ sourceCursor' = (at + 1) % Len(order)
            /\ Deal(order[at + 1], before, "next", UNDEF)
    <2>1. (IF fresh THEN 1 ELSE sourceCursor + 1) = at + 1
      OBVIOUS
    <2> QED
      BY <1>2, <2>1 DEF NextTurn
  <1>4. /\ k \in Nat /\ k > 1 /\ m \in Nat /\ m >= 1
        /\ Matched \in SUBSET Hosts /\ SourceOf[h] \in Sources
    BY <1>1, <1>2, Sizes DEF NextTurn
  <1>5. fresh => sourceOrder = <<>>
    BY <1>1 DEF IInv, TypeOK, RotationCurrent
  <1>6. ~fresh => sourceOrder # <<>>
    BY <1>1, EmptySeq DEF IInv, TypeOK
  <1>7. order \in Orders(SourcesOf(Matched)) /\ Len(order) = k
    <2>1. order \in Orders(SourcesOf(Matched))
      BY <1>1, <1>3, <1>6 DEF IInv, RotationCurrent
    <2> QED
      BY <1>4, <2>1, OrderIsSeq
  <1>8. at \in 0..k - 1
    BY <1>1, <1>3, <1>4, <1>7 DEF IInv, TypeOK
  <1>9. order[at + 1] \in Sources
    <2>1. at + 1 \in 1..k /\ SourcesOf(Matched) \in SUBSET Sources
      BY <1>4, <1>8, SourcesOfHosts
    <2> HIDE DEF at
    <2> QED
      BY <1>7, <2>1 DEF Orders
  <1>10. /\ now \in Nat /\ now <= 2 * (m - 1) /\ then \in 0..now
         /\ order[at + 1] = SourceOf[h] => then + 1 <= now
    <2>1. /\ before \in [Sources -> SUBSET Hosts]
          /\ \A r \in Sources : before[r] \subseteq OfSource(Matched, r)
      BY <1>1 DEF IInv, TypeOK, RotationCurrent, NoCycles
    <2> DEFINE s == order[at + 1]
    <2>2. s \in Sources /\ Deal(s, before, "next", UNDEF)
      BY <1>3, <1>9
    <2> HIDE DEF before, s
    <2>3. /\ LeftOf(h, before[SourceOf[h]], Siblings(h)) \in Nat
          /\ LeftOf(h, before[SourceOf[h]], Siblings(h)) <= 2 * (m - 1)
          /\ then \in 0..LeftOf(h, before[SourceOf[h]], Siblings(h))
          /\ s = SourceOf[h] =>
               then + 1 <= LeftOf(h, before[SourceOf[h]], Siblings(h))
      BY <1>1, <2>1, <2>2, DealsKeepLeft
    <2> QED
      BY <2>3 DEF s
  <1>11. ASSUME NEW i \in 1..k, order[i] = SourceOf[h]
         PROVE  Fits(waits[h], Until(i, at, k), now, k, m)
    <2>1. CASE fresh
      <3>1. waits[h] = 0
        BY <1>1, <1>4, <1>5, <2>1 DEF Kept, RandomKept
      <3> HIDE DEF k, m, now, at
      <3>2. Until(i, at, k) \in Nat /\ Until(i, at, k) <= k - 1
        BY <1>4, <1>8, UntilInRound
      <3> QED
        BY <1>4, <1>10, <3>1, <3>2, FitsAtFirst
    <2>2. CASE ~fresh
      BY <1>1, <1>3, <1>4, <1>6, <1>11, <2>2 DEF Kept, RandomKept
    <2> QED
      BY <2>1, <2>2
  <1>12. ASSUME NEW i \in 1..k, order[i] = SourceOf[h]
         PROVE  Fits(waits'[h], Until(i, sourceCursor', k), then, k, m)
    <2>1. i = at + 1 => then + 1 <= now
      BY <1>10, <1>12
    <2>2. Fits(waits[h], Until(i, at, k), now, k, m)
      BY <1>11, <1>12
    <2>3. waits'[h] = waits[h] + 1 /\ sourceCursor' = (at + 1) % k
      BY <1>3, <1>7
    <2> DEFINE w == waits[h]
    <2>4. /\ k \in Nat /\ k >= 1 /\ m \in Nat /\ m >= 1 /\ w \in Nat
          /\ at \in 0..k - 1 /\ now \in Nat /\ then \in 0..now
          /\ Fits(w, Until(i, at, k), now, k, m)
      BY <1>1, <1>4, <1>8, <1>10, <2>2
    <2> HIDE DEF k, m, at, now, then, w
    <2>5. Fits(w + 1, Until(i, (at + 1) % k, k), then, k, m)
      BY <2>1, <2>4, TurnKeepsFit
    <2> QED
      BY <2>3, <2>5 DEF w
  <1>13. /\ config'.sort = "random" /\ sourceOrder' = order
         /\ Cardinality(SourcesOf(Matched))' = k
         /\ Siblings(h)' = Siblings(h)
    BY <1>3, SameFrame DEF healthVars
  <1>14. order # <<>> /\ k # 1
    BY <1>4, <1>7
  <1> QED
    BY <1>12, <1>13, <1>14 DEF Kept, RandomKept

\* A retry that draws from a source and returns another relay than h: it takes
\* no turn, and no one has waited for it.
LEMMA DrawPasses ==
    ASSUME RInv, UNCHANGED healthVars, config.sort = "random",
           UNCHANGED <<sourceOrder, sourceCursor>>,
           NEW s \in Sources, Deal(s, cycles, "nextFromSource", s),
           NEW h \in Servable, h \notin reply'.got, waits'[h] = waits[h]
    PROVE  Kept(h)'
  <1> DEFINE k == Cardinality(SourcesOf(Matched))
             m == Cardinality(Siblings(h))
             now == LeftOf(h, cycles[SourceOf[h]], Siblings(h))
             then == LeftOf(h, cycles'[SourceOf[h]], Siblings(h))
             w == waits[h]
  <1>1. IInv /\ waits[h] \in Nat /\ Kept(h)
    BY Sizes DEF RInv
  <1>2. k \in Nat /\ k >= 1 /\ m \in Nat
    BY <1>1, Sizes
  <1>3. now \in Nat /\ then \in 0..now
    BY <1>1, DealsKeepLeft DEF IInv, TypeOK, RotationCurrent
  <1>4. ASSUME NEW u \in Nat, Fits(w, u, now, k, m)
        PROVE  Fits(w, u, then, k, m)
    <2> HIDE DEF k, m, now, then, w
    <2> QED
      BY <1>1, <1>2, <1>3, <1>4, FitsWithin DEF w
  <1>5. ASSUME k # 1, sourceOrder # <<>>, NEW i \in 1..k,
               sourceOrder[i] = SourceOf[h]
        PROVE  Fits(w, Until(i, sourceCursor, k), then, k, m)
    <2>1. sourceCursor \in 0..k - 1
      BY <1>1, <1>2, <1>5, Sizes, OrderIsSeq
         DEF IInv, TypeOK, RotationCurrent
    <2>2. Fits(w, Until(i, sourceCursor, k), now, k, m)
      BY <1>1, <1>5 DEF Kept, RandomKept
    <2> HIDE DEF k, m, now, then, w
    <2> QED
      BY <1>2, <1>4, <2>1, <2>2, UntilInRound
  <1>6. k = 1 => Fits(w, 0, then, k, m)
    <2>1. k = 1 => Fits(w, 0, now, k, m)
      BY <1>1 DEF Kept, RandomKept
    <2> HIDE DEF k, m, now, then, w
    <2> QED
      BY <1>4, <2>1
  <1>7. k # 1 /\ sourceOrder = <<>> => w = 0
    BY <1>1 DEF Kept, RandomKept
  <1>8. /\ config'.sort = "random"
        /\ Cardinality(SourcesOf(Matched))' = k
        /\ Siblings(h)' = Siblings(h)
    BY SameFrame DEF healthVars
  <1> QED
    BY <1>5, <1>6, <1>7, <1>8 DEF Kept, RandomKept

\* A call of next, whichever branch it takes.
LEMMA RotationNextRelay ==
    ASSUME RInv, IInv', NextRelay,
           NEW h \in Servable, h \notin reply'.got, waits'[h] = waits[h] + 1
    PROVE  Kept(h)'
  <1>1. UNCHANGED healthVars
    BY DEF NextRelay
  <1>2. SourcesOf(Candidates) # {}
    BY Sizes, CandidatesAreMatched DEF RInv, IInv
  <1>3. CASE config.sort = "random"
    <2>1. NextRandom
      BY <1>3 DEF NextRelay
    <2>2. CASE \E s \in Sources : NextOfOnly(s)
      BY <1>1, <1>3, <2>2, OnlyPasses
    <2>3. CASE NextTurn
      BY <1>1, <1>3, <2>3, TurnPassesOver
    <2> QED
      BY <1>2, <2>1, <2>2, <2>3 DEF NextRandom
  <1>4. CASE config.sort # "random"
    BY <1>1, <1>4, SortedPasses DEF NextRelay
  <1> QED
    BY <1>3, <1>4

\* A call of nextFromSource: under a sort it moves no cursor.
LEMMA RotationNextFromSource ==
    ASSUME RInv, NEW s \in Sources, NextFromSource(s),
           NEW h \in Servable, h \notin reply'.got, waits'[h] = waits[h]
    PROVE  Kept(h)'
  <1>1. CASE config.sort = "random"
    BY <1>1, DrawPasses DEF NextFromSource
  <1>2. CASE config.sort # "random"
    BY <1>2, StandingStill DEF NextFromSource, healthVars, randomVars
  <1> QED
    BY <1>1, <1>2

\* RotationSpec takes the selector's steps and no others.
LEMMA RotationIsNext == [RotationNext]_rotationVars => [Next]_vars
  BY DEF RotationNext, Next, rotationVars

\* Nothing has waited when the selector is made.
LEMMA RotationInitStep == RotationInit => RInv
  <1> SUFFICES ASSUME RotationInit
               PROVE  RInv
    OBVIOUS
  <1>1. IInv /\ waits = [h \in Hosts |-> 0]
    BY InitStep DEF RotationInit
  <1>2. Servable \in SUBSET Hosts
    BY <1>1, MatchedHosts DEF IInv, TypeOK
  <1> QED
    BY <1>1, <1>2, FreshIsKept DEF RInv, FreshKept

\* A call that has its effect on the waits leaves every relay with its due.
LEMMA WaitsStep ==
    ASSUME RInv, waits' = [h \in Hosts |-> Waits(h)],
           reply'.call = "next" => Servable' = Servable
    PROVE  /\ waits' \in [Hosts -> Nat]
           /\ \A h \in Hosts : h \notin Servable' => waits'[h] = 0
           /\ \A h \in Servable' \cap Hosts :
                 \/ waits'[h] = 0
                 \/ /\ h \in Servable /\ h \notin reply'.got
                    /\ waits'[h] = IF reply'.call = "next" THEN waits[h] + 1
                                                           ELSE waits[h]
  <1>1. waits \in [Hosts -> Nat]
    BY DEF RInv
  <1>2. \A h \in Hosts : h \notin Servable => waits[h] = 0
    BY DEF RInv
  <1>3. CASE reply'.call = "next" 
    BY <1>1, <1>2, <1>3 DEF Waits
  <1>4. CASE reply'.call # "next"
    BY <1>1, <1>2, <1>4 DEF Waits
  <1> QED
    BY <1>3, <1>4

\* Each step keeps the invariant; what returns a relay, restarts its wait.
LEMMA RotationStep == RInv /\ [RotationNext]_rotationVars => RInv'
  <1> SUFFICES ASSUME RInv, [RotationNext]_rotationVars
               PROVE  RInv'
    OBVIOUS
  <1>1. IInv /\ IInv'
    BY RotationIsNext, NextStep DEF RInv
  <1>2. FreshKept'
    BY <1>1, FreshIsKept, PTL
  <1>3. Servable \in SUBSET Hosts /\ Servable' \in SUBSET Hosts
    BY <1>1 DEF IInv, TypeOK, HealthTypeOK, Servable, Matched
  <1>4. ASSUME UNCHANGED <<relays, config, cooling, cursor, randomVars, waits>>
        PROVE  RInv'
    <2>1. Servable' = Servable
      BY <1>4, SameFrame DEF healthVars
    <2>2. ASSUME NEW h \in Servable PROVE Kept(h)'
      BY <1>4, StandingStill
    <2> QED
      BY <1>1, <1>4, <2>1, <2>2 DEF RInv
  <1>5. CASE List /\ UNCHANGED waits
    BY <1>4, <1>5 DEF List, healthVars
  <1>6. CASE UNCHANGED rotationVars
    BY <1>4, <1>6 DEF rotationVars, vars, randomVars
  \* A call or a change of the backoffs: who has waited is still in line.
  <1>7. ASSUME waits' = [h \in Hosts |-> Waits(h)],
               reply'.call = "next" => Servable' = Servable,
               \A h \in Servable :
                   h \notin reply'.got
                   /\ waits'[h] = (IF reply'.call = "next" THEN waits[h] + 1
                                                           ELSE waits[h])
                     => Kept(h)'
        PROVE  RInv'
    <2>1. /\ waits' \in [Hosts -> Nat]
          /\ \A h \in Hosts : h \notin Servable' => waits'[h] = 0
      BY <1>7, WaitsStep
    <2>2. ASSUME NEW h \in Servable'
          PROVE  Kept(h)'
      <3>1. CASE waits'[h] = 0
        BY <1>2, <3>1 DEF FreshKept
      <3>2. CASE waits'[h] # 0
        BY <1>3, <1>7, <3>2, WaitsStep
      <3> QED
        BY <3>1, <3>2
    <2> QED
      BY <1>1, <2>1, <2>2 DEF RInv
  <1>8. CASE NextRelay /\ waits' = [h \in Hosts |-> Waits(h)]
    <2>1. Servable' = Servable
      BY <1>8, SameFrame DEF NextRelay
    <2>2. reply'.call = "next"
      BY <1>1, <1>8, NextRelayStep DEF Pool!NextRelay
    <2>3. \A h \in Servable :
              h \notin reply'.got /\ waits'[h] = waits[h] + 1 => Kept(h)'
      BY <1>1, <1>8, RotationNextRelay
    <2> QED
      BY <1>7, <1>8, <2>1, <2>2, <2>3
  <1>9. ASSUME NEW s \in Sources, NextFromSource(s),
               waits' = [h \in Hosts |-> Waits(h)]
        PROVE  RInv'
    <2>1. reply'.call = "nextFromSource"
      BY <1>1, <1>9, NextFromSourceStep DEF Pool!NextFromSource
    <2>2. \A h \in Servable :
              h \notin reply'.got /\ waits'[h] = waits[h] => Kept(h)'
      BY <1>9, RotationNextFromSource
    <2> QED
      BY <1>7, <1>9, <2>1, <2>2
  <1>10. ASSUME UNCHANGED <<relays, config, cursor, randomVars>>,
                reply' = Pool!Silent, waits' = [h \in Hosts |-> Waits(h)]
         PROVE  RInv'
    <2>1. reply'.call = "none"
      BY <1>10 DEF Pool!Silent
    <2>2. \A h \in Servable : waits'[h] = waits[h] => Kept(h)'
      BY <1>10, StandingStill
    <2> QED
      BY <1>7, <1>10, <2>1, <2>2
  <1>11. ASSUME NEW h \in Hosts, Mark(h), waits' = [g \in Hosts |-> Waits(g)]
         PROVE  RInv'
    BY <1>10, <1>11 DEF Mark, MarkUnhealthy
  <1>12. CASE Tick /\ waits' = [h \in Hosts |-> Waits(h)]
    BY <1>10, <1>12 DEF Tick
  <1>13. CASE waits' = [h \in Hosts |-> 0]
    <2>1. \A h \in Servable' : Kept(h)'
      BY <1>2, <1>3, <1>13 DEF FreshKept
    <2> QED
      BY <1>1, <1>13, <2>1 DEF RInv
  <1> QED
    BY <1>5, <1>6, <1>8, <1>9, <1>11, <1>12, <1>13 DEF RotationNext

\* The invariant bounds the wait: the rest of it is not negative.
LEMMA KeptIsPatient ==
    ASSUME RInv, NEW h \in Servable
    PROVE  waits[h] <= Patience(h)
  <1> DEFINE k == Cardinality(SourcesOf(Matched))
             m == Cardinality(Siblings(h))
             left == LeftOf(h, cycles[SourceOf[h]], Siblings(h))
             w == waits[h]
  <1>1. IInv /\ w \in Nat /\ Kept(h)
    BY Sizes DEF RInv
  <1>2. /\ k \in Nat /\ k >= 1 /\ m \in Nat /\ m >= 1
        /\ Siblings(h) = OfSource(Matched, SourceOf[h])
        /\ Matched \in SUBSET Hosts /\ SourceOf[h] \in SourcesOf(Matched)
        /\ SourceOf[h] \in Sources
        /\ h \in Siblings(h) /\ Siblings(h) \in SUBSET Hosts
    BY <1>1, Sizes
  <1>3. CASE config.sort = "random"
    <2>1. left \in Nat
      <3>1. cycles[SourceOf[h]] \in SUBSET Siblings(h)
        BY <1>1, <1>2 DEF IInv, RotationCurrent
      <3> QED
        BY <1>2, <3>1, LeftBound
    <2>2. PICK u \in Nat, l \in Nat : Fits(w, u, l, k, m)
      <3>1. CASE k = 1
        <4>1. Fits(w, 0, left, k, m)
          BY <1>1, <1>3, <3>1 DEF Kept, RandomKept
        <4> HIDE DEF k, m, left, w
        <4> QED
          BY <2>1, <4>1
      <3>2. CASE k # 1 /\ sourceOrder = <<>>
        <4>1. w = 0
          BY <1>1, <1>3, <3>2 DEF Kept, RandomKept
        <4> HIDE DEF k, m, left, w
        <4>2. Fits(0, 0, 0, k, m)
          BY <1>2, FitsAtFirst
        <4> QED
          BY <4>1, <4>2
      <3>3. CASE k # 1 /\ sourceOrder # <<>>
        <4>1. /\ sourceOrder \in Orders(SourcesOf(Matched))
              /\ sourceCursor < Len(sourceOrder) /\ Len(sourceOrder) = k
          BY <1>1, <1>2, <3>3, OrderIsSeq DEF IInv, RotationCurrent
        <4>2. PICK i \in 1..k : sourceOrder[i] = SourceOf[h]
          BY <1>2, <4>1 DEF Orders
        <4>3. Fits(w, Until(i, sourceCursor, k), left, k, m)
          BY <1>1, <1>3, <3>3, <4>2 DEF Kept, RandomKept
        <4>4. sourceCursor \in 0..k - 1
          BY <1>1, <1>2, <4>1 DEF IInv, TypeOK
        <4> HIDE DEF k, m, left, w
        <4> QED
          BY <1>2, <2>1, <4>3, <4>4, UntilInRound
      <3> QED
        BY <3>1, <3>2, <3>3
    <2>3. w <= k * (2 * (m - 1) + 1) - 1
      <3> HIDE DEF k, m, left, w
      <3> QED
        BY <1>1, <1>2, <2>2, FitsWithin
    <2> QED
      BY <1>2, <1>3, <2>3 DEF Patience
  <1>4. CASE config.sort # "random"
    <2>1. Ahead(h, Matched) \in Nat
      <3> DEFINE n == Cardinality(Matched)
                 a == Position(h, Matched) + n - cursor
      <3>1. n \in Nat /\ n >= 1 /\ a \in Nat
        BY <1>1, <1>2, Sizes, PositionType DEF IInv, TypeOK, RotationCurrent
      <3> HIDE DEF n, a
      <3>2. a % n \in Nat
        BY <3>1
      <3> QED
        BY <3>2 DEF Ahead, a, n
    <2>2. /\ w + Ahead(h, Matched) <= Cardinality(Matched) - 1
          /\ Cardinality(Matched) \in Nat
      BY <1>1, <1>4, Sizes DEF Kept, SortedKept
    <2>3. w <= Cardinality(Matched) - 1
      <3> HIDE DEF w
      <3> QED
        BY <1>1, <2>1, <2>2
    <2> QED
      BY <1>4, <2>3 DEF Patience
  <1> QED
    BY <1>3, <1>4

-----------------------------------------------------------------------------
(* The theorems about RotationSpec.                                        *)

\* What a relay has waited and what may still come before it stay within its
\* patience, after each call, failure, recovery and update.
THEOREM RotationInvariance == RotationSpec => []RInv
  BY RotationInitStep, RotationStep, PTL DEF RotationSpec

\* No relay that can serve is passed over more often than the rotation allows
\* for, however many relays and sources there are and whatever happens to the
\* others (relay-selector.ts, next and nextFromSource).
THEOREM NobodyStarves == RotationSpec => []NoStarvation
  <1>1. RInv => NoStarvation
    BY KeptIsPatient DEF NoStarvation
  <1> QED
    BY <1>1, RotationInvariance, PTL

=============================================================================
