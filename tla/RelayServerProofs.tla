------------------------- MODULE RelayServerProofs -------------------------
(***************************************************************************)
(* Proofs about RelayServer, for every number of sources and of            *)
(* overlapping refreshes and every capacity of the list cache: its types,  *)
(* that its cached lists are current, and that failing sources never leave *)
(* it without relays.                                                      *)
(***************************************************************************)
EXTENDS RelayServer, SequenceTheorems, TLAPS

\* What a refresh under way knows. With no error behind it, it has relays of
\* each throwing source it is done with: the last one's answer then decides
\* between relays and an error.
Accounted(f) ==
    \/ errors[f]
    \/ \A i \in 1..(loading[f] - 1) :
           Enabled[i] \in Throwing => gathered[f] # {}

\* The inductive invariant of the server.
IInv ==
    /\ TypeOK
    /\ ListsCurrent
    /\ NeverEmptied
    /\ \A f \in Refreshes : Accounted(f)

-----------------------------------------------------------------------------
(* Loading.                                                                *)

LEMMA EnabledType ==
    /\ Len(Enabled) \in Nat \ {0}
    /\ \A i \in 1..Len(Enabled) : Enabled[i] \in Sources
    /\ Range(Enabled) = {Enabled[i] : i \in 1..Len(Enabled)}
  <1>1. Enabled \in Seq(Sources) /\ Enabled # <<>>
    BY ServerAssumption
  <1>2. QED
    BY <1>1, LenProperties, ElementOfSeq, EmptySeq DEF Range

LEMMA GatheredType ==
    ASSUME TypeOK, NEW f \in Refreshes, loading[f] # 0
    PROVE  /\ loading[f] \in 1..Len(Enabled)
           /\ Enabled[loading[f]] \in Sources
           /\ Gathered(f) \in SUBSET Hosts
           /\ Failed(f) \in BOOLEAN
  <1>1. loading[f] \in 1..Len(Enabled) /\ Enabled[loading[f]] \in Sources
    BY EnabledType DEF TypeOK
  <1>2. QED
    BY <1>1 DEF TypeOK, Upstreams, Gathered, Failed

\* What Accounted says of a refresh holds with the source it waits for.
LEMMA AccountedGrows ==
    ASSUME TypeOK, NEW f \in Refreshes, loading[f] # 0, Accounted(f),
           ~Failed(f), NEW i \in 1..loading[f], Enabled[i] \in Throwing
    PROVE  Gathered(f) # {}
  <1>1. loading[f] \in 1..Len(Enabled)
    BY GatheredType
  <1>2. CASE i = loading[f]
    BY <1>2 DEF Failed, Gathered
  <1>3. CASE i # loading[f]
    <2>1. i \in 1..(loading[f] - 1)
      BY <1>1, <1>3
    <2>2. QED
      BY <2>1 DEF Accounted, Failed, Gathered
  <1>4. QED
    BY <1>2, <1>3

-----------------------------------------------------------------------------
(* The list cache.                                                         *)

Entries == [key: ListKeys, list: SUBSET Hosts]

\* ListsCurrent, of any sequence of entries.
Current(entries) ==
    /\ \A i \in DOMAIN entries : entries[i] = Listed(entries[i].key)
    /\ \A i, j \in DOMAIN entries : entries[i].key = entries[j].key => i = j
    /\ Len(entries) <= MaxList

LEMMA ListedType ==
    ASSUME TypeOK, NEW key \in ListKeys
    PROVE  Listed(key) \in Entries /\ Listed(key).key = key
  BY DEF Listed, Entries, TypeOK, HealthTypeOK

LEMMA AppendedIsCurrent ==
    ASSUME TypeOK, NEW entries \in Seq(Entries), NEW key \in ListKeys,
           Current(entries),
           \A i \in DOMAIN entries : entries[i].key # key
    PROVE  LET longer == Append(entries, Listed(key))
           IN  /\ longer \in Seq(Entries)
               /\ DOMAIN longer = 1..(Len(entries) + 1)
               /\ \A i \in DOMAIN longer : longer[i] = Listed(longer[i].key)
               /\ \A i, j \in DOMAIN longer :
                      longer[i].key = longer[j].key => i = j
  <1> DEFINE longer == Append(entries, Listed(key))
             n == Len(entries)
  <1>1. Listed(key) \in Entries /\ Listed(key).key = key
    BY ListedType
  <1>2. n \in Nat /\ DOMAIN entries = 1..n
    BY LenProperties
  <1>3. /\ longer \in Seq(Entries)
        /\ Len(longer) = n + 1
        /\ \A i \in 1..n : longer[i] = entries[i]
        /\ longer[n + 1] = Listed(key)
    BY <1>1, AppendProperties
  <1>4. DOMAIN longer = 1..(n + 1)
    BY <1>3, LenProperties
  <1> HIDE DEF longer, n
  <1>5. \A i \in 1..(n + 1) : i \in 1..n \/ i = n + 1
    BY <1>2
  <1>6. \A i \in 1..(n + 1) : longer[i] = Listed(longer[i].key)
    <2> SUFFICES ASSUME NEW i \in 1..(n + 1)
                 PROVE  longer[i] = Listed(longer[i].key)
      OBVIOUS
    <2>1. CASE i \in 1..n
      BY <1>2, <1>3, <2>1 DEF Current
    <2>2. CASE i = n + 1
      BY <1>1, <1>3, <2>2
    <2>3. QED
      BY <1>5, <2>1, <2>2
  <1>7. ASSUME NEW i \in 1..(n + 1), NEW j \in 1..(n + 1),
               longer[i].key = longer[j].key
        PROVE  i = j
    <2>1. CASE i \in 1..n /\ j \in 1..n
      BY <1>2, <1>3, <1>7, <2>1 DEF Current
    <2>2. CASE i \in 1..n /\ j = n + 1
      BY <1>1, <1>2, <1>3, <1>7, <2>2
    <2>3. CASE i = n + 1 /\ j \in 1..n
      BY <1>1, <1>2, <1>3, <1>7, <2>3
    <2>4. QED
      BY <1>5, <2>1, <2>2, <2>3
  <1>8. QED
    BY <1>3, <1>4, <1>6, <1>7 DEF longer, n

\* Caching a list that is not cached keeps the cache current, and within its
\* capacity.
LEMMA CacheKeepsCurrent ==
    ASSUME TypeOK, NEW entries \in Seq(Entries), NEW key \in ListKeys,
           Current(entries),
           \A i \in DOMAIN entries : entries[i].key # key
    PROVE  Cache(entries, key) \in Seq(Entries) /\ Current(Cache(entries, key))
  <1> DEFINE longer == Append(entries, Listed(key))
             n == Len(entries)
  <1>1. /\ longer \in Seq(Entries)
        /\ DOMAIN longer = 1..(n + 1)
        /\ \A i \in DOMAIN longer : longer[i] = Listed(longer[i].key)
        /\ \A i, j \in DOMAIN longer : longer[i].key = longer[j].key => i = j
    BY AppendedIsCurrent
  <1>2. n \in Nat /\ n <= MaxList /\ MaxList \in Nat
    BY LenProperties, ServerAssumption DEF Current
  <1>3. Len(longer) = n + 1 /\ longer # <<>>
    BY <1>1, <1>2, LenProperties, EmptySeq
  <1>4. /\ Tail(longer) \in Seq(Entries)
        /\ Len(Tail(longer)) = n
        /\ \A i \in 1..n : Tail(longer)[i] = longer[i + 1]
    BY <1>1, <1>2, <1>3, HeadTailProperties
  <1>5. DOMAIN Tail(longer) = 1..n
    BY <1>4, LenProperties
  <1>6. Cache(entries, key) = IF Len(longer) > MaxList THEN Tail(longer)
                                                       ELSE longer
    BY DEF Cache
  <1> HIDE DEF longer, n
  <1>7. Current(Tail(longer))
    <2>1. \A i \in 1..n : i + 1 \in 1..(n + 1)
      BY <1>2
    <2>2. QED
      BY <1>1, <1>2, <1>4, <1>5, <2>1 DEF Current
  <1>8. CASE Len(longer) > MaxList
    BY <1>4, <1>6, <1>7, <1>8
  <1>9. CASE ~(Len(longer) > MaxList)
    BY <1>1, <1>2, <1>3, <1>6, <1>9 DEF Current
  <1>10. QED
    BY <1>8, <1>9

LEMMA EmptyIsCurrent == <<>> \in Seq(Entries) /\ Current(<<>>)
  <1>1. Len(<<>>) = 0 /\ DOMAIN <<>> = {}
    OBVIOUS
  <1>2. QED
    BY <1>1, EmptySeq, ServerAssumption DEF Current

-----------------------------------------------------------------------------
(* The steps.                                                              *)

LEMMA CurrentLists == ListsCurrent <=> Current(relayListCache)
  BY DEF ListsCurrent, Current

LEMMA CacheType ==
    TypeOK => relayListCache \in Seq(Entries)
  BY DEF TypeOK, Entries

\* A list depends on the inventory alone.
LEMMA ListsStay ==
    ASSUME ListsCurrent, UNCHANGED <<relays, relayListCache>>
    PROVE  ListsCurrent'
  BY DEF ListsCurrent, Listed

LEMMA InitStep == Init => IInv
  <1> SUFFICES ASSUME Init PROVE IInv
    OBVIOUS
  <1>1. PICK u \in Upstreams : relays = Offered(u) /\ relays # {}
    BY DEF Init
  <1>2. relays \in SUBSET Hosts
    <2>1. \A s \in Range(Enabled) : u[s] \in SUBSET Hosts
      BY EnabledType DEF Upstreams
    <2>2. QED
      BY <1>1, <2>1 DEF Offered
  <1>3. TypeOK
    <2>1. config \in Configs
      BY BackoffAssumption DEF Init, Configs, Sorts
    <2>2. loading \in [Refreshes -> 0..Len(Enabled)]
      BY EnabledType DEF Init
    <2>3. relayListCache \in Seq([key: ListKeys, list: SUBSET Hosts])
      BY EmptySeq DEF Init
    <2>4. QED
      BY <1>2, <2>1, <2>2, <2>3 DEF Init, TypeOK, HealthTypeOK
  <1>4. ListsCurrent
    BY EmptyIsCurrent, CurrentLists DEF Init
  <1>5. NeverEmptied
    BY <1>1 DEF NeverEmptied
  <1>6. \A f \in Refreshes : Accounted(f)
    BY DEF Init, Accounted
  <1>7. QED
    BY <1>3, <1>4, <1>5, <1>6 DEF IInv

LEMMA GetRelaysStep ==
    ASSUME IInv, NEW key \in ListKeys, GetRelays(key)
    PROVE  IInv'
  <1>1. TypeOK /\ Current(relayListCache)
    BY CurrentLists DEF IInv
  <1>2. relayListCache' \in Seq(Entries) /\ Current(relayListCache')
    <2>1. CASE Cached(key)
      BY <1>1, <2>1, CacheType DEF GetRelays
    <2>2. CASE ~Cached(key)
      BY <1>1, <2>2, CacheType, CacheKeepsCurrent DEF GetRelays, Cached
    <2>3. QED
      BY <2>1, <2>2
  <1>3. TypeOK'
    BY <1>1, <1>2 DEF GetRelays, TypeOK, HealthTypeOK, healthVars, refreshVars,
                      Entries
  <1>4. ListsCurrent'
    BY <1>2 DEF Current, ListsCurrent, Listed, GetRelays, healthVars
  <1>5. NeverEmptied' /\ \A f \in Refreshes : Accounted(f)'
    BY DEF IInv, NeverEmptied, Accounted, GetRelays, healthVars, refreshVars
  <1>6. QED
    BY <1>3, <1>4, <1>5 DEF IInv

LEMMA RotateStep ==
    ASSUME IInv, NEW c \in PartialConfigs, Rotate(c)
    PROVE  IInv'
  <1>1. config' \in Configs /\ UNCHANGED <<relays, cooling>>
    BY BackoffAssumption, RankAssumption
       DEF Rotate, UpdateHealth, PartialConfigs, NormalizeConfig, Configs, Sorts
  <1>2. ListKey(config') \in ListKeys
    BY <1>1 DEF ListKey, ListKeys, Configs
  <1>3. relayListCache' \in Seq(Entries) /\ Current(relayListCache')
    <2>1. \A i \in DOMAIN <<>> : <<>>[i].key # ListKey(config')
      OBVIOUS
    <2>2. QED
      BY <1>2, <2>1, EmptyIsCurrent, CacheKeepsCurrent DEF Rotate, IInv
  <1>4. TypeOK'
    BY <1>1, <1>3 DEF IInv, Rotate, TypeOK, HealthTypeOK, refreshVars, Entries
  <1>5. ListsCurrent'
    BY <1>1, <1>3 DEF Current, ListsCurrent, Listed
  <1>6. NeverEmptied' /\ \A f \in Refreshes : Accounted(f)'
    BY <1>1 DEF IInv, NeverEmptied, Accounted, Rotate, refreshVars
  <1>7. QED
    BY <1>4, <1>5, <1>6 DEF IInv

LEMMA StartRefreshStep ==
    ASSUME IInv, NEW f \in Refreshes, StartRefresh(f)
    PROVE  IInv'
  <1>1. TypeOK'
    BY EnabledType DEF IInv, StartRefresh, TypeOK, HealthTypeOK, healthVars
  <1>2. ListsCurrent'
    BY ListsStay DEF IInv, StartRefresh, healthVars
  <1>3. NeverEmptied'
    BY DEF IInv, NeverEmptied, StartRefresh, healthVars
  <1>4. ASSUME NEW g \in Refreshes PROVE Accounted(g)'
    <2>1. CASE g = f
      BY <2>1 DEF IInv, TypeOK, StartRefresh, Accounted
    <2>2. CASE g # f
      BY <2>2 DEF IInv, TypeOK, StartRefresh, Accounted
    <2>3. QED
      BY <2>1, <2>2
  <1>5. QED
    BY <1>1, <1>2, <1>3, <1>4 DEF IInv

LEMMA LoadSourceStep ==
    ASSUME IInv, NEW f \in Refreshes, LoadSource(f)
    PROVE  IInv'
  <1>1. loading[f] \in 1..(Len(Enabled) - 1) /\ loading[f] # 0
    BY DEF LoadSource
  <1>2. Gathered(f) \in SUBSET Hosts /\ Failed(f) \in BOOLEAN
    BY <1>1, GatheredType DEF IInv
  <1>3. TypeOK'
    BY <1>1, <1>2, EnabledType
       DEF IInv, LoadSource, TypeOK, HealthTypeOK, healthVars
  <1>4. ListsCurrent'
    BY ListsStay DEF IInv, LoadSource, healthVars
  <1>5. NeverEmptied'
    BY DEF IInv, NeverEmptied, LoadSource, healthVars
  <1>6. ASSUME NEW g \in Refreshes PROVE Accounted(g)'
    <2>1. CASE g = f
      <3>1. /\ loading'[f] = loading[f] + 1
            /\ gathered'[f] = Gathered(f) /\ errors'[f] = Failed(f)
        BY DEF IInv, TypeOK, LoadSource
      <3>2. CASE Failed(f)
        BY <2>1, <3>1, <3>2 DEF Accounted
      <3>3. CASE ~Failed(f)
        <4>1. \A i \in 1..loading[f] : Enabled[i] \in Throwing => Gathered(f) # {}
          BY <1>1, <3>3, AccountedGrows DEF IInv
        <4>2. loading'[f] - 1 = loading[f]
          BY <1>1, <3>1, EnabledType
        <4>3. QED
          BY <2>1, <3>1, <4>1, <4>2 DEF Accounted
      <3>4. QED
        BY <3>2, <3>3
    <2>2. CASE g # f
      BY <2>2 DEF IInv, TypeOK, LoadSource, Accounted
    <2>3. QED
      BY <2>1, <2>2
  <1>7. QED
    BY <1>3, <1>4, <1>5, <1>6 DEF IInv

LEMMA FinishRefreshStep ==
    ASSUME IInv, NEW f \in Refreshes, FinishRefresh(f)
    PROVE  IInv'
  <1>1. loading[f] = Len(Enabled) /\ loading[f] # 0
    BY EnabledType DEF FinishRefresh
  <1>2. Gathered(f) \in SUBSET Hosts
    BY <1>1, GatheredType DEF IInv
  <1>3. UNCHANGED <<relays, config, cooling, relayListCache>>
          \/ /\ relays' = Gathered(f)
             /\ UNCHANGED <<config, cooling>>
             /\ relayListCache' = <<>>
    BY DEF FinishRefresh, UpdateHealth, healthVars
  <1>4. TypeOK'
    <2>1. relayListCache' \in Seq(Entries)
      BY <1>3, CacheType, EmptyIsCurrent DEF IInv
    <2>2. QED
      BY <1>2, <1>3, <2>1, EnabledType
         DEF IInv, FinishRefresh, TypeOK, HealthTypeOK, Entries
  <1>5. ListsCurrent'
    <2>1. CASE relayListCache' = <<>>
      BY <2>1, EmptyIsCurrent DEF Current, ListsCurrent
    <2>2. CASE UNCHANGED <<relays, relayListCache>>
      BY <2>2, ListsStay DEF IInv
    <2>3. QED
      BY <1>3, <2>1, <2>2
  <1>6. NeverEmptied'
    <2> SUFFICES ASSUME NEW s \in Range(Enabled) \cap Throwing
                 PROVE  relays' # {}
      BY DEF NeverEmptied
    <2>1. PICK i \in 1..Len(Enabled) : s = Enabled[i]
      BY EnabledType
    <2>2. CASE Failed(f) /\ Gathered(f) = {}
      BY <2>2 DEF IInv, NeverEmptied, FinishRefresh, healthVars
    <2>3. CASE Failed(f) /\ Gathered(f) # {}
      BY <2>3 DEF FinishRefresh, UpdateHealth
    <2>4. CASE ~Failed(f)
      <3>1. Gathered(f) # {}
        BY <1>1, <2>1, <2>4, AccountedGrows DEF IInv
      <3>2. QED
        BY <2>4, <3>1 DEF FinishRefresh, UpdateHealth
    <2>5. QED
      BY <2>2, <2>3, <2>4
  <1>7. ASSUME NEW g \in Refreshes PROVE Accounted(g)'
    <2>1. CASE g = f
      BY <2>1 DEF IInv, TypeOK, FinishRefresh, Accounted
    <2>2. CASE g # f
      BY <2>2 DEF IInv, TypeOK, FinishRefresh, Accounted
    <2>3. QED
      BY <2>1, <2>2
  <1>8. QED
    BY <1>4, <1>5, <1>6, <1>7 DEF IInv

LEMMA SourceChangesStep ==
    ASSUME IInv, NEW s \in Sources, SourceChanges(s)
    PROVE  IInv'
  <1>1. upstream' \in Upstreams
    <2>1. PICK S \in Offers[s] : upstream' = [upstream EXCEPT ![s] = S]
      BY DEF SourceChanges
    <2>2. S \in SUBSET Hosts
      BY <2>1, ServerAssumption
    <2>3. QED
      BY <2>1, <2>2 DEF IInv, TypeOK, Upstreams
  <1>2. TypeOK'
    BY <1>1 DEF IInv, SourceChanges, TypeOK, HealthTypeOK, healthVars, refreshVars
  <1>3. ListsCurrent'
    BY ListsStay DEF IInv, SourceChanges, healthVars
  <1>4. NeverEmptied' /\ \A f \in Refreshes : Accounted(f)'
    BY DEF IInv, NeverEmptied, Accounted, SourceChanges, healthVars, refreshVars
  <1>5. QED
    BY <1>2, <1>3, <1>4 DEF IInv

LEMMA NextStep == IInv /\ [Next]_vars => IInv'
  <1> SUFFICES ASSUME IInv, [Next]_vars PROVE IInv'
    OBVIOUS
  <1>1. ASSUME NEW key \in ListKeys, GetRelays(key) PROVE IInv'
    BY <1>1, GetRelaysStep
  <1>2. ASSUME NEW c \in PartialConfigs, Rotate(c) PROVE IInv'
    BY <1>2, RotateStep
  <1>3. ASSUME NEW f \in Refreshes,
               StartRefresh(f) \/ LoadSource(f) \/ FinishRefresh(f)
        PROVE  IInv'
    BY <1>3, StartRefreshStep, LoadSourceStep, FinishRefreshStep
  <1>4. ASSUME NEW s \in Sources, SourceChanges(s) PROVE IInv'
    BY <1>4, SourceChangesStep
  <1>5. CASE UNCHANGED vars
    BY <1>5, ListsStay DEF vars, IInv, TypeOK, HealthTypeOK, NeverEmptied, Accounted
  <1>6. QED
    BY <1>1, <1>2, <1>3, <1>4, <1>5 DEF Next

-----------------------------------------------------------------------------

\* The invariant that the three theorems below are read off.
THEOREM Invariance == Spec => []IInv
  BY InitStep, NextStep, PTL DEF Spec

\* Every variable of the server keeps its type.
THEOREM TypeCorrect == Spec => []TypeOK
  <1>1. IInv => TypeOK
    BY DEF IInv
  <1>2. QED
    BY <1>1, Invariance, PTL

\* GET /relays never answers from the cache what the inventory in force would
\* not give, and the cache keeps within its capacity.
THEOREM ListsAreCurrent == Spec => []ListsCurrent
  <1>1. IInv => ListsCurrent
    BY DEF IInv
  <1>2. QED
    BY <1>1, Invariance, PTL

\* A server with a source that reports its failures always has a relay.
THEOREM InventoryNeverEmptied == Spec => []NeverEmptied
  <1>1. IInv => NeverEmptied
    BY DEF IInv
  <1>2. QED
    BY <1>1, Invariance, PTL

=============================================================================
