-------------------------- MODULE RelayRetryProofs --------------------------
(***************************************************************************)
(* For any number of requests, relays, sources and sessions, and every     *)
(* refresh, rotate and backoff between their attempts: the safety          *)
(* properties of RelayRetry.                                               *)
(***************************************************************************)
EXTENDS RelayRetry, FiniteSetTheorems, TLAPS

\* A request that has not begun has tried nothing, and fixed no source.
Fresh ==
    \A r \in Requests : stage[r] = "new" => attempted[r] = {} /\ source[r] = NONE

\* The relay an attempt is on is one that was tried.
Held == \A r \in Requests : Attempting(r) => current[r] \in attempted[r]

\* What an attempt changes of the requests and the totals.
Walk ==
    /\ stage \in [Requests -> Stages]
    /\ current \in [Requests -> Hosts \cup {NONE}]
    /\ source \in [Requests -> Sources \cup {NONE}]
    /\ attempted \in [Requests -> SUBSET Hosts]
    /\ totals \in Counters
    /\ Fresh
    /\ Held
    /\ SingleSource

IInv == TypeOK /\ Fresh /\ Held /\ SingleSource /\ BindingEarned

-----------------------------------------------------------------------------

LEMMA IncrementType ==
    ASSUME NEW n \in 0..MaxCount
    PROVE  Increment(n) \in 0..MaxCount
  BY RequestsAssumption DEF Increment

\* What nextFromSource answers, after a step: a servable relay of the source, or
\* undefined when there is none.
LEMMA AnswersOfSource ==
    ASSUME NEW s, NEW got \in SourceAnswers(s)'
    PROVE  \/ got = {} /\ OfSource(Servable', s) = {}
           \/ \E h \in OfSource(Servable', s) : got = {h}
  BY DEF SourceAnswers, OneOf, FirstOf, OfSource

LEMMA AttemptStep ==
    ASSUME IInv, NEW r \in Requests, NEW h \in Hosts, Attempt(r, h),
           stage[r] = "new" \/ SourceOf[h] = source[r]
    PROVE  Walk'
  <1>1. /\ stage' = [stage EXCEPT ![r] = "trying"]
        /\ current' = [current EXCEPT ![r] = h]
        /\ source' = [source EXCEPT ![r] =
                          IF source[r] = NONE THEN SourceOf[h] ELSE source[r]]
        /\ attempted' = [attempted EXCEPT ![r] = attempted[r] \cup {h}]
        /\ totals' = totals
    BY DEF Attempt
  <1>2. SourceOf[h] \in Sources
    BY HostsAssumption
  <1>3. /\ stage' \in [Requests -> Stages] /\ totals' \in Counters
        /\ current' \in [Requests -> Hosts \cup {NONE}]
        /\ source' \in [Requests -> Sources \cup {NONE}]
        /\ attempted' \in [Requests -> SUBSET Hosts]
    BY <1>1, <1>2 DEF IInv, TypeOK, Stages
  <1>4. stage'[r] = "trying" /\ current'[r] = h /\ h \in attempted'[r]
    BY <1>1 DEF IInv, TypeOK
  <1>5. \A o \in Requests \ {r} :
            /\ stage'[o] = stage[o] /\ current'[o] = current[o]
            /\ source'[o] = source[o] /\ attempted'[o] = attempted[o]
    BY <1>1 DEF IInv, TypeOK
  <1>6. Fresh' /\ Held'
    BY <1>4, <1>5 DEF IInv, Fresh, Held, Attempting
  <1>7. \A g \in attempted'[r] : SourceOf[g] = source'[r]
    <2>1. CASE stage[r] = "new"
      BY <1>1, <2>1 DEF IInv, TypeOK, Fresh
    <2>2. CASE SourceOf[h] = source[r]
      BY <1>1, <2>2 DEF IInv, TypeOK, SingleSource
    <2> QED
      BY <2>1, <2>2
  <1>8. SingleSource'
    BY <1>5, <1>7 DEF IInv, SingleSource
  <1> QED
    BY <1>3, <1>6, <1>8 DEF Walk

LEMMA GiveUpStep ==
    ASSUME IInv, NEW r \in Requests, GiveUp(r)
    PROVE  Walk'
  <1>1. /\ UNCHANGED <<current, source, attempted>>
        /\ stage' = [stage EXCEPT ![r] = IF attempted[r] = {} THEN "empty"
                                                              ELSE "failed"]
    BY DEF GiveUp
  <1>2. totals' \in Counters
    <2>1. totals \in Counters
      BY DEF IInv, TypeOK
    <2>2. Increment(totals.failures) \in 0..MaxCount
      BY <2>1, IncrementType DEF Counters
    <2>3. totals' \in {totals, [totals EXCEPT !.failures = Increment(totals.failures)]}
      BY DEF GiveUp
    <2> QED
      BY <2>1, <2>2, <2>3 DEF Counters
  <1>3. stage' \in [Requests -> Stages]
    BY <1>1 DEF IInv, TypeOK, Stages
  <1>4. stage'[r] \in {"empty", "failed"}
    BY <1>1 DEF IInv, TypeOK
  <1>5. \A o \in Requests \ {r} : stage'[o] = stage[o]
    BY <1>1 DEF IInv, TypeOK
  <1>6. Fresh' /\ Held' /\ SingleSource'
    BY <1>1, <1>4, <1>5 DEF IInv, Fresh, Held, SingleSource, Attempting
  <1> QED
    BY <1>1, <1>2, <1>3, <1>6 DEF IInv, TypeOK, Walk

LEMMA ContinueStep ==
    ASSUME IInv, NEW r \in Requests, NEW got \in SUBSET Hosts, Continue(r, got),
           \A h \in got : stage[r] = "new" \/ SourceOf[h] = source[r]
    PROVE  Walk'
  BY AttemptStep, GiveUpStep DEF Continue

\* handleRelayFailure and the next pick, as every kind of failure calls them.
LEMMA FailStep ==
    ASSUME IInv, NEW r \in Requests, Attempting(r), Fail(r)
    PROVE  /\ Walk' /\ HealthTypeOK' /\ StickyTypeOK' /\ BindingEarned'
           /\ relayStats' \in [Hosts -> Counters]
           /\ UNCHANGED <<captured, committed, servedKey>>
  <1> DEFINE h == current[r]
  <1>1. h \in Hosts
    BY DEF IInv, TypeOK, Held
  <1>2. HealthTypeOK'
    <2>1. config.backoff \in Nat
      BY BackoffAssumption DEF IInv, TypeOK, HealthTypeOK, Configs
    <2> QED
      BY <1>1, <2>1 DEF Fail, MarkUnhealthy, IInv, TypeOK, HealthTypeOK
  <1>s. PICK s \in {source[r]} : \E got \in SourceAnswers(s)' : Continue(r, got)
    BY DEF Fail
  <1>3. PICK got \in SourceAnswers(s)' : Continue(r, got)
    BY <1>s
  <1>4. got \in SUBSET Hosts /\ \A g \in got : SourceOf[g] = source[r]
    <2>1. Servable' \subseteq Hosts
      BY <1>2 DEF HealthTypeOK, Servable, Matched
    <2> QED
      BY <1>s, <1>3, <2>1, AnswersOfSource DEF OfSource
  <1>5. Walk'
    BY <1>3, <1>4, ContinueStep
  <1>6. relayStats' \in [Hosts -> Counters]
    <2>1. relayStats[h] \in Counters
      BY <1>1 DEF IInv, TypeOK
    <2>2. Increment(relayStats[h].failures) \in 0..MaxCount
      BY <2>1, IncrementType DEF Counters
    <2>3. relayStats' = [relayStats EXCEPT ![h] =
              [relayStats[h] EXCEPT !.failures = Increment(relayStats[h].failures)]]
      BY DEF Fail
    <2>4. [relayStats[h] EXCEPT !.failures = Increment(relayStats[h].failures)]
              \in Counters
      BY <2>1, <2>2 DEF Counters
    <2> QED
      BY <1>1, <2>3, <2>4 DEF IInv, TypeOK
  <1>7. \A k \in Keys : sessions'[k] \in {sessions[k], Unbound}
    BY DEF Fail, Forgotten, IInv, TypeOK, StickyTypeOK
  <1>8. StickyTypeOK'
    BY DEF Fail, Forgotten, IInv, TypeOK, StickyTypeOK, Bindings
  <1>9. servedKey' = servedKey
    BY DEF Fail
  <1>10. BindingEarned'
    BY <1>7, <1>9 DEF IInv, BindingEarned
  <1> QED
    BY <1>2, <1>5, <1>6, <1>8, <1>10 DEF Fail

-----------------------------------------------------------------------------

\* A binding that is looked up keeps its relay, or goes.
LEMMA LookedSessions ==
    ASSUME TypeOK, NEW k
    PROVE  /\ Looked(k) \in [Keys -> Bindings]
           /\ \A j \in Keys : Looked(k)[j] # Unbound =>
                  sessions[j] # Unbound /\ Looked(k)[j].relay = sessions[j].relay
  <1>1. sessions \in [Keys -> Bindings]
    BY DEF TypeOK, StickyTypeOK
  <1>2. CASE k \notin Keys
    BY <1>1, <1>2 DEF Looked
  <1>3. CASE k \in Keys /\ StickyRelay(k) = NONE
    BY <1>1, <1>3 DEF Looked, Bindings
  <1>4. CASE k \in Keys /\ StickyRelay(k) # NONE
    <2>1. sessions[k].relay # NONE
      BY <1>4 DEF StickyRelay
    <2>2. sessions[k] \in [relay : Hosts, left : 1..TTL]
      BY <1>1, <1>4, <2>1 DEF Bindings, Unbound
    <2>3. TTL \in 1..TTL
      BY StickyAssumption
    <2>4. Looked(k) = [sessions EXCEPT ![k] = [sessions[k] EXCEPT !.left = TTL]]
      BY <1>4 DEF Looked
    <2>5. /\ [sessions[k] EXCEPT !.left = TTL] \in [relay : Hosts, left : 1..TTL]
          /\ [sessions[k] EXCEPT !.left = TTL].relay = sessions[k].relay
      BY <2>2, <2>3
    <2>6. sessions[k] # Unbound
      BY <2>1 DEF Unbound
    <2> QED
      BY <1>1, <1>4, <2>4, <2>5, <2>6 DEF Bindings
  <1> QED
    BY <1>2, <1>3, <1>4

LEMMA BeginStep ==
    ASSUME IInv, NEW r \in Requests, Begin(r)
    PROVE  IInv'
  <1>1. stage[r] = "new" /\ captured' = [captured EXCEPT ![r] = StickyRelay(KeyOf[r])]
    BY DEF Begin
  <1>2. relays \in SUBSET Hosts /\ Servable \in SUBSET Hosts
    BY DEF IInv, TypeOK, HealthTypeOK, Matched, Servable
  <1>3. StickyRelay(KeyOf[r]) \in Hosts \cup {NONE}
    BY <1>2 DEF StickyRelay
  <1>4. captured' \in [Requests -> Hosts \cup {NONE}]
    BY <1>1, <1>3 DEF IInv, TypeOK
  <1>5. NextAnswers \subseteq SUBSET Hosts
    BY <1>2 DEF NextAnswers, OneOf, OfSource
  <1>6. PICK got \in (IF captured'[r] # NONE THEN {{captured'[r]}} ELSE NextAnswers) :
            Continue(r, got)
    BY DEF Begin
  <1>7. got \in SUBSET Hosts
    BY <1>4, <1>5, <1>6
  <1>8. Walk'
    BY <1>1, <1>6, <1>7, ContinueStep
  <1>9. sessions' = Looked(KeyOf[r])
    BY DEF Begin
  <1>10. StickyTypeOK' /\ BindingEarned'
    BY <1>9, LookedSessions DEF Begin, IInv, StickyTypeOK, BindingEarned
  <1> QED
    BY <1>4, <1>8, <1>10
       DEF Begin, IInv, TypeOK, Walk, HealthTypeOK, healthVars

\* The actions that may come to a failure: their other changes are of committed
\* and gone.
LEMMA FailureKeeps ==
    ASSUME IInv, NEW r \in Requests, Attempting(r), Fail(r),
           gone' \in [Requests -> BOOLEAN]
    PROVE  IInv'
  BY FailStep DEF IInv, TypeOK, Walk

LEMMA EstablishStep ==
    ASSUME IInv, NEW r \in Requests, Establish(r)
    PROVE  IInv'
  <1>1. stage[r] = "trying" /\ gone' = gone
    BY DEF Establish
  <1>2. CASE committed[r]
    BY <1>1, <1>2, FailureKeeps DEF Establish, Attempting, IInv, TypeOK
  <1>3. CASE ~committed[r]
    <2>1. /\ stage' = [stage EXCEPT ![r] = "serving"]
          /\ committed' = [committed EXCEPT ![r] = (KindOf[r] = "http")]
          /\ UNCHANGED <<healthVars, sessions, current, source, attempted,
                         captured, statsVars, servedKey>>
      BY <1>3 DEF Establish
    <2>2. stage' \in [Requests -> Stages] /\ committed' \in [Requests -> BOOLEAN]
      BY <2>1 DEF IInv, TypeOK, Stages
    <2>3. /\ stage'[r] = "serving"
          /\ \A o \in Requests \ {r} : stage'[o] = stage[o]
      BY <2>1 DEF IInv, TypeOK
    <2>4. Fresh' /\ Held'
      BY <1>1, <2>1, <2>3 DEF IInv, Fresh, Held, Attempting
    <2> QED
      BY <1>1, <2>1, <2>2, <2>4
         DEF IInv, TypeOK, HealthTypeOK, StickyTypeOK, SingleSource,
             BindingEarned, healthVars, statsVars
  <1> QED
    BY <1>2, <1>3

LEMMA SucceedStep ==
    ASSUME IInv, NEW r \in Requests, Succeed(r)
    PROVE  IInv'
  <1> DEFINE h == current[r]
             k == KeyOf[r]
  <1>1. /\ stage[r] = "serving"
        /\ stage' = [stage EXCEPT ![r] = "served"]
        /\ relayStats' = [relayStats EXCEPT ![h] =
               [relayStats[h] EXCEPT !.requests = Increment(relayStats[h].requests)]]
        /\ totals' = [totals EXCEPT !.requests = Increment(totals.requests)]
        /\ sessions' = Remembered(k, h)
        /\ servedKey' = [j \in Keys |-> IF j = k THEN servedKey[j] \cup {h}
                                                 ELSE servedKey[j]]
        /\ UNCHANGED <<healthVars, current, source, attempted, captured,
                       committed, gone>>
    BY DEF Succeed
  <1>2. h \in Hosts
    BY <1>1 DEF IInv, TypeOK, Held, Attempting
  <1>3. /\ stage' \in [Requests -> Stages] /\ stage'[r] = "served"
        /\ \A o \in Requests \ {r} : stage'[o] = stage[o]
    BY <1>1 DEF IInv, TypeOK, Stages
  <1>4. Fresh' /\ Held' /\ SingleSource'
    BY <1>1, <1>3 DEF IInv, Fresh, Held, Attempting, SingleSource
  <1>5. relayStats' \in [Hosts -> Counters]
    <2>1. relayStats[h] \in Counters
      BY <1>2 DEF IInv, TypeOK
    <2>2. Increment(relayStats[h].requests) \in 0..MaxCount
      BY <2>1, IncrementType DEF Counters
    <2>3. [relayStats[h] EXCEPT !.requests = Increment(relayStats[h].requests)]
              \in Counters
      BY <2>1, <2>2 DEF Counters
    <2> QED
      BY <1>1, <1>2, <2>3 DEF IInv, TypeOK
  <1>6. totals' \in Counters
    <2>1. totals \in Counters
      BY DEF IInv, TypeOK
    <2>2. Increment(totals.requests) \in 0..MaxCount
      BY <2>1, IncrementType DEF Counters
    <2> QED
      BY <1>1, <2>1, <2>2 DEF Counters
  <1>7. servedKey' \in [Keys -> SUBSET Hosts]
    BY <1>1, <1>2 DEF IInv, TypeOK
  <1>8. StickyTypeOK'
    <2>1. TTL \in 1..TTL
      BY StickyAssumption
    <2>2. [relay |-> h, left |-> TTL] \in Bindings
      BY <1>2, <2>1 DEF Bindings
    <2> QED
      BY <1>1, <2>2 DEF IInv, TypeOK, StickyTypeOK, Remembered
  <1>9. BindingEarned'
    <2> SUFFICES ASSUME NEW j \in Keys, sessions'[j] # Unbound
                 PROVE  sessions'[j].relay \in servedKey'[j]
      BY DEF BindingEarned
    <2>1. CASE j = k
      <3>1. sessions'[j] = [relay |-> h, left |-> TTL]
        BY <1>1, <2>1 DEF IInv, TypeOK, StickyTypeOK, Remembered
      <3> QED
        BY <1>1, <2>1, <3>1
    <2>2. CASE j # k
      <3>1. sessions'[j] = sessions[j] /\ servedKey'[j] = servedKey[j]
        BY <1>1, <2>2 DEF IInv, TypeOK, StickyTypeOK, Remembered
      <3> QED
        BY <3>1 DEF IInv, BindingEarned
    <2> QED
      BY <2>1, <2>2
  <1> QED
    BY <1>1, <1>3, <1>4, <1>5, <1>6, <1>7, <1>8, <1>9
       DEF IInv, TypeOK, HealthTypeOK, healthVars

LEMMA HttpClientLeavesStep ==
    ASSUME IInv, NEW r \in Requests, HttpClientLeaves(r)
    PROVE  IInv'
  <1>1. Attempting(r) /\ gone' \in [Requests -> BOOLEAN]
    BY DEF HttpClientLeaves, IInv, TypeOK
  <1>2. CASE Fail(r)
    BY <1>1, <1>2, FailureKeeps
  <1>3. CASE UNCHANGED <<healthVars, sessions, stage, current, source, attempted,
                         captured, committed, statsVars, servedKey>>
    BY <1>1, <1>3 DEF IInv, TypeOK, HealthTypeOK, StickyTypeOK, Fresh, Held,
                      Attempting, SingleSource, BindingEarned, healthVars, statsVars
  <1> QED
    BY <1>2, <1>3 DEF HttpClientLeaves

LEMMA UpdateStep ==
    ASSUME IInv, NEW nextRelays \in SUBSET Hosts, NEW nextConfig \in Configs,
           Update(nextRelays, nextConfig)
    PROVE  IInv'
  BY DEF Update, UpdateHealth, requestVars, statsVars, IInv, TypeOK, HealthTypeOK,
         StickyTypeOK, Fresh, Held, Attempting, SingleSource, BindingEarned

LEMMA TickStep ==
    ASSUME IInv, Tick
    PROVE  IInv'
  <1>1. cooling' \in [Hosts -> Nat]
    BY DEF Tick, Cooled, IInv, TypeOK, HealthTypeOK
  <1>2. \A k \in Keys :
            /\ Aged[k] \in Bindings
            /\ Aged[k] # Unbound =>
                   sessions[k] # Unbound /\ Aged[k].relay = sessions[k].relay
    <2> SUFFICES ASSUME NEW k \in Keys
                 PROVE  /\ Aged[k] \in Bindings
                        /\ Aged[k] # Unbound =>
                               /\ sessions[k] # Unbound
                               /\ Aged[k].relay = sessions[k].relay
      OBVIOUS
    <2>1. sessions[k] \in Bindings
      BY DEF IInv, TypeOK, StickyTypeOK
    <2>2. CASE sessions[k].left > 1
      <3>1. sessions[k] \in [relay : Hosts, left : 1..TTL]
        BY <2>1, <2>2 DEF Bindings, Unbound
      <3>2. sessions[k].left - 1 \in 1..TTL
        BY <2>2, <3>1, StickyAssumption
      <3>3. Aged[k] = [sessions[k] EXCEPT !.left = sessions[k].left - 1]
        BY <2>2 DEF Aged
      <3>4. sessions[k] # Unbound
        BY <2>2 DEF Unbound
      <3>5. Aged[k] \in [relay : Hosts, left : 1..TTL]
            /\ Aged[k].relay = sessions[k].relay
        BY <3>1, <3>2, <3>3
      <3> QED
        BY <3>4, <3>5 DEF Bindings
    <2>3. CASE ~(sessions[k].left > 1)
      BY <2>3 DEF Aged, Bindings
    <2> QED
      BY <2>2, <2>3
  <1>3. sessions' = Aged /\ servedKey' = servedKey
    BY DEF Tick
  <1>4. Aged \in [Keys -> Bindings]
    BY <1>2 DEF Aged
  <1>5. StickyTypeOK' /\ BindingEarned'
    BY <1>2, <1>3, <1>4 DEF StickyTypeOK, BindingEarned, IInv
  <1> QED
    BY <1>1, <1>5 DEF Tick, requestVars, statsVars, IInv, TypeOK, HealthTypeOK,
                      Fresh, Held, Attempting, SingleSource

LEMMA InitHolds == Init => IInv
  <1> SUFFICES ASSUME Init PROVE IInv
    OBVIOUS
  <1>1. HealthTypeOK
    BY HostsAssumption DEF Init, HealthTypeOK
  <1>2. StickyTypeOK /\ BindingEarned
    BY DEF Init, StickyTypeOK, Bindings, BindingEarned
  <1>3. 0 \in 0..MaxCount
    BY RequestsAssumption
  <1>4. relayStats \in [Hosts -> Counters] /\ totals \in Counters
    BY <1>3 DEF Init, Counters
  <1> QED
    BY <1>1, <1>2, <1>4
       DEF Init, IInv, TypeOK, Stages, Fresh, Held, Attempting, SingleSource

\* The inductive invariant: types, sources and bindings, with where a request
\* begins and what its attempt is on.
THEOREM Invariance == Spec => []IInv
  <1>1. IInv /\ [Next]_vars => IInv'
    <2> SUFFICES ASSUME IInv, [Next]_vars PROVE IInv'
      OBVIOUS
    <2>1. ASSUME NEW r \in Requests, Begin(r) PROVE IInv'
      BY <2>1, BeginStep
    <2>2. ASSUME NEW r \in Requests, RelayFails(r) PROVE IInv'
      BY <2>2, FailureKeeps DEF RelayFails, Attempting, IInv, TypeOK
    <2>3. ASSUME NEW r \in Requests, Establish(r) PROVE IInv'
      BY <2>3, EstablishStep
    <2>4. ASSUME NEW r \in Requests, Succeed(r) PROVE IInv'
      BY <2>4, SucceedStep
    <2>5. ASSUME NEW r \in Requests, TunnelClientLeaves(r) PROVE IInv'
      <3>1. gone' \in [Requests -> BOOLEAN]
        BY <2>5 DEF TunnelClientLeaves, IInv, TypeOK
      <3> QED
        BY <2>5, <3>1, FailureKeeps DEF TunnelClientLeaves, Attempting
    <2>6. ASSUME NEW r \in Requests, HttpClientLeaves(r) PROVE IInv'
      BY <2>6, HttpClientLeavesStep
    <2>7. ASSUME NEW inventory \in Inventories, Update(inventory, config)
          PROVE  IInv'
      <3>1. inventory \in SUBSET Hosts /\ config \in Configs
        BY HostsAssumption DEF IInv, TypeOK, HealthTypeOK
      <3> QED
        BY <2>7, <3>1, UpdateStep
    <2>8. ASSUME NEW c \in PartialConfigs, Update(relays, NormalizeConfig(c))
          PROVE  IInv'
      <3>1. relays \in SUBSET Hosts /\ NormalizeConfig(c) \in Configs
        BY BackoffAssumption, RankAssumption
           DEF IInv, TypeOK, HealthTypeOK, PartialConfigs, NormalizeConfig,
               Configs, Sorts
      <3> QED
        BY <2>8, <3>1, UpdateStep
    <2>9. CASE Tick
      BY <2>9, TickStep
    <2>10. CASE UNCHANGED vars
      BY <2>10 DEF vars, IInv, TypeOK, HealthTypeOK, StickyTypeOK, Fresh, Held,
                   Attempting, SingleSource, BindingEarned
    <2> QED
      BY <2>1, <2>2, <2>3, <2>4, <2>5, <2>6, <2>7, <2>8, <2>9, <2>10 DEF Next
  <1> QED
    BY <1>1, InitHolds, PTL DEF Spec

\* Every variable keeps its type.
THEOREM TypeCorrect == Spec => []TypeOK
  <1>1. IInv => TypeOK
    BY DEF IInv
  <1> QED
    BY <1>1, Invariance, PTL

\* A request's attempts are all on relays of one source, for every interleaving
\* with other requests, refreshes and rotates.
THEOREM RequestsKeepTheirSource == Spec => []SingleSource
  <1>1. IInv => SingleSource
    BY DEF IInv
  <1> QED
    BY <1>1, Invariance, PTL

\* A session is bound to no relay but one that has served it.
THEOREM BindingsAreEarned == Spec => []BindingEarned
  <1>1. IInv => BindingEarned
    BY DEF IInv
  <1> QED
    BY <1>1, Invariance, PTL

-----------------------------------------------------------------------------

\* A pick that ends a request with an error behind it is of nothing, or of a
\* relay tried before the one that has just failed.
LEMMA FailGivesUp ==
    ASSUME IInv, NEW r \in Requests, Attempting(r), Fail(r), stage'[r] = "failed"
    PROVE  \/ OfSource(Servable', source[r]) = {}
           \/ config.backoff = 0
           \/ \E h \in attempted[r] \ {current[r]} : h \in Servable'
  <1>s. PICK s \in {source[r]} : \E got \in SourceAnswers(s)' : Continue(r, got)
    BY DEF Fail
  <1>1. PICK got \in SourceAnswers(s)' : Continue(r, got)
    BY <1>s
  <1>2. got \subseteq attempted[r]
    <2> SUFFICES ASSUME ~(got \subseteq attempted[r]) PROVE FALSE
      OBVIOUS
    <2>1. \E h \in got : Attempt(r, h)
      BY <1>1 DEF Continue
    <2>2. stage'[r] = "trying"
      BY <2>1 DEF Attempt, IInv, TypeOK
    <2> QED
      BY <2>2
  <1>3. CASE got = {}
    BY <1>s, <1>1, <1>3, AnswersOfSource
  <1>4. CASE got # {} /\ config.backoff # 0
    <2>1. PICK h \in OfSource(Servable', source[r]) : got = {h}
      BY <1>s, <1>1, <1>4, AnswersOfSource
    <2>2. h \in Servable' /\ h \in attempted[r]
      BY <1>2, <2>1 DEF OfSource
    <2>3. current[r] \in Hosts
      BY DEF IInv, TypeOK, Held
    <2>4. cooling'[current[r]] = config.backoff
      BY <2>3 DEF Fail, MarkUnhealthy, IInv, TypeOK, HealthTypeOK
    <2>5. config.backoff \in Nat
      BY BackoffAssumption DEF IInv, TypeOK, HealthTypeOK, Configs
    <2>6. current[r] \notin Servable'
      BY <1>4, <2>4, <2>5 DEF Servable, IsUnhealthy
    <2> QED
      BY <2>2, <2>6
  <1> QED
    BY <1>3, <1>4

\* While its source has a relay to serve, a request gives up for two reasons
\* only: the backoff is 0, or one of its earlier relays is off its backoff
\* (relay-retry.ts, tryRelaysSequential).
THEOREM GivesUpForAReason == Spec => GiveUpJustified
  <1> DEFINE Reason(r) ==
          \/ OfSource(Servable', source[r]) = {}
          \/ config.backoff = 0
          \/ \E h \in attempted[r] \ {current[r]} : h \in Servable'
  <1>1. ASSUME IInv, [Next]_vars, NEW r \in Requests, GivesUp(r)
        PROVE  Reason(r)
    <2>1. Attempting(r) /\ stage'[r] = "failed" /\ stage[r] # "failed"
      BY <1>1 DEF GivesUp, Attempting
    <2>2. ASSUME NEW o \in Requests, Attempting(o), Fail(o) PROVE Reason(r)
      <3>1. CASE o = r
        BY <1>1, <2>1, <2>2, <3>1, FailGivesUp
      <3>2. CASE o # r
        <4>1. PICK got : Continue(o, got)
          BY <2>2 DEF Fail
        <4>2. stage'[r] = stage[r]
          BY <1>1, <3>2, <4>1 DEF Continue, Attempt, GiveUp, IInv, TypeOK
        <4> QED
          BY <2>1, <4>2
      <3> QED
        BY <3>1, <3>2
    <2>3. ASSUME NEW o \in Requests, Begin(o) PROVE Reason(r)
      <3>1. o # r
        BY <2>1, <2>3 DEF Begin, Attempting
      <3>2. PICK got : Continue(o, got)
        BY <2>3 DEF Begin
      <3>3. stage'[r] = stage[r]
        BY <1>1, <3>1, <3>2 DEF Continue, Attempt, GiveUp, IInv, TypeOK
      <3> QED
        BY <2>1, <3>3
    <2>4. ASSUME NEW o \in Requests,
                 RelayFails(o) \/ TunnelClientLeaves(o) \/ HttpClientLeaves(o)
          PROVE  Reason(r)
      <3>1. Attempting(o)
        BY <2>4 DEF RelayFails, TunnelClientLeaves, HttpClientLeaves, Attempting
      <3>2. CASE Fail(o)
        BY <2>2, <3>1, <3>2
      <3>3. CASE stage' = stage
        BY <2>1, <3>3
      <3> QED
        BY <2>4, <3>2, <3>3 DEF RelayFails, TunnelClientLeaves, HttpClientLeaves
    <2>5. ASSUME NEW o \in Requests, Establish(o) PROVE Reason(r)
      <3>1. Attempting(o)
        BY <2>5 DEF Establish, Attempting
      <3>2. CASE committed[o]
        BY <2>2, <2>5, <3>1, <3>2 DEF Establish
      <3>3. CASE ~committed[o]
        <4>1. stage' = [stage EXCEPT ![o] = "serving"]
          BY <2>5, <3>3 DEF Establish
        <4>2. stage'[r] # "failed"
          BY <1>1, <2>1, <4>1 DEF IInv, TypeOK
        <4> QED
          BY <2>1, <4>2
      <3> QED
        BY <3>2, <3>3
    <2>6. ASSUME NEW o \in Requests, Succeed(o) PROVE Reason(r)
      <3>1. stage' = [stage EXCEPT ![o] = "served"]
        BY <2>6 DEF Succeed
      <3>2. stage'[r] # "failed"
        BY <1>1, <2>1, <3>1 DEF IInv, TypeOK
      <3> QED
        BY <2>1, <3>2
    <2>7. CASE stage' = stage
      BY <2>1, <2>7
    <2> QED
      BY <1>1, <2>2, <2>3, <2>4, <2>5, <2>6, <2>7
         DEF Next, Update, Tick, requestVars, vars
  <1>2. IInv /\ [Next]_vars =>
            [\A r \in Requests : GivesUp(r) => Reason(r)]_vars
    BY <1>1
  <1> QED
    BY <1>2, Invariance, PTL DEF Spec, GiveUpJustified

-----------------------------------------------------------------------------
(* The counters.                                                           *)

\* The requests whose attempt on h is over, and those at a stage.
Over(h) == {r \in Requests : h \in attempted[r] /\ (current[r] = h => ~Attempting(r))}
At(s) == {r \in Requests : stage[r] = s}

\* The two halves of StatsBalance.
RelaysBalance ==
    \A h \in Hosts :
        relayStats[h].requests + relayStats[h].failures = Cardinality(Over(h))
TotalsBalance ==
    /\ totals.requests = Cardinality(At("served"))
    /\ totals.failures = Cardinality(At("failed"))

LEMMA Halves == StatsBalance <=> RelaysBalance /\ TotalsBalance
  BY DEF StatsBalance, RelaysBalance, TotalsBalance, Over, At

LEMMA OneMore ==
    ASSUME NEW S \in SUBSET Requests, NEW r \in Requests, r \notin S
    PROVE  /\ Cardinality(S) \in Nat
           /\ Cardinality(S \cup {r}) = Cardinality(S) + 1
           /\ Cardinality(S) < MaxCount
  <1>1. IsFiniteSet(Requests) /\ MaxCount \in Nat
        /\ Cardinality(Requests) <= MaxCount
    BY RequestsAssumption
  <1>2. IsFiniteSet(S)
    BY <1>1, FS_Subset
  <1>3. Cardinality(S) \in Nat /\ Cardinality(Requests) \in Nat
    BY <1>1, <1>2, FS_CardinalityType
  <1>4. Cardinality(S \cup {r}) = Cardinality(S) + 1
    BY <1>2, FS_AddElement
  <1>5. Cardinality(S \cup {r}) <= Cardinality(Requests)
    BY <1>1, FS_Subset
  <1> QED
    BY <1>1, <1>3, <1>4, <1>5

\* An attempt that is over is counted, as a request or as a failure.
LEMMA CountedOnRelay ==
    ASSUME IInv, RelaysBalance, NEW r \in Requests, Attempting(r),
           NEW field \in {"requests", "failures"},
           relayStats' = [relayStats EXCEPT ![current[r]] =
               [relayStats[current[r]] EXCEPT ![field] =
                    Increment(relayStats[current[r]][field])]],
           \A g \in Hosts : Over(g)' = IF g = current[r] THEN Over(g) \cup {r}
                                                         ELSE Over(g)
    PROVE  RelaysBalance'
  <1> DEFINE h == current[r]
  <1>1. h \in Hosts /\ r \notin Over(h)
    BY DEF IInv, TypeOK, Held, Over
  <1>2. Over(h) \in SUBSET Requests
    BY DEF Over
  <1>3. /\ Cardinality(Over(h)) \in Nat
        /\ Cardinality(Over(h) \cup {r}) = Cardinality(Over(h)) + 1
        /\ Cardinality(Over(h)) < MaxCount
    BY <1>1, <1>2, OneMore
  <1>4. /\ relayStats[h] \in Counters
        /\ relayStats[h].requests + relayStats[h].failures
             = Cardinality(Over(h))
    BY <1>1 DEF IInv, TypeOK, RelaysBalance
  <1>5. /\ relayStats[h].requests \in Nat /\ relayStats[h].failures \in Nat
        /\ MaxCount \in Nat
    BY <1>4, RequestsAssumption DEF Counters
  <1>6. relayStats[h].requests < MaxCount /\ relayStats[h].failures < MaxCount
    BY <1>3, <1>4, <1>5
  <1>7. /\ Increment(relayStats[h].requests) = relayStats[h].requests + 1
        /\ Increment(relayStats[h].failures) = relayStats[h].failures + 1
    BY <1>6 DEF Increment
  <1>8. relayStats'[h] =
            [relayStats[h] EXCEPT ![field] = Increment(relayStats[h][field])]
    BY <1>1 DEF IInv, TypeOK
  <1>9. relayStats'[h].requests + relayStats'[h].failures
          = Cardinality(Over(h)) + 1
    <2>1. CASE field = "requests"
      <3>1. /\ relayStats'[h].requests = relayStats[h].requests + 1
            /\ relayStats'[h].failures = relayStats[h].failures
        BY <1>4, <1>7, <1>8, <2>1 DEF Counters
      <3> QED
        BY <1>4, <1>5, <3>1
    <2>2. CASE field = "failures"
      <3>1. /\ relayStats'[h].requests = relayStats[h].requests
            /\ relayStats'[h].failures = relayStats[h].failures + 1
        BY <1>4, <1>7, <1>8, <2>2 DEF Counters
      <3> QED
        BY <1>4, <1>5, <3>1
    <2> QED
      BY <2>1, <2>2
  <1>10. ASSUME NEW g \in Hosts
         PROVE  relayStats'[g].requests + relayStats'[g].failures
                  = Cardinality(Over(g)')
    <2>1. CASE g = h
      BY <1>3, <1>9, <2>1
    <2>2. CASE g # h
      <3>1. relayStats'[g] = relayStats[g]
        BY <2>2 DEF IInv, TypeOK
      <3> QED
        BY <2>2, <3>1 DEF RelaysBalance
    <2> QED
      BY <2>1, <2>2
  <1> QED
    BY <1>10 DEF RelaysBalance

\* The request that comes to a stage whose requests the totals count is counted.
LEMMA CountedInTotals ==
    ASSUME IInv, TotalsBalance, NEW r \in Requests, NEW s,
           stage[r] \notin {"served", "failed"},
           stage' = [stage EXCEPT ![r] = s],
           totals' = CASE s = "served" ->
                            [totals EXCEPT !.requests = Increment(totals.requests)]
                       [] s = "failed" ->
                            [totals EXCEPT !.failures = Increment(totals.failures)]
                       [] OTHER -> totals
    PROVE  TotalsBalance'
  <1>1. \A t \in {"served", "failed"} :
            At(t)' = IF s = t THEN At(t) \cup {r} ELSE At(t)
    BY DEF IInv, TypeOK, At
  <1>2. \A t \in {"served", "failed"} : At(t) \in SUBSET Requests /\ r \notin At(t)
    BY DEF At
  <1>3. totals \in Counters
    BY DEF IInv, TypeOK
  <1>4. totals.requests \in Nat /\ totals.failures \in Nat /\ MaxCount \in Nat
    BY <1>3, RequestsAssumption DEF Counters
  <1>5. /\ Cardinality(At("served")) < MaxCount
        /\ Cardinality(At("failed")) < MaxCount
        /\ Cardinality(At("served") \cup {r}) = Cardinality(At("served")) + 1
        /\ Cardinality(At("failed") \cup {r}) = Cardinality(At("failed")) + 1
    BY <1>2, OneMore
  <1>6. /\ Increment(totals.requests) = totals.requests + 1
        /\ Increment(totals.failures) = totals.failures + 1
    BY <1>5 DEF Increment, TotalsBalance
  <1>7. CASE s = "served"
    <2>1. totals'.requests = totals.requests + 1 /\ totals'.failures = totals.failures
      BY <1>3, <1>6, <1>7 DEF Counters
    <2>2. At("served")' = At("served") \cup {r} /\ At("failed")' = At("failed")
      BY <1>1, <1>7
    <2> QED
      BY <1>5, <2>1, <2>2 DEF TotalsBalance
  <1>8. CASE s = "failed"
    <2>1. totals'.requests = totals.requests /\ totals'.failures = totals.failures + 1
      BY <1>3, <1>6, <1>8 DEF Counters
    <2>2. At("served")' = At("served") /\ At("failed")' = At("failed") \cup {r}
      BY <1>1, <1>8
    <2> QED
      BY <1>5, <2>1, <2>2 DEF TotalsBalance
  <1>9. CASE s \notin {"served", "failed"}
    BY <1>1, <1>9 DEF TotalsBalance
  <1> QED
    BY <1>7, <1>8, <1>9

LEMMA ContinueTotals ==
    ASSUME IInv, TotalsBalance, NEW r \in Requests, NEW got, Continue(r, got),
           stage[r] = "new" \/ Attempting(r)
    PROVE  TotalsBalance'
  <1>1. stage[r] \notin {"served", "failed"}
    BY DEF Attempting
  <1>2. ASSUME NEW h, Attempt(r, h) PROVE TotalsBalance'
    <2>1. stage' = [stage EXCEPT ![r] = "trying"] /\ totals' = totals
      BY <1>2 DEF Attempt
    <2> QED
      BY <1>1, <2>1, CountedInTotals
  <1>3. CASE GiveUp(r) /\ attempted[r] = {}
    <2>1. stage' = [stage EXCEPT ![r] = "empty"] /\ totals' = totals
      BY <1>3 DEF GiveUp
    <2> QED
      BY <1>1, <2>1, CountedInTotals
  <1>4. CASE GiveUp(r) /\ attempted[r] # {}
    <2>1. /\ stage' = [stage EXCEPT ![r] = "failed"]
          /\ totals' = [totals EXCEPT !.failures = Increment(totals.failures)]
      BY <1>4 DEF GiveUp
    <2> QED
      BY <1>1, <2>1, CountedInTotals
  <1> QED
    BY <1>2, <1>3, <1>4 DEF Continue

\* After a failure the attempt on the failed relay is over, and the one that is
\* begun is not.
LEMMA FailOver ==
    ASSUME IInv, NEW r \in Requests, Attempting(r), Fail(r), NEW g \in Hosts
    PROVE  Over(g)' = IF g = current[r] THEN Over(g) \cup {r} ELSE Over(g)
  <1>s. PICK s \in {source[r]} : \E got \in SourceAnswers(s)' : Continue(r, got)
    BY DEF Fail
  <1>1. PICK got \in SourceAnswers(s)' : Continue(r, got)
    BY <1>s
  <1>2. current[r] \in attempted[r] /\ r \notin Over(current[r])
    BY DEF IInv, Held, Over
  <1>3. ASSUME NEW h, h \notin attempted[r], Attempt(r, h)
        PROVE  Over(g)' = IF g = current[r] THEN Over(g) \cup {r} ELSE Over(g)
    <2>1. /\ stage' = [stage EXCEPT ![r] = "trying"]
          /\ current' = [current EXCEPT ![r] = h]
          /\ attempted' = [attempted EXCEPT ![r] = attempted[r] \cup {h}]
      BY <1>3 DEF Attempt
    <2>2. /\ stage'[r] = "trying" /\ current'[r] = h
          /\ attempted'[r] = attempted[r] \cup {h}
          /\ \A o \in Requests \ {r} :
                 /\ stage'[o] = stage[o] /\ current'[o] = current[o]
                 /\ attempted'[o] = attempted[o]
      BY <2>1 DEF IInv, TypeOK
    <2>3. \A o \in Requests \ {r} : o \in Over(g)' <=> o \in Over(g)
      BY <2>2 DEF Over, Attempting
    <2>4. r \in Over(g)' <=> r \in Over(g) \/ g = current[r]
      BY <1>2, <1>3, <2>2 DEF Over, Attempting
    <2>5. Over(g) \subseteq Requests /\ Over(g)' \subseteq Requests
      BY DEF Over
    <2> QED
      BY <2>3, <2>4, <2>5
  <1>4. ASSUME GiveUp(r)
        PROVE  Over(g)' = IF g = current[r] THEN Over(g) \cup {r} ELSE Over(g)
    <2>1. /\ stage'[r] \in {"empty", "failed"}
          /\ \A o \in Requests \ {r} : stage'[o] = stage[o]
          /\ UNCHANGED <<current, attempted>>
      BY <1>4 DEF GiveUp, IInv, TypeOK
    <2>2. \A o \in Requests \ {r} : o \in Over(g)' <=> o \in Over(g)
      BY <2>1 DEF Over, Attempting
    <2>3. r \in Over(g)' <=> r \in Over(g) \/ g = current[r]
      BY <1>2, <2>1 DEF Over, Attempting
    <2>4. Over(g) \subseteq Requests /\ Over(g)' \subseteq Requests
      BY DEF Over
    <2> QED
      BY <2>2, <2>3, <2>4
  <1>5. CASE got \subseteq attempted[r]
    BY <1>1, <1>4, <1>5 DEF Continue
  <1>6. CASE ~(got \subseteq attempted[r])
    <2>1. PICK h \in OfSource(Servable', s) : got = {h}
      BY <1>1, <1>6, AnswersOfSource
    <2>2. h \notin attempted[r] /\ Attempt(r, h)
      BY <1>1, <1>6, <2>1 DEF Continue
    <2> QED
      BY <1>3, <2>2
  <1> QED
    BY <1>5, <1>6

LEMMA FailBalance ==
    ASSUME IInv, StatsBalance, NEW r \in Requests, Attempting(r), Fail(r)
    PROVE  StatsBalance'
  <1>1. RelaysBalance /\ TotalsBalance
    BY Halves
  <1>2. relayStats' = [relayStats EXCEPT ![current[r]] =
            [relayStats[current[r]] EXCEPT !["failures"] =
                 Increment(relayStats[current[r]]["failures"])]]
    BY DEF Fail
  <1>3. RelaysBalance'
    BY <1>1, <1>2, FailOver, CountedOnRelay
  <1>4. PICK got : Continue(r, got)
    BY DEF Fail
  <1>5. TotalsBalance'
    BY <1>1, <1>4, ContinueTotals
  <1> QED
    BY <1>3, <1>5 DEF StatsBalance, RelaysBalance, TotalsBalance, Over, At

\* Steps that end no attempt, and no request with an error behind it.
LEMMA NothingOver ==
    ASSUME IInv, StatsBalance, UNCHANGED relayStats,
           \A g \in Hosts : Over(g)' = Over(g), TotalsBalance'
    PROVE  StatsBalance'
  <1>1. RelaysBalance'
    BY Halves DEF RelaysBalance
  <1> QED
    BY <1>1 DEF StatsBalance, RelaysBalance, TotalsBalance, Over, At

LEMMA BeginBalance ==
    ASSUME IInv, StatsBalance, NEW r \in Requests, Begin(r)
    PROVE  StatsBalance'
  <1>1. stage[r] = "new" /\ attempted[r] = {} /\ UNCHANGED relayStats
    BY DEF Begin, IInv, Fresh
  <1>2. PICK got : Continue(r, got)
    BY DEF Begin
  <1>3. TotalsBalance'
    BY <1>1, <1>2, Halves, ContinueTotals
  <1>4. ASSUME NEW g \in Hosts PROVE Over(g)' = Over(g)
    <2>1. ASSUME NEW h, Attempt(r, h) PROVE Over(g)' = Over(g)
      <3>1. /\ stage'[r] = "trying" /\ current'[r] = h /\ attempted'[r] = {h}
            /\ \A o \in Requests \ {r} :
                   /\ stage'[o] = stage[o] /\ current'[o] = current[o]
                   /\ attempted'[o] = attempted[o]
        BY <1>1, <2>1 DEF Attempt, IInv, TypeOK
      <3>2. r \notin Over(g) /\ r \notin Over(g)'
        BY <1>1, <3>1 DEF Over, Attempting
      <3>3. \A o \in Requests \ {r} : o \in Over(g)' <=> o \in Over(g)
        BY <3>1 DEF Over, Attempting
      <3>4. Over(g) \subseteq Requests /\ Over(g)' \subseteq Requests
        BY DEF Over
      <3> QED
        BY <3>2, <3>3, <3>4
    <2>2. ASSUME GiveUp(r) PROVE Over(g)' = Over(g)
      <3>1. /\ attempted'[r] = {} /\ UNCHANGED <<current, attempted>>
            /\ \A o \in Requests \ {r} : stage'[o] = stage[o]
        BY <1>1, <2>2 DEF GiveUp, IInv, TypeOK
      <3>2. r \notin Over(g) /\ r \notin Over(g)'
        BY <1>1, <3>1 DEF Over
      <3>3. \A o \in Requests \ {r} : o \in Over(g)' <=> o \in Over(g)
        BY <3>1 DEF Over, Attempting
      <3>4. Over(g) \subseteq Requests /\ Over(g)' \subseteq Requests
        BY DEF Over
      <3> QED
        BY <3>2, <3>3, <3>4
    <2> QED
      BY <1>2, <2>1, <2>2 DEF Continue
  <1> QED
    BY <1>1, <1>3, <1>4, NothingOver

LEMMA EstablishBalance ==
    ASSUME IInv, StatsBalance, NEW r \in Requests, Establish(r)
    PROVE  StatsBalance'
  <1>1. stage[r] = "trying" /\ Attempting(r)
    BY DEF Establish, Attempting
  <1>2. CASE committed[r]
    BY <1>1, <1>2, FailBalance DEF Establish
  <1>3. CASE ~committed[r]
    <2>1. /\ stage' = [stage EXCEPT ![r] = "serving"] /\ totals' = totals
          /\ UNCHANGED <<relayStats, current, attempted>>
      BY <1>3 DEF Establish, statsVars
    <2>2. TotalsBalance'
      BY <1>1, <2>1, Halves, CountedInTotals
    <2>3. \A o \in Requests : Attempting(o)' <=> Attempting(o)
      BY <1>1, <2>1 DEF Attempting, IInv, TypeOK
    <2>4. \A g \in Hosts : Over(g)' = Over(g)
      BY <2>1, <2>3 DEF Over
    <2> QED
      BY <2>1, <2>2, <2>4, NothingOver
  <1> QED
    BY <1>2, <1>3

LEMMA SucceedBalance ==
    ASSUME IInv, StatsBalance, NEW r \in Requests, Succeed(r)
    PROVE  StatsBalance'
  <1>1. /\ stage[r] = "serving" /\ Attempting(r)
        /\ stage' = [stage EXCEPT ![r] = "served"]
        /\ totals' = [totals EXCEPT !.requests = Increment(totals.requests)]
        /\ UNCHANGED <<current, attempted>>
    BY DEF Succeed, Attempting
  <1>2. TotalsBalance'
    BY <1>1, Halves, CountedInTotals
  <1>3. relayStats' = [relayStats EXCEPT ![current[r]] =
            [relayStats[current[r]] EXCEPT !["requests"] =
                 Increment(relayStats[current[r]]["requests"])]]
    BY DEF Succeed
  <1>4. ASSUME NEW g \in Hosts
        PROVE  Over(g)' = IF g = current[r] THEN Over(g) \cup {r} ELSE Over(g)
    <2>1. /\ stage'[r] = "served" /\ current[r] \in attempted[r]
          /\ \A o \in Requests \ {r} : stage'[o] = stage[o]
      BY <1>1 DEF IInv, TypeOK, Held
    <2>2. \A o \in Requests \ {r} : o \in Over(g)' <=> o \in Over(g)
      BY <1>1, <2>1 DEF Over, Attempting
    <2>3. r \in Over(g)' <=> r \in Over(g) \/ g = current[r]
      BY <1>1, <2>1 DEF Over, Attempting
    <2>4. Over(g) \subseteq Requests /\ Over(g)' \subseteq Requests
      BY DEF Over
    <2> QED
      BY <2>2, <2>3, <2>4
  <1>5. RelaysBalance'
    BY <1>1, <1>3, <1>4, Halves, CountedOnRelay
  <1> QED
    BY <1>2, <1>5 DEF StatsBalance, RelaysBalance, TotalsBalance, Over, At

\* The counters add up, for any number of requests at once: each attempt that is
\* over is counted once, on its relay, and each request once in the totals.
THEOREM CountersAddUp == Spec => []StatsBalance
  <1>1. Init => StatsBalance
    <2> SUFFICES ASSUME Init PROVE StatsBalance
      OBVIOUS
    <2>1. \A h \in Hosts : Over(h) = {}
      BY DEF Init, Over
    <2>2. At("served") = {} /\ At("failed") = {}
      BY DEF Init, At
    <2>3. RelaysBalance /\ TotalsBalance
      <3>1. Cardinality({}) = 0
        BY FS_EmptySet
      <3>2. \A h \in Hosts :
                relayStats[h].requests = 0 /\ relayStats[h].failures = 0
        BY DEF Init
      <3>3. totals.requests = 0 /\ totals.failures = 0
        BY DEF Init
      <3>4. RelaysBalance
        BY <2>1, <3>1, <3>2 DEF RelaysBalance
      <3>5. TotalsBalance
        BY <2>2, <3>1, <3>3 DEF TotalsBalance
      <3> QED
        BY <3>4, <3>5
    <2> QED
      BY <2>3, Halves
  <1>2. IInv /\ StatsBalance /\ [Next]_vars => StatsBalance'
    <2> SUFFICES ASSUME IInv, StatsBalance, [Next]_vars PROVE StatsBalance'
      OBVIOUS
    <2>1. ASSUME NEW r \in Requests, Begin(r) PROVE StatsBalance'
      BY <2>1, BeginBalance
    <2>2. ASSUME NEW r \in Requests, Attempting(r), Fail(r) PROVE StatsBalance'
      BY <2>2, FailBalance
    <2>3. ASSUME NEW r \in Requests,
                 RelayFails(r) \/ TunnelClientLeaves(r) \/ HttpClientLeaves(r)
          PROVE  StatsBalance'
      <3>1. Attempting(r)
        BY <2>3 DEF RelayFails, TunnelClientLeaves, HttpClientLeaves, Attempting
      <3>2. CASE Fail(r)
        BY <2>2, <3>1, <3>2
      <3>3. CASE UNCHANGED <<stage, current, attempted, relayStats, totals>>
        BY <3>3 DEF StatsBalance, Attempting
      <3> QED
        BY <2>3, <3>2, <3>3
           DEF RelayFails, TunnelClientLeaves, HttpClientLeaves, statsVars
    <2>4. ASSUME NEW r \in Requests, Establish(r) PROVE StatsBalance'
      BY <2>4, EstablishBalance
    <2>5. ASSUME NEW r \in Requests, Succeed(r) PROVE StatsBalance'
      BY <2>5, SucceedBalance
    <2>6. CASE UNCHANGED <<stage, current, attempted, relayStats, totals>>
      BY <2>6 DEF StatsBalance, Attempting
    <2> QED
      BY <2>1, <2>3, <2>4, <2>5, <2>6
         DEF Next, Update, Tick, requestVars, statsVars, vars
  <1> QED
    BY <1>1, <1>2, Invariance, PTL DEF Spec

=============================================================================
