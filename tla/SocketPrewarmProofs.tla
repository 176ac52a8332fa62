------------------------ MODULE SocketPrewarmProofs ------------------------
(***************************************************************************)
(* Proofs about SocketPrewarm, for any number of endpoints and of sockets  *)
(* and every capacity: its types, that no connection is leaked and none is *)
(* kept twice, and that one that was handed out is left alone.             *)
(***************************************************************************)
EXTENDS SocketPrewarm, TLAPS

\* Who may still act on a socket. An entry, a timer and a close event belong to
\* a socket that was cached and is not handed out; the first two may outlive it.
Attached ==
    \A s \in Sockets :
        /\ s \in cache \cup armed => phase[s] \in {"idle", "destroyed"}
        /\ s \in closing => phase[s] = "destroyed"

\* The cache is a Map from endpoints: it has one socket for each.
Keyed == \A s, t \in cache : to[s] = to[t] => s = t

\* The inductive invariant. OneIdlePerEndpoint is not part of it: it follows, as
\* every idle socket is an entry.
IInv == TypeOK /\ Attached /\ Keyed /\ NoOrphan

LEMMA IdleIsKeyed ==
    ASSUME Keyed, NoOrphan
    PROVE  OneIdlePerEndpoint
  BY DEF Keyed, NoOrphan, OneIdlePerEndpoint

LEMMA WithoutType ==
    ASSUME TypeOK, NEW S
    PROVE  Without(S) \in [Sockets -> SUBSET Sockets]
  BY DEF TypeOK, Without

-----------------------------------------------------------------------------
(* One lemma for each operation.                                           *)

\* What a call lends is an idle socket it has taken out of the cache.
LEMMA StartPrewarmStep ==
    ASSUME IInv, NEW e \in Endpoints, NEW lent \in SUBSET cache,
           \A s \in lent : phase[s] = "idle",
           StartPrewarm(e, cache \ lent, lent)
    PROVE  /\ IInv'
           /\ \A s \in Sockets : phase[s] = "taken" => phase'[s] = "taken"
  <1> DEFINE live == cache \ lent
             evicted == IF Cardinality(live) >= MaxSize
                          THEN OldestOf(live) ELSE {}
  <1>1. PICK s \in Sockets :
            /\ Garbage(s)
            /\ to' = [to EXCEPT ![s] = e]
            /\ phase' = [x \in Sockets |->
                   IF x = s THEN "connecting"
                   ELSE IF x \in lent THEN "taken"
                   ELSE IF x \in evicted THEN "destroyed" ELSE phase[x]]
            /\ cache' = live \ evicted
            /\ newer' = Without((cache \ live) \cup evicted)
            /\ armed' = armed \ (evicted \cup lent)
            /\ closing' = closing \cup evicted
    BY DEF StartPrewarm
  <1>2. evicted \subseteq live /\ cache \subseteq Sockets
    BY DEF OldestOf, IInv, TypeOK
  <1> HIDE DEF evicted
  <1>3. /\ s \notin cache \cup armed \cup closing
        /\ phase[s] \in {"free", "destroyed"}
    BY <1>1 DEF Garbage
  <1>4. TypeOK'
    <2>1. newer' \in [Sockets -> SUBSET Sockets]
      BY <1>1, WithoutType DEF IInv
    <2>2. phase' \in [Sockets -> Phases]
      BY <1>1 DEF IInv, TypeOK, Phases
    <2> QED
      BY <1>1, <1>2, <2>1, <2>2 DEF IInv, TypeOK
  <1>5. Attached'
    BY <1>1, <1>2, <1>3 DEF IInv, TypeOK, Attached
  <1>6. Keyed'
    BY <1>1, <1>2, <1>3 DEF IInv, TypeOK, Keyed
  <1>7. NoOrphan'
    BY <1>1, <1>2, <1>3 DEF IInv, TypeOK, NoOrphan
  <1>8. ASSUME NEW t \in Sockets, phase[t] = "taken"
        PROVE  phase'[t] = "taken"
    BY <1>1, <1>2, <1>3, <1>8 DEF IInv, Attached
  <1> QED
    BY <1>4, <1>5, <1>6, <1>7, <1>8 DEF IInv

LEMMA PrewarmStep ==
    ASSUME IInv, NEW e \in Endpoints, Prewarm(e)
    PROVE  /\ IInv'
           /\ \A s \in Sockets : phase[s] = "taken" => phase'[s] = "taken"
  <1>1. cache \ {} = cache
    OBVIOUS
  <1> QED
    BY <1>1, StartPrewarmStep DEF Prewarm

LEMMA TakeStep ==
    ASSUME IInv, NEW e \in Endpoints, Take(e)
    PROVE  /\ IInv'
           /\ \A s \in Sockets : phase[s] = "taken" => phase'[s] = "taken"
  <1>1. PICK s \in Entry(e) :
            phase[s] = "idle" /\ StartPrewarm(e, cache \ {s}, {s})
    BY DEF Take
  <1>2. {s} \in SUBSET cache
    BY DEF Entry
  <1> QED
    BY <1>1, <1>2, StartPrewarmStep

LEMMA TakeDestroyedStep ==
    ASSUME IInv, NEW e \in Endpoints, TakeDestroyed(e)
    PROVE  IInv' /\ phase' = phase
  <1>1. PICK s \in Entry(e) :
            /\ phase[s] # "idle"
            /\ cache' = cache \ {s}
            /\ newer' = Without({s})
            /\ armed' = armed \ {s}
            /\ UNCHANGED <<phase, to, closing>>
    BY DEF TakeDestroyed
  <1>2. TypeOK'
    BY <1>1, WithoutType DEF IInv, TypeOK
  <1>3. Attached' /\ Keyed' /\ NoOrphan'
    BY <1>1 DEF IInv, TypeOK, Attached, Keyed, NoOrphan
  <1> QED
    BY <1>1, <1>2, <1>3 DEF IInv

\* Of the two sockets to one endpoint the one that was cached stays an entry,
\* and an idle one loses its timer only with its life.
LEMMA ConnectedStep ==
    ASSUME IInv, NEW s \in Sockets, Connected(s)
    PROVE  /\ IInv'
           /\ \A t \in Sockets : phase[t] = "taken" => phase'[t] = "taken"
  <1>1. phase[s] = "connecting" /\ to' = to
    BY DEF Connected
  <1>2. s \notin cache \cup armed \cup closing
    BY <1>1 DEF IInv, Attached
  <1>3. CASE Entry(to[s]) = {}
    <2>1. /\ phase' = [phase EXCEPT ![s] = "idle"]
          /\ cache' = cache \cup {s}
          /\ newer' = [x \in Sockets |->
                 IF x \in cache THEN newer[x] \cup {s}
                 ELSE IF x = s THEN {} ELSE newer[x]]
          /\ armed' = armed \cup {s}
          /\ closing' = closing
      BY <1>3 DEF Connected
    <2>2. TypeOK'
      BY <1>1, <2>1 DEF IInv, TypeOK, Phases
    <2>3. Attached' /\ NoOrphan'
      BY <1>1, <1>2, <2>1 DEF IInv, TypeOK, Attached, NoOrphan
    <2>4. \A t \in cache : to[t] # to[s]
      BY <1>3 DEF Entry
    <2>5. Keyed'
      BY <1>1, <2>1, <2>4 DEF IInv, Keyed
    <2> QED
      BY <1>1, <2>1, <2>2, <2>3, <2>5 DEF IInv, TypeOK
  <1>4. CASE Entry(to[s]) # {}
    <2> DEFINE entry == Entry(to[s])
    <2>1. /\ phase' = [x \in Sockets |->
                 IF x = s \/ x \in entry THEN "destroyed" ELSE phase[x]]
          /\ closing' = closing \cup {x \in entry : phase[x] = "idle"}
          /\ armed' = armed \ entry
          /\ UNCHANGED <<cache, newer>>
      BY <1>4 DEF Connected
    <2>2. entry \subseteq cache
      BY DEF Entry
    <2> HIDE DEF entry
    <2>3. TypeOK'
      BY <1>1, <2>1, <2>2 DEF IInv, TypeOK, Phases
    <2>4. Attached' /\ NoOrphan'
      BY <1>1, <1>2, <2>1, <2>2 DEF IInv, TypeOK, Attached, NoOrphan
    <2>5. Keyed'
      BY <1>1, <2>1 DEF IInv, Keyed
    <2>6. ASSUME NEW t \in Sockets, phase[t] = "taken"
          PROVE  phase'[t] = "taken"
      BY <1>1, <2>1, <2>2, <2>6 DEF IInv, Attached
    <2> QED
      BY <2>3, <2>4, <2>5, <2>6 DEF IInv
  <1> QED
    BY <1>3, <1>4

\* A socket that dies, by the relay, by its timer or unborn, and what it has
\* left to do: it removes itself from the cache, or was never in it.
LEMMA DestroyedStep ==
    ASSUME IInv, NEW s \in Sockets,
           ConnectFails(s) \/ PeerCloses(s) \/ IdleTimeout(s) \/ OwnerCloses(s)
    PROVE  IInv'
  <1>1. /\ phase' = [phase EXCEPT ![s] = "destroyed"]
        /\ to' = to
        /\ cache' \in {cache, cache \ {s}}
        /\ newer' \in {newer, Without({s})}
        /\ armed' \in {armed, armed \ {s}}
        /\ closing' \in {closing, closing \cup {s}}
    BY DEF ConnectFails, PeerCloses, IdleTimeout, OwnerCloses, Cleanup
  <1>2. TypeOK'
    BY <1>1, WithoutType DEF IInv, TypeOK, Phases
  <1>3. Attached' /\ Keyed' /\ NoOrphan'
    BY <1>1 DEF IInv, TypeOK, Attached, Keyed, NoOrphan
  <1> QED
    BY <1>2, <1>3 DEF IInv

LEMMA CloseEventStep ==
    ASSUME IInv, NEW s \in Sockets, CloseEvent(s)
    PROVE  IInv' /\ phase' = phase
  <1>1. /\ s \in closing
        /\ closing' = closing \ {s}
        /\ cache' = cache \ {s}
        /\ newer' = Without({s})
        /\ UNCHANGED <<phase, to, armed>>
    BY DEF CloseEvent, Cleanup
  <1>2. TypeOK'
    BY <1>1, WithoutType DEF IInv, TypeOK
  <1>3. Attached' /\ Keyed' /\ NoOrphan'
    BY <1>1 DEF IInv, TypeOK, Attached, Keyed, NoOrphan
  <1> QED
    BY <1>1, <1>2, <1>3 DEF IInv

\* The timer and the relay act on a socket that nobody has taken.
LEMMA OnlyTheOwnerCloses ==
    ASSUME IInv, NEW s \in Sockets,
           ConnectFails(s) \/ PeerCloses(s) \/ IdleTimeout(s) \/ OwnerCloses(s),
           NEW t \in Sockets, phase[t] = "taken"
    PROVE  phase'[t] = "taken" \/ OwnerCloses(t)
  <1>1. CASE OwnerCloses(s)
    BY <1>1 DEF OwnerCloses, IInv, TypeOK
  <1>2. CASE ConnectFails(s) \/ PeerCloses(s) \/ IdleTimeout(s)
    <2>1. /\ phase' = [phase EXCEPT ![s] = "destroyed"]
          /\ phase[s] # "taken"
      BY <1>2 DEF ConnectFails, PeerCloses, IdleTimeout, IInv, Attached
    <2> QED
      BY <2>1 DEF IInv, TypeOK
  <1> QED
    BY <1>1, <1>2

-----------------------------------------------------------------------------

LEMMA InitStep ==
    ASSUME Init
    PROVE  IInv
  <1>1. TypeOK
    BY DEF Init, TypeOK, Phases
  <1>2. Attached /\ Keyed /\ NoOrphan
    BY DEF Init, Attached, Keyed, NoOrphan
  <1> QED
    BY <1>1, <1>2 DEF IInv

LEMMA NextStep ==
    ASSUME IInv, [Next]_vars
    PROVE  /\ IInv'
           /\ \A t \in Sockets :
                  phase[t] = "taken" => phase'[t] = "taken" \/ OwnerCloses(t)
  <1>1. ASSUME NEW e \in Endpoints, Prewarm(e) \/ Take(e) \/ TakeDestroyed(e)
        PROVE  /\ IInv'
               /\ \A t \in Sockets : phase[t] = "taken" => phase'[t] = "taken"
    BY <1>1, PrewarmStep, TakeStep, TakeDestroyedStep
  <1>2. ASSUME NEW s \in Sockets, Connected(s) \/ CloseEvent(s)
        PROVE  /\ IInv'
               /\ \A t \in Sockets : phase[t] = "taken" => phase'[t] = "taken"
    BY <1>2, ConnectedStep, CloseEventStep
  <1>3. ASSUME NEW s \in Sockets,
               ConnectFails(s) \/ PeerCloses(s) \/ IdleTimeout(s)
                 \/ OwnerCloses(s)
        PROVE  /\ IInv'
               /\ \A t \in Sockets :
                     phase[t] = "taken" => phase'[t] = "taken" \/ OwnerCloses(t)
    BY <1>3, DestroyedStep, OnlyTheOwnerCloses
  <1>4. CASE UNCHANGED vars
    BY <1>4 DEF vars, IInv, TypeOK, Attached, Keyed, NoOrphan
  <1> QED
    BY <1>1, <1>2, <1>3, <1>4 DEF Next

-----------------------------------------------------------------------------
(* The theorems.                                                           *)

\* The inductive invariant: the cache, the timers and the events agree on who
\* each socket belongs to.
THEOREM Invariance == Spec => []IInv
  <1>1. Init => IInv
    BY InitStep
  <1>2. IInv /\ [Next]_vars => IInv'
    BY NextStep
  <1> QED
    BY <1>1, <1>2, PTL DEF Spec

\* Every variable keeps its type.
THEOREM TypeCorrect == Spec => []TypeOK
  <1>1. IInv => TypeOK
    BY DEF IInv
  <1> QED
    BY <1>1, Invariance, PTL

\* A connection that waits for a request is in the cache, with its idle timer
\* running (socket-prewarm.ts, prewarmRelaySocket and cleanup).
THEOREM NothingIsLeaked == Spec => []NoOrphan
  <1>1. IInv => NoOrphan
    BY DEF IInv
  <1> QED
    BY <1>1, Invariance, PTL

\* At most one connection waits for each relay, however many are prepared at a
\* time (socket-prewarm.ts, the connect listener).
THEOREM OneIsKept == Spec => []OneIdlePerEndpoint
  <1>1. IInv => OneIdlePerEndpoint
    BY IdleIsKeyed DEF IInv
  <1> QED
    BY <1>1, Invariance, PTL

\* A socket that was handed out is closed by its owner only: no timer, eviction,
\* duplicate or late event of the cache does (socket-prewarm.ts,
\* takePrewarmedSocket).
THEOREM TakenStaysTaken == Spec => TakenIsLeftAlone
  <1>1. IInv /\ [Next]_vars =>
            [\A s \in Sockets : phase[s] = "taken" =>
                 \/ phase'[s] = "taken"
                 \/ OwnerCloses(s)]_vars
    BY NextStep
  <1> QED
    BY <1>1, Invariance, PTL DEF Spec, TakenIsLeftAlone

=============================================================================
