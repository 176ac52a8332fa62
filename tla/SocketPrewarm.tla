--------------------------- MODULE SocketPrewarm ---------------------------
(***************************************************************************)
(* socket-prewarm.ts, with openPlainSocket (relay-socket.ts) as its caller:*)
(* a cache of sockets that are connected to a relay before a request needs *)
(* one. Each step is one run of a callback; between two of them any other  *)
(* socket's events may come first.                                         *)
(*                                                                         *)
(* The cache is a Map, which remembers the order of insertion: newer[s] is *)
(* the set of cached sockets that were inserted after s.                   *)
(***************************************************************************)
EXTENDS Naturals, FiniteSets

CONSTANTS
    Endpoints,  \* the host:port pairs of the relays
    Sockets,    \* socket objects; one is used again when it is garbage
    MaxSize     \* PREWARM_CACHE_MAX_SIZE

ASSUME PrewarmAssumption ==
    /\ IsFiniteSet(Sockets)
    /\ MaxSize \in Nat \ {0}

VARIABLES
    phase,     \* where each socket is, see Phases
    to,        \* the endpoint it connects to
    cache,     \* the sockets in the cache
    newer,     \* for a cached socket, those cached after it
    armed,     \* the sockets whose idle timer is running
    closing    \* destroyed sockets whose close event is still to be emitted

vars == <<phase, to, cache, newer, armed, closing>>

\* idle: connected by the cache and nobody's yet. taken: handed to a request.
Phases == {"free", "connecting", "idle", "taken", "destroyed"}

TypeOK ==
    /\ phase \in [Sockets -> Phases]
    /\ to \in [Sockets -> Endpoints]
    /\ cache \in SUBSET Sockets
    /\ newer \in [Sockets -> SUBSET Sockets]
    /\ armed \in SUBSET Sockets
    /\ closing \in SUBSET Sockets

-----------------------------------------------------------------------------

Entry(e) == {s \in cache : to[s] = e}

\* The entry of S that cache.keys() yields first.
OldestOf(S) == {s \in S : S \ {s} \subseteq newer[s]}

Without(S) == [s \in Sockets |-> newer[s] \ S]

\* Nothing refers to the socket any more.
Garbage(s) ==
    /\ phase[s] \in {"free", "destroyed"}
    /\ s \notin cache \cup armed \cup closing

\* Mutant: the timer of a socket that is handed out is not cleared.
StartPrewarmUncleared(e, live, lent) ==
    LET evicted == IF Cardinality(live) >= MaxSize
                     THEN OldestOf(live) ELSE {}
    IN  \E s \in Sockets :
          /\ Garbage(s)
          /\ to' = [to EXCEPT ![s] = e]
          /\ phase' = [x \in Sockets |->
                 IF x = s THEN "connecting"
                 ELSE IF x \in lent THEN "taken"
                 ELSE IF x \in evicted THEN "destroyed" ELSE phase[x]]
          /\ cache' = live \ evicted
          /\ newer' = Without((cache \ live) \cup evicted)
          /\ armed' = armed \ evicted
          /\ closing' = closing \cup evicted

\* prewarmRelaySocket(e) up to connectTcp, when live is what the caller has left
\* of the cache and lent the socket it takes for itself.
StartPrewarm(e, live, lent) ==
    LET evicted == IF Cardinality(live) >= MaxSize
                     THEN OldestOf(live) ELSE {}
    IN  \E s \in Sockets :
          /\ Garbage(s)
          /\ to' = [to EXCEPT ![s] = e]
          /\ phase' = [x \in Sockets |->
                 IF x = s THEN "connecting"
                 ELSE IF x \in lent THEN "taken"
                 ELSE IF x \in evicted THEN "destroyed" ELSE phase[x]]
          /\ cache' = live \ evicted
          /\ newer' = Without((cache \ live) \cup evicted)
          /\ armed' = armed \ (evicted \cup lent)
          /\ closing' = closing \cup evicted

\* A connection that openPlainSocket opened itself is up, and another like it
\* is prepared.
Prewarm(e) ==
    /\ Entry(e) = {}
    /\ StartPrewarm(e, cache, {})

\* openPlainSocket takes the socket it finds, and prepares the next one.
Take(e) ==
    \E s \in Entry(e) :
        /\ phase[s] = "idle"
        /\ StartPrewarm(e, cache \ {s}, {s})

\* takePrewarmedSocket finds one that is destroyed already and drops it.
TakeDestroyed(e) ==
    \E s \in Entry(e) :
        /\ phase[s] # "idle"
        /\ cache' = cache \ {s}
        /\ newer' = Without({s})
        /\ armed' = armed \ {s}
        /\ UNCHANGED <<phase, to, closing>>

\* Mutant: an entry that is there already is replaced.
ConnectedReplacing(s) ==
    /\ phase[s] = "connecting"
    /\ phase' = [phase EXCEPT ![s] = "idle"]
    /\ cache' = (cache \ Entry(to[s])) \cup {s}
    /\ newer' = [x \in Sockets |->
           IF x \in cache \ Entry(to[s])
             THEN (newer[x] \ Entry(to[s])) \cup {s} ELSE {}]
    /\ armed' = armed \cup {s}
    /\ UNCHANGED <<to, closing>>

\* Mutant: no idle timer is started.
ConnectedUnarmed(s) ==
    /\ phase[s] = "connecting"
    /\ Entry(to[s]) = {}
    /\ phase' = [phase EXCEPT ![s] = "idle"]
    /\ cache' = cache \cup {s}
    /\ newer' = [x \in Sockets |->
           IF x \in cache THEN newer[x] \cup {s}
           ELSE IF x = s THEN {} ELSE newer[x]]
    /\ UNCHANGED <<to, armed, closing>>

\* Mutant: the cache keeps the key in the place of the socket.
ConnectedKeyed(s) ==
    /\ phase[s] = "connecting"
    /\ phase' = [phase EXCEPT ![s] = "idle"]
    /\ cache' = cache \cup {to[s]}
    /\ armed' = armed \cup {s}
    /\ UNCHANGED <<to, newer, closing>>

\* The connect event. Of two sockets to one endpoint neither is kept; the one
\* that was cached leaves the cache only with its close event.
Connected(s) ==
    /\ phase[s] = "connecting"
    /\ UNCHANGED to
    /\ IF Entry(to[s]) = {}
         THEN /\ phase' = [phase EXCEPT ![s] = "idle"]
              /\ cache' = cache \cup {s}
              /\ newer' = [x \in Sockets |->
                     IF x \in cache THEN newer[x] \cup {s}
                     ELSE IF x = s THEN {} ELSE newer[x]]
              /\ armed' = armed \cup {s}
              /\ UNCHANGED closing
         ELSE /\ phase' = [x \in Sockets |->
                     IF x = s \/ x \in Entry(to[s]) THEN "destroyed"
                                                   ELSE phase[x]]
              /\ closing' = closing \cup {x \in Entry(to[s]) : phase[x] = "idle"}
              /\ armed' = armed \ Entry(to[s])
              /\ UNCHANGED <<cache, newer>>

\* The error event of a connection that fails; no listener waits for its close.
ConnectFails(s) ==
    /\ phase[s] = "connecting"
    /\ phase' = [phase EXCEPT ![s] = "destroyed"]
    /\ UNCHANGED <<to, cache, newer, armed, closing>>

\* Mutant: a socket removes whatever is cached for its endpoint.
CleanupByKey(s) ==
    /\ cache' = cache \ Entry(to[s])
    /\ newer' = Without(Entry(to[s]))

\* cleanup: a socket removes itself, and never a later one of its endpoint.
Cleanup(s) == cache' = cache \ {s} /\ newer' = Without({s})

\* The relay closes or resets an idle connection: end or error, then close. The
\* timer is left to run.
PeerCloses(s) ==
    /\ phase[s] = "idle"
    /\ phase' = [phase EXCEPT ![s] = "destroyed"]
    /\ closing' = closing \cup {s}
    /\ Cleanup(s)
    /\ UNCHANGED <<to, armed>>

\* The idle timer fires, after PREWARM_SOCKET_IDLE_MS.
IdleTimeout(s) ==
    /\ s \in armed
    /\ armed' = armed \ {s}
    /\ phase' = [phase EXCEPT ![s] = "destroyed"]
    /\ closing' = IF phase[s] = "destroyed" THEN closing ELSE closing \cup {s}
    /\ Cleanup(s)
    /\ UNCHANGED to

\* The request that took it, or the relay, closes it.
OwnerCloses(s) ==
    /\ phase[s] = "taken"
    /\ phase' = [phase EXCEPT ![s] = "destroyed"]
    /\ closing' = closing \cup {s}
    /\ UNCHANGED <<to, cache, newer, armed>>

CloseEvent(s) ==
    /\ s \in closing
    /\ closing' = closing \ {s}
    /\ Cleanup(s)
    /\ UNCHANGED <<phase, to, armed>>

-----------------------------------------------------------------------------

Init ==
    /\ phase = [s \in Sockets |-> "free"]
    /\ to \in [Sockets -> Endpoints]
    /\ cache = {}
    /\ newer = [s \in Sockets |-> {}]
    /\ armed = {}
    /\ closing = {}

Next ==
    \/ \E e \in Endpoints : Prewarm(e) \/ Take(e) \/ TakeDestroyed(e)
    \/ \E s \in Sockets :
           Connected(s) \/ ConnectFails(s) \/ PeerCloses(s)
             \/ IdleTimeout(s) \/ OwnerCloses(s) \/ CloseEvent(s)

Spec == Init /\ [][Next]_vars

\* A timer that runs fires, and a destroyed socket emits its close event.
Fairness == \A s \in Sockets : WF_vars(IdleTimeout(s)) /\ WF_vars(CloseEvent(s))

FairSpec == Spec /\ Fairness

-----------------------------------------------------------------------------
(* Properties.                                                             *)

\* A socket that is connected and not handed out can be found in the cache and
\* has a running timer: none is leaked, by whatever order the close events of
\* earlier sockets to its endpoint come in.
NoOrphan ==
    \A s \in Sockets : phase[s] = "idle" => s \in cache /\ s \in armed

\* Nothing the cache still has to do - a timer, an eviction, a duplicate, a late
\* event - closes a socket that was handed out: it stays with the request that
\* has it until that request or its relay closes it.
TakenIsLeftAlone ==
    [][\A s \in Sockets :
           phase[s] = "taken" =>
               \/ phase'[s] = "taken"
               \/ OwnerCloses(s)]_vars

\* However many requests prepare a connection to one relay at a time, no more
\* than one is kept waiting.
OneIdlePerEndpoint ==
    \A s, t \in Sockets :
        phase[s] = "idle" /\ phase[t] = "idle" /\ to[s] = to[t] => s = t

\* Every idle connection ends: it is taken or closed.
IdleEnds == \A s \in Sockets : phase[s] = "idle" ~> phase[s] # "idle"

=============================================================================
