----------------------------- MODULE RelayRetry -----------------------------
(***************************************************************************)
(* createRetryDeps and tryRelays (relay-retry.ts) as the HTTP handler      *)
(* (http-proxy.ts, relay-http-request.ts) and the CONNECT and WebSocket    *)
(* handlers (tunnel-handlers.ts) run them: any number of requests at once  *)
(* over one inventory, one set of backoffs, one table of sticky sessions   *)
(* and one set of counters.                                                *)
(*                                                                         *)
(* Node runs each continuation to its next await, so everything from the   *)
(* outcome of one attempt to the start of the next is one action: the      *)
(* failed relay is put on backoff, the session may be unbound, and the     *)
(* next relay is picked with the backoff already in place. In between, any *)
(* other request, a refresh, a rotate or time may move.                    *)
(*                                                                         *)
(* What the selector picks is any answer RelayPool allows.                 *)
(***************************************************************************)
EXTENDS StickySessions

CONSTANTS
    Requests,   \* the client requests, each made once
    KindOf,     \* "http", or "tunnel" for CONNECT and WebSocket upgrades
    KeyOf,      \* the X-Proxy-Session of each, NONE when it has none
    Plain,      \* the relays of protocol "http-plain"
    MaxCount    \* the bound of a counter, which the requests cannot exceed

ASSUME RequestsAssumption ==
    /\ IsFiniteSet(Requests)
    /\ KindOf \in [Requests -> {"http", "tunnel"}]
    /\ KeyOf \in [Requests -> Keys \cup {NONE}]
    /\ Plain \subseteq Hosts
    /\ MaxCount \in Nat
    /\ Cardinality(Requests) <= MaxCount

VARIABLES
    stage,      \* where each request is, see Stages
    current,    \* the relay its attempt is on
    source,     \* the source its first relay fixed
    attempted,  \* the relays it has tried
    captured,   \* the relay its session was bound to when it came
    committed,  \* the head of a response has gone to its client
    gone,       \* its client has closed the connection
    relayStats, \* requests and failures of each relay
    totals,     \* requestsTotal and failuresTotal
    servedKey   \* history: the relays that completed a request of each key

requestVars == <<stage, current, source, attempted, captured, committed, gone>>
statsVars == <<relayStats, totals>>
vars == <<relays, config, cooling, sessions, stage, current, source, attempted,
          captured, committed, gone, relayStats, totals, servedKey>>

\* trying: an attempt connects, or waits for the response's head. serving: the
\* tunnel is up, or the head has been sent and the body flows. served, failed
\* and empty are the ends: the last is that of a request the first pick had no
\* relay for.
Stages == {"new", "trying", "serving", "served", "failed", "empty"}

Attempting(r) == stage[r] \in {"trying", "serving"}

Counters == [requests : 0..MaxCount, failures : 0..MaxCount]

Increment(n) == IF n < MaxCount THEN n + 1 ELSE n

TypeOK ==
    /\ HealthTypeOK
    /\ StickyTypeOK
    /\ stage \in [Requests -> Stages]
    /\ current \in [Requests -> Hosts \cup {NONE}]
    /\ source \in [Requests -> Sources \cup {NONE}]
    /\ attempted \in [Requests -> SUBSET Hosts]
    /\ captured \in [Requests -> Hosts \cup {NONE}]
    /\ committed \in [Requests -> BOOLEAN]
    /\ gone \in [Requests -> BOOLEAN]
    /\ relayStats \in [Hosts -> Counters]
    /\ totals \in Counters
    /\ servedKey \in [Keys -> SUBSET Hosts]

-----------------------------------------------------------------------------

\* The head of the loop in tryRelaysSequential, for what a pick answered. A
\* relay that was tried already ends the request, as no relay does; and only a
\* request with an error behind it counts as failed.
Attempt(r, h) ==
    /\ stage' = [stage EXCEPT ![r] = "trying"]
    /\ current' = [current EXCEPT ![r] = h]
    /\ source' = [source EXCEPT ![r] = IF @ = NONE THEN SourceOf[h] ELSE @]
    /\ attempted' = [attempted EXCEPT ![r] = @ \cup {h}]
    /\ UNCHANGED totals

\* Mutant: recordRequestFailed, whether or not there was an attempt.
GiveUpCounted(r) ==
    /\ stage' = [stage EXCEPT ![r] = IF attempted[r] = {} THEN "empty"
                                                          ELSE "failed"]
    /\ totals' = [totals EXCEPT !.failures = Increment(@)]
    /\ UNCHANGED <<current, source, attempted>>

GiveUp(r) ==
    /\ stage' = [stage EXCEPT ![r] = IF attempted[r] = {} THEN "empty"
                                                          ELSE "failed"]
    /\ totals' = IF attempted[r] = {} THEN totals
                 ELSE [totals EXCEPT !.failures = Increment(@)]
    /\ UNCHANGED <<current, source, attempted>>

\* Mutant: a relay that was tried already is tried again.
ContinueUnchecked(r, got) ==
    IF got = {} THEN GiveUp(r) ELSE \E h \in got : Attempt(r, h)

Continue(r, got) ==
    IF got \subseteq attempted[r] THEN GiveUp(r)
                                  ELSE \E h \in got : Attempt(r, h)

\* A request comes: its session is looked up once, and the relay found there is
\* the first it tries.
Begin(r) ==
    /\ stage[r] = "new"
    /\ captured' = [captured EXCEPT ![r] = StickyRelay(KeyOf[r])]
    /\ sessions' = Looked(KeyOf[r])
    /\ \E got \in IF captured'[r] # NONE THEN {{captured'[r]}} ELSE NextAnswers :
           Continue(r, got)
    /\ UNCHANGED <<healthVars, committed, gone, relayStats, servedKey>>

\* Mutant: the next relay is picked from any source.
FailToAnySource(r) ==
    LET h == current[r]
    IN  /\ MarkUnhealthy(h)
        /\ relayStats' = [relayStats EXCEPT ![h].failures = Increment(@)]
        /\ sessions' = IF KeyOf[r] # NONE /\ h = captured[r]
                         THEN Forgotten(KeyOf[r]) ELSE sessions
        /\ \E got \in NextAnswers' : Continue(r, got)
        /\ UNCHANGED <<captured, committed, servedKey>>

\* Mutant: the failed relay is not put on backoff.
FailUnmarked(r) ==
    LET h == current[r]
    IN  /\ UNCHANGED healthVars
        /\ relayStats' = [relayStats EXCEPT ![h].failures = Increment(@)]
        /\ sessions' = IF KeyOf[r] # NONE /\ h = captured[r]
                         THEN Forgotten(KeyOf[r]) ELSE sessions
        /\ \E s \in {source[r]} : \E got \in SourceAnswers(s)' : Continue(r, got)
        /\ UNCHANGED <<captured, committed, servedKey>>

\* Mutant: the session is bound to the next relay before that has served it.
FailRebinding(r) ==
    LET h == current[r]
    IN  /\ MarkUnhealthy(h)
        /\ relayStats' = [relayStats EXCEPT ![h].failures = Increment(@)]
        /\ \E s \in {source[r]} : \E got \in SourceAnswers(s)' : Continue(r, got)
        /\ sessions' = IF KeyOf[r] # NONE /\ h = captured[r]
                         THEN Remembered(KeyOf[r], current'[r]) ELSE sessions
        /\ UNCHANGED <<captured, committed, servedKey>>

\* The attempt's promise rejects: handleRelayFailure, then the next pick.
Fail(r) ==
    LET h == current[r]
    IN  /\ MarkUnhealthy(h)
        /\ relayStats' = [relayStats EXCEPT ![h].failures = Increment(@)]
        /\ sessions' = IF KeyOf[r] # NONE /\ h = captured[r]
                         THEN Forgotten(KeyOf[r]) ELSE sessions
        /\ \E s \in {source[r]} : \E got \in SourceAnswers(s)' : Continue(r, got)
        /\ UNCHANGED <<captured, committed, servedKey>>

\* An HTTP request's attempt that waits for the client, or tells of it. One over
\* a plain relay does neither: it takes no body from the client, and resolves
\* once the head of the response is written (relayViaHttpPlain).
Streams(r) == KindOf[r] = "http" /\ current[r] \notin Plain

\* The relay fails it: a refused or broken connection, a failed handshake, a
\* timeout, a response that is not HTTP. Once a tunnel is up nothing rejects.
RelayFails(r) ==
    /\ \/ stage[r] = "trying"
       \/ stage[r] = "serving" /\ Streams(r)
    /\ Fail(r)
    /\ UNCHANGED gone

\* The relay has done its part. The tunnel is piped, or the response's head is
\* written; a head that was written once before makes writeHead throw.
Establish(r) ==
    /\ stage[r] = "trying"
    /\ UNCHANGED gone
    /\ IF committed[r]
         THEN Fail(r)
         ELSE /\ stage' = [stage EXCEPT ![r] = "serving"]
              /\ committed' = [committed EXCEPT ![r] = KindOf[r] = "http"]
              /\ UNCHANGED <<healthVars, sessions, current, source, attempted,
                             captured, statsVars, servedKey>>

\* The attempt's promise resolves: one end of the tunnel has closed, or the
\* response has been written out, which a client that left prevents; or, over a
\* plain relay, its head is written.
Succeed(r) ==
    /\ stage[r] = "serving"
    /\ gone[r] => ~Streams(r)
    /\ stage' = [stage EXCEPT ![r] = "served"]
    /\ relayStats' = [relayStats EXCEPT ![current[r]].requests = Increment(@)]
    /\ totals' = [totals EXCEPT !.requests = Increment(@)]
    /\ sessions' = Remembered(KeyOf[r], current[r])
    /\ servedKey' = [k \in Keys |-> IF k = KeyOf[r]
                                      THEN servedKey[k] \cup {current[r]}
                                      ELSE servedKey[k]]
    /\ UNCHANGED <<healthVars, current, source, attempted, captured, committed,
                   gone>>

\* The client of a tunnel that is not up yet closes its end, and
\* raceConnectOrClientClose rejects the attempt. That of a tunnel that is up is
\* Succeed.
TunnelClientLeaves(r) ==
    /\ KindOf[r] = "tunnel"
    /\ stage[r] = "trying"
    /\ ~gone[r]
    /\ gone' = [gone EXCEPT ![r] = TRUE]
    /\ Fail(r)

\* The client of an HTTP request closes its end. Reading on for the request's
\* body rejects the attempt; without a body nothing notices.
HttpClientLeaves(r) ==
    /\ KindOf[r] = "http"
    /\ Attempting(r)
    /\ ~gone[r]
    /\ gone' = [gone EXCEPT ![r] = TRUE]
    /\ \/ Streams(r) /\ Fail(r)
       \/ UNCHANGED <<healthVars, sessions, stage, current, source, attempted,
                      captured, committed, statsVars, servedKey>>

-----------------------------------------------------------------------------

Update(nextRelays, nextConfig) ==
    /\ UpdateHealth(nextRelays, nextConfig)
    /\ UNCHANGED <<sessions, requestVars, statsVars, servedKey>>

Tick ==
    /\ cooling' = Cooled
    /\ sessions' = Aged
    /\ UNCHANGED <<relays, config, requestVars, statsVars, servedKey>>

Init ==
    /\ relays \in Inventories \ {{}}
    /\ config \in Configs
    /\ cooling = [h \in Hosts |-> 0]
    /\ sessions = [k \in Keys |-> Unbound]
    /\ stage = [r \in Requests |-> "new"]
    /\ current = [r \in Requests |-> NONE]
    /\ source = [r \in Requests |-> NONE]
    /\ attempted = [r \in Requests |-> {}]
    /\ captured = [r \in Requests |-> NONE]
    /\ committed = [r \in Requests |-> FALSE]
    /\ gone = [r \in Requests |-> FALSE]
    /\ relayStats = [h \in Hosts |-> [requests |-> 0, failures |-> 0]]
    /\ totals = [requests |-> 0, failures |-> 0]
    /\ servedKey = [k \in Keys |-> {}]

Next ==
    \/ \E r \in Requests :
           Begin(r) \/ RelayFails(r) \/ Establish(r) \/ Succeed(r)
             \/ TunnelClientLeaves(r) \/ HttpClientLeaves(r)
    \/ \E inventory \in Inventories : Update(inventory, config)
    \/ \E c \in PartialConfigs : Update(relays, NormalizeConfig(c))
    \/ Tick

Spec == Init /\ [][Next]_vars

\* An attempt does not stay open: connecting, each handshake and the wait for
\* the head of a response all have a timeout.
AttemptEnds(r) == stage[r] = "trying" /\ (RelayFails(r) \/ Establish(r))

Fairness == \A r \in Requests : WF_vars(AttemptEnds(r))

FairSpec == Spec /\ Fairness

-----------------------------------------------------------------------------
(* Properties.                                                             *)

\* A request never leaves the source of its first relay, whatever refreshes and
\* rotates do meanwhile (relay-retry.ts, the loop's source).
SingleSource ==
    \A r \in Requests : \A h \in attempted[r] : SourceOf[h] = source[r]

\* The counters GET /stats shows add up at every moment: a relay's requests and
\* failures are the attempts made on it and over, each counted once and none by
\* two requests; and the totals are the requests over, but for those that no
\* relay was found for.
StatsBalance ==
    /\ \A h \in Hosts :
           relayStats[h].requests + relayStats[h].failures
             = Cardinality({r \in Requests :
                   /\ h \in attempted[r]
                   /\ current[r] = h => ~Attempting(r)})
    /\ totals.requests = Cardinality({r \in Requests : stage[r] = "served"})
    /\ totals.failures = Cardinality({r \in Requests : stage[r] = "failed"})

\* A session is only ever bound to a relay that has completed one of its
\* requests (relay-retry.ts, onRelaySuccess).
BindingEarned ==
    \A k \in Keys : sessions[k] # Unbound => sessions[k].relay \in servedKey[k]

GivesUp(r) == Attempting(r) /\ stage'[r] = "failed"

\* A request fails only when its source has nothing more to serve, or when one
\* of its earlier relays is off its backoff before the request is over: other
\* requests' failures, refreshes and rotates between its attempts never make it
\* give up while an untried relay would be picked.
GiveUpJustified ==
    [][\A r \in Requests : GivesUp(r) =>
           \/ OfSource(Servable', source[r]) = {}
           \/ config.backoff = 0
           \/ \E h \in attempted[r] \ {current[r]} : h \in Servable']_vars

\* Each request's retries come to an end, also when every relay fails it, when a
\* backoff is 0 and failed relays are at once healthy again, and when refreshes
\* bring relays back.
RetriesEnd == \A r \in Requests : stage[r] = "trying" ~> stage[r] # "trying"

-----------------------------------------------------------------------------
(* What the README and the tests say, and the code does not keep to.       *)

\* README.md, line 74: "If that relay becomes unhealthy, relayrad automatically
\* rebinds the session to the next working relay." A session so rebound loses
\* its relay only when that relay fails, when the inventory drops it, or after
\* five idle minutes.
RebindingKept ==
    [][\A k \in Keys : sessions[k] # Unbound /\ sessions'[k] = Unbound =>
           \/ sessions[k].left = 1
           \/ sessions[k].relay \notin relays
           \/ LET h == sessions[k].relay
              IN  relayStats'[h].failures # relayStats[h].failures]_vars

=============================================================================
