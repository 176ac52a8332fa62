--------------------------- MODULE ConnectTunnel ---------------------------
(***************************************************************************)
(* One CONNECT or WebSocket upgrade (server.ts, tunnel-handlers.ts): the   *)
(* client's socket, the connections to the relays it is tried on, and the  *)
(* pipe between them. RelayRetry has the attempt as one step; here are its *)
(* sockets.                                                                *)
(*                                                                         *)
(* A client leaves by closing its end. Its socket tells so once, with its  *)
(* end event, and only when no data of the client lies unread before it;   *)
(* while relays are tried nothing reads. Resets of the client's connection *)
(* are left out: nothing listens to its error event.                       *)
(***************************************************************************)
EXTENDS Naturals, FiniteSets

CONSTANTS
    Relays,     \* the relays of the source the first pick fixes
    NONE

ASSUME RelaysAssumption == IsFiniteSet(Relays) /\ NONE \notin Relays

VARIABLES
    request,    \* what the client has asked for, see Requests
    state,      \* where its handler is, see States
    current,    \* the relay of the last attempt
    link,       \* the connection to each relay, see Links
    piped,      \* the relay whose connection is piped to the client
    status,     \* what the client was told: none, relayed or error
    out,        \* our side of its connection: open, ended or destroyed
    client,     \* here, leaving (it has closed its end) or ended (we know)
    broke,      \* history: the relays that have failed us
    blamed      \* history: the relays put on backoff

vars == <<request, state, current, link, piped, status, out, client, broke,
          blamed>>

\* Without the credentials of --proxy-auth, for no valid host and port, or fine.
Requests == {"unauthorized", "invalid", "valid"}

\* tunnel: the sockets are piped. served, failed and empty are the ends of
\* tryRelays, as in RelayRetry; refused is that of a request that never got
\* there.
States == {"new", "trying", "tunnel", "served", "failed", "empty", "refused"}

\* ended: we have closed our end.
Links == {"none", "opening", "open", "ended", "closed"}

TypeOK ==
    /\ request \in Requests
    /\ state \in States
    /\ current \in Relays \cup {NONE}
    /\ link \in [Relays -> Links]
    /\ piped \in Relays \cup {NONE}
    /\ status \in {"none", "relayed", "error"}
    /\ out \in {"open", "ended", "destroyed"}
    /\ client \in {"here", "leaving", "ended"}
    /\ broke \in SUBSET Relays
    /\ blamed \in SUBSET Relays
    /\ current = NONE <=> state \in {"new", "refused", "empty"}
    /\ piped = IF state \in {"tunnel", "served"} THEN current ELSE NONE

-----------------------------------------------------------------------------

\* sendSocketError, or the 400 of a handler.
SendError ==
    /\ status' = "error"
    /\ out' = "destroyed"

\* Another round of the loop in tryRelays, when links are the connections so
\* far. Without an error behind it the client is told nothing.
Continue(links) ==
    \/ \E h \in Relays :
           /\ links[h] = "none"
           /\ link' = [links EXCEPT ![h] = "opening"]
           /\ current' = h
           /\ state' = "trying"
           /\ UNCHANGED <<status, out>>
    \/ /\ link' = links
       /\ IF current = NONE
            THEN state' = "empty" /\ UNCHANGED <<status, out>>
            ELSE state' = "failed" /\ SendError
       /\ UNCHANGED current

Refuse ==
    /\ state = "new"
    /\ request # "valid"
    /\ state' = "refused"
    /\ SendError
    /\ UNCHANGED <<request, current, link, piped, client, broke, blamed>>

Begin ==
    /\ state = "new"
    /\ request = "valid"
    /\ Continue(link)
    /\ UNCHANGED <<request, piped, client, broke, blamed>>

\* The attempt on the current relay rejects: handleRelayFailure.
Fail(links) ==
    /\ blamed' = blamed \cup {current}
    /\ Continue(links)
    /\ UNCHANGED piped

Awaited(h) == state = "trying" /\ h = current

\* Mutant: a client that is known to have left fails the attempt here too.
OpensForNobody(h) ==
    /\ link[h] = "opening"
    /\ IF Awaited(h)
         THEN IF client = "ended"
                THEN Fail([link EXCEPT ![h] = "closed"])
                ELSE /\ link' = [link EXCEPT ![h] = "open"]
                     /\ state' = "tunnel"
                     /\ piped' = h
                     /\ status' = "relayed"
                     /\ UNCHANGED <<current, out, blamed>>
         ELSE /\ link' = [link EXCEPT ![h] = "open"]
              /\ UNCHANGED <<state, current, piped, status, out, blamed>>
    /\ UNCHANGED <<request, client, broke>>

\* Mutant: the pipe does not see that its source has ended already.
OpensUnended(h) ==
    /\ link[h] = "opening"
    /\ link' = [link EXCEPT ![h] = "open"]
    /\ IF Awaited(h) THEN /\ state' = "tunnel"
                          /\ piped' = h
                          /\ status' = "relayed"
                     ELSE UNCHANGED <<state, piped, status>>
    /\ UNCHANGED <<request, current, out, client, broke, blamed>>

\* Mutant: the tunnel is made when a connection comes up, and not by the attempt
\* that awaits it.
OpensPiped(h) ==
    /\ link[h] = "opening"
    /\ link' = [link EXCEPT ![h] = IF client = "ended" THEN "ended" ELSE "open"]
    /\ state' = "tunnel"
    /\ piped' = h
    /\ status' = "relayed"
    /\ UNCHANGED <<request, current, out, client, broke, blamed>>

\* connectViaRelay resolves. The client is told, and the sockets are piped: a
\* client that has left by now ends the relay's side at once. A connection
\* nobody waits for stays open.
Opens(h) ==
    /\ link[h] = "opening"
    /\ IF Awaited(h)
         THEN /\ link' = [link EXCEPT ![h] = IF client = "ended" THEN "ended"
                                                                 ELSE "open"]
              /\ state' = "tunnel"
              /\ piped' = h
              /\ status' = "relayed"
         ELSE /\ link' = [link EXCEPT ![h] = "open"]
              /\ UNCHANGED <<state, piped, status>>
    /\ UNCHANGED <<request, current, out, client, broke, blamed>>

\* Mutant: a handshake that fails does not destroy its socket.
DoesNotOpenUnclosed(h) ==
    /\ link[h] = "opening"
    /\ broke' = broke \cup {h}
    /\ IF Awaited(h)
         THEN Fail([link EXCEPT ![h] = "open"])
         ELSE /\ link' = [link EXCEPT ![h] = "open"]
              /\ UNCHANGED <<state, current, piped, status, out, blamed>>
    /\ UNCHANGED <<request, client>>

\* connectViaRelay rejects: no connection, no grant, or a timeout.
DoesNotOpen(h) ==
    /\ link[h] = "opening"
    /\ broke' = broke \cup {h}
    /\ IF Awaited(h)
         THEN Fail([link EXCEPT ![h] = "closed"])
         ELSE /\ link' = [link EXCEPT ![h] = "closed"]
              /\ UNCHANGED <<state, current, piped, status, out, blamed>>
    /\ UNCHANGED <<request, client>>

-----------------------------------------------------------------------------

ClientLeaves ==
    /\ client = "here"
    /\ client' = "leaving"
    /\ UNCHANGED <<request, state, current, link, piped, status, out, broke,
                   blamed>>

\* The end event of the client's socket. While a relay is awaited it fails the
\* attempt (raceConnectOrClientClose); in a tunnel the pipe ends the relay's
\* side, and the handler is through (onceSocketClosed).
NoticeClient ==
    /\ client = "leaving"
    /\ state \notin {"new", "refused"}
    /\ client' = "ended"
    /\ CASE state = "trying" -> Fail(link)
         [] state = "tunnel" ->
              /\ link' = [link EXCEPT ![piped] = "ended"]
              /\ state' = "served"
              /\ UNCHANGED <<current, piped, status, out, blamed>>
         [] OTHER ->
              UNCHANGED <<state, current, link, piped, status, out, blamed>>
    /\ UNCHANGED <<request, broke>>

\* Whichever way the relay's connection goes, a handler that waits for it is
\* through.
LinkIsGone(h) ==
    /\ link[h] \in {"open", "ended"}
    /\ link' = [link EXCEPT ![h] = "closed"]
    /\ state' = IF state = "tunnel" /\ h = piped THEN "served" ELSE state
    /\ UNCHANGED <<request, current, piped, status, client>>

\* The relay closes its end. The pipe ends the client's side.
RelayEnds(h) ==
    /\ LinkIsGone(h)
    /\ out' = IF h = piped /\ out = "open" THEN "ended" ELSE out
    /\ UNCHANGED <<broke, blamed>>

\* Mutant: a tunnel that breaks off is tried on the next relay.
RelayBreaksRetried(h) ==
    /\ link[h] \in {"open", "ended"}
    /\ broke' = broke \cup {h}
    /\ IF state = "tunnel" /\ h = piped
         THEN Fail([link EXCEPT ![h] = "closed"])
         ELSE /\ link' = [link EXCEPT ![h] = "closed"]
              /\ UNCHANGED <<state, current, piped, status, out, blamed>>
    /\ UNCHANGED <<request, client>>

\* The connection is reset, or it is over TLS and was idle for the timeout it
\* was opened with (openTlsSocket), which stays set and destroys it. Neither
\* has an end event, so the client's side is left open.
RelayBreaks(h) ==
    /\ LinkIsGone(h)
    /\ broke' = broke \cup {h}
    /\ UNCHANGED <<out, blamed>>

-----------------------------------------------------------------------------

Init ==
    /\ request \in Requests
    /\ state = "new"
    /\ current = NONE
    /\ link = [h \in Relays |-> "none"]
    /\ piped = NONE
    /\ status = "none"
    /\ out = "open"
    /\ client = "here"
    /\ broke = {}
    /\ blamed = {}

Next ==
    \/ Refuse
    \/ Begin
    \/ \E h \in Relays : Opens(h) \/ DoesNotOpen(h)
    \/ ClientLeaves
    \/ NoticeClient
    \/ \E h \in Relays : RelayEnds(h) \/ RelayBreaks(h)

Spec == Init /\ [][Next]_vars

\* A request is handled when it comes; a connection opens or fails, each step of
\* it under a timeout; and a tunnel reads, so that it comes to the end of what
\* its client has sent. While relays are tried the end may lie behind data
\* nobody reads.
Fairness ==
    /\ WF_vars(Refuse \/ Begin)
    /\ \A h \in Relays : WF_vars(Opens(h) \/ DoesNotOpen(h))
    /\ WF_vars(state = "tunnel" /\ NoticeClient)

FairSpec == Spec /\ Fairness

-----------------------------------------------------------------------------
(* Properties.                                                             *)

\* What the client is told is one answer: no 502 after the 200 of a tunnel, and
\* no second relay's bytes in it (tunnel-handlers.ts, tunnelThroughRelay).
Answer == INSTANCE ClientAnswer WITH
    status <- status,
    heard <- IF piped = NONE THEN {} ELSE {piped},
    over <- out # "open"

AnswerSpec == Answer!Spec

\* A client that leaves early is counted as a failure of the relay it waited
\* for. That takes one healthy relay from all other clients, never more: its
\* end is told once, and the relays tried afterwards are judged by themselves
\* (tunnel-handlers.ts, raceConnectOrClientClose).
OneBlamedForALeaver ==
    /\ Cardinality(blamed \ broke) <= 1
    /\ blamed \subseteq broke \/ client # "here"

Stray(h) == link[h] \in {"opening", "open"} /\ ~Awaited(h) /\ h # piped

\* The connection a client that leaves was waiting for is not cancelled, and
\* belongs to nobody. There is one such per client at most, and none of a
\* client that stays: a connection that fails, or that another relay is tried
\* after, is closed.
OneStray ==
    /\ Cardinality({h \in Relays : Stray(h)}) <= 1
    /\ (\E h \in Relays : Stray(h)) => client # "here"

\* A client that has left does not keep a relay's connection for ever: our side
\* of its tunnel is closed in the end, also when its leaving was seen before
\* there was a tunnel, and its end event is long past when the pipe is made.
LeaverFreesTunnel ==
    client # "here" ~>
        /\ state # "trying"
        /\ piped # NONE => link[piped] \in {"ended", "closed"}

=============================================================================
