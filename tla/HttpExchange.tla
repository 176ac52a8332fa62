---------------------------- MODULE HttpExchange ----------------------------
(***************************************************************************)
(* One HTTP request (http-proxy.ts, relay-http-request.ts): the request's  *)
(* body, which is read from the client once; the response, which is piped  *)
(* to it from a relay; and the relays the request is tried on in between.  *)
(* RelayRetry has the attempt as one step; here are its two streams.       *)
(*                                                                         *)
(* On a relay that streams, the body is forwarded while the response is    *)
(* awaited, and the attempt lasts until the response is written out. A     *)
(* relay of an http-plain list is sent no body, and its attempt is over    *)
(* with the head of the response.                                          *)
(*                                                                         *)
(* A loop of forwardRequestBody is not stopped when its attempt fails: it  *)
(* stays on the client's request, beside the loop of the next attempt.     *)
(***************************************************************************)
EXTENDS Naturals, FiniteSets

CONSTANTS
    Relays,     \* the relays of the source the first pick fixes
    NONE,
    KindOf,     \* socks5, http (over TLS) or plain
    Sizes,      \* how many chunks the body of a request may have
    Troubles    \* what may be amiss with a request beside the relays

ASSUME RelaysAssumption ==
    /\ IsFiniteSet(Relays)
    /\ NONE \notin Relays
    /\ KindOf \in [Relays -> {"socks5", "http", "plain"}]
    /\ Sizes \subseteq Nat
    /\ Troubles \subseteq SUBSET {"silent", "refuses", "slow"}

VARIABLES
    size,       \* the chunks of this request's body; 0 when it has none
    amiss,      \* what is amiss with it that no relay can help, see Helpless
    state,      \* where its handler is, see States
    current,    \* the relay of the last attempt
    link,       \* the connection to each relay, see Links
    loops,      \* the relays whose forwardRequestBody goes on
    read,       \* the chunks taken from the client
    got,        \* the chunks each relay was sent
    status,     \* what the client was told: none, relayed or error
    heard,      \* the relays whose response it was sent something of
    over,       \* its response is ended
    client,     \* here, gone, or cut off by relayrad
    broke,      \* history: the relays whose connection failed, see RelayFails
    blamed      \* history: the relays put on backoff

bodyVars == <<loops, read, got>>
answerVars == <<status, heard, over>>
vars == <<size, amiss, state, current, link, loops, read, got, status, heard,
          over, client, broke, blamed>>

\* serving: the head is sent and the body flows. refused is the end of a request
\* without credentials, or without an absolute http URL.
States == {"new", "trying", "serving", "served", "failed", "empty", "refused"}

\* refused: it never was granted. asked: the head of the request is sent. piping:
\* the head of the response is.
Links == {"none", "opening", "refused", "asked", "piping", "closed"}

TypeOK ==
    /\ size \in Sizes
    /\ amiss \in Troubles
    /\ state \in States
    /\ current \in Relays \cup {NONE}
    /\ link \in [Relays -> Links]
    /\ loops \in SUBSET Relays
    /\ read \in 0..size
    /\ got \in [Relays -> SUBSET (1..size)]
    /\ status \in {"none", "relayed", "error"}
    /\ heard \in SUBSET Relays
    /\ over \in BOOLEAN
    /\ client \in {"here", "gone", "cut"}
    /\ broke \in SUBSET Relays
    /\ blamed \in SUBSET Relays

-----------------------------------------------------------------------------

Attempting(h) == h = current /\ state \in {"trying", "serving"}

Closed(h) == [link EXCEPT ![h] = IF @ = "opening" THEN "refused" ELSE "closed"]

\* Mutant: an error is not told when there is no relay left.
GiveUpSilently ==
    /\ state' = IF current = NONE THEN "empty" ELSE "failed"
    /\ UNCHANGED <<current, answerVars>>

\* Mutant: the error is written whether or not a head was sent.
GiveUpTwice ==
    /\ state' = IF current = NONE THEN "empty" ELSE "failed"
    /\ IF current # NONE
         THEN status' = "error" /\ over' = TRUE /\ UNCHANGED heard
         ELSE UNCHANGED answerVars
    /\ UNCHANGED current

\* There is no relay left. The client is told, if there was an attempt and if no
\* head was sent; else its response stays as it is.
GiveUp ==
    /\ state' = IF current = NONE THEN "empty" ELSE "failed"
    /\ IF current # NONE /\ status = "none"
         THEN status' = "error" /\ over' = TRUE /\ UNCHANGED heard
         ELSE UNCHANGED answerVars
    /\ UNCHANGED current

\* Another round of the loop in tryRelays, when links are the connections so far.
Continue(links) ==
    \/ \E h \in Relays :
           /\ links[h] = "none"
           /\ link' = [links EXCEPT ![h] = "opening"]
           /\ current' = h
           /\ state' = "trying"
           /\ UNCHANGED answerVars
    \/ link' = links /\ GiveUp

\* The present attempt rejects: its socket is destroyed, its relay blamed.
Fail ==
    /\ blamed' = blamed \cup {current}
    /\ Continue(Closed(current))

NothingElse == UNCHANGED <<state, current, answerVars, blamed>>

Refuse ==
    /\ state = "new"
    /\ state' = "refused"
    /\ status' = "error"
    /\ over' = TRUE
    /\ UNCHANGED <<size, amiss, current, link, bodyVars, heard, client, broke,
                   blamed>>

Begin ==
    /\ state = "new"
    /\ Continue(link)
    /\ UNCHANGED <<size, amiss, bodyVars, client, broke, blamed>>

-----------------------------------------------------------------------------
(* The request's body.                                                     *)

\* The client's request is destroyed before its end: reading on throws.
Aborted == client = "cut" \/ (client = "gone" /\ read < size)

\* The relay has granted the connection, and is sent the request's head. The
\* loop over a body that was read before ends at once.
Connects(h) ==
    /\ Attempting(h) /\ link[h] = "opening"
    /\ link' = [link EXCEPT ![h] = "asked"]
    /\ loops' = IF KindOf[h] = "plain" \/ size = 0 THEN loops
                                                   ELSE loops \cup {h}
    /\ UNCHANGED <<size, amiss, read, got, client, broke>>
    /\ NothingElse

\* Mutant: a chunk that a loop left over swallows fails the present attempt.
ForwardFailing(h) ==
    /\ h \in loops
    /\ ~Aborted
    /\ read < size
    /\ read' = read + 1
    /\ IF link[h] = "closed" /\ state = "trying"
         THEN loops' = loops \ {h} /\ Fail /\ UNCHANGED <<got, client>>
         ELSE /\ got' = [got EXCEPT ![h] = @ \cup {read + 1}]
              /\ UNCHANGED <<loops, client, link>>
              /\ NothingElse
    /\ UNCHANGED <<size, amiss, broke>>

\* Mutant: reading begins before there is a connection.
ForwardEarly(h) ==
    /\ h \in loops \/ (Attempting(h) /\ link[h] = "opening" /\ KindOf[h] # "plain")
    /\ ~Aborted
    /\ read < size
    /\ read' = read + 1
    /\ got' = [got EXCEPT ![h] = @ \cup {read + 1}]
    /\ UNCHANGED <<size, amiss, link, loops, client, broke>>
    /\ NothingElse

\* Mutant: the end of the body is not seen.
ForwardPastTheEnd(h) ==
    /\ h \in loops
    /\ read' = read + 1
    /\ got' = [got EXCEPT ![h] = @ \cup {read + 1}]
    /\ UNCHANGED <<size, amiss, link, loops, client, broke>>
    /\ NothingElse

\* A loop takes the next chunk. That of an attempt that is over writes it to a
\* destroyed socket, and waits for a drain that never comes; or the close event
\* is still to come and rejects the wait, and leaving the loop by an error
\* destroys the client's request.
Forward(h) ==
    /\ h \in loops
    /\ ~Aborted
    /\ read < size
    /\ read' = read + 1
    /\ IF link[h] = "closed"
         THEN /\ loops' = loops \ {h}
              /\ client' \in {client, "cut"}
              /\ UNCHANGED got
         ELSE /\ got' = [got EXCEPT ![h] = @ \cup {read + 1}]
              /\ UNCHANGED <<loops, client>>
    /\ UNCHANGED <<size, amiss, link, broke>>
    /\ NothingElse

\* The body is at its end, and what was written of it has drained.
LoopEnds(h) ==
    /\ h \in loops
    /\ ~Aborted
    /\ read = size
    /\ loops' = loops \ {h}
    /\ UNCHANGED <<size, amiss, link, read, got, client, broke>>
    /\ NothingElse

\* Reading throws. In the present attempt that is a failure, also when the
\* response is being written; in one that is over nobody hears of it.
LoopThrows(h) ==
    /\ h \in loops
    /\ Aborted
    /\ loops' = loops \ {h}
    /\ IF Attempting(h) THEN Fail ELSE UNCHANGED link /\ NothingElse
    /\ UNCHANGED <<size, amiss, read, got, client, broke>>

ClientLeaves ==
    /\ client = "here"
    /\ client' = "gone"
    /\ UNCHANGED <<size, amiss, link, bodyVars, broke>>
    /\ NothingElse

-----------------------------------------------------------------------------
(* The response.                                                           *)

\* Mutant: a head that was sent before is not minded.
HeadArrivesAgain(h) ==
    /\ Attempting(h) /\ link[h] = "asked"
    /\ link' = [link EXCEPT ![h] = "piping"]
    /\ state' = IF KindOf[h] = "plain" THEN "served" ELSE "serving"
    /\ status' = "relayed"
    /\ heard' = heard \cup {h}
    /\ UNCHANGED <<size, amiss, current, bodyVars, over, client, broke, blamed>>

\* The head of a response is read, and written with what came behind it. When
\* one was written before, writeHead throws.
HeadArrives(h) ==
    /\ Attempting(h) /\ link[h] = "asked"
    /\ IF status # "none" THEN Fail
       ELSE /\ link' = [link EXCEPT ![h] = "piping"]
            /\ state' = IF KindOf[h] = "plain" THEN "served" ELSE "serving"
            /\ status' = "relayed"
            /\ heard' = heard \cup {h}
            /\ UNCHANGED <<current, over, blamed>>
    /\ UNCHANGED <<size, amiss, bodyVars, client, broke>>

\* A loop that waits for the relay's socket to drain rejects when that closes,
\* and destroys the client's request on its way out.
DrainRejects(h) ==
    \/ UNCHANGED <<loops, client>>
    \/ /\ h \in loops
       /\ got[h] # {}
       /\ loops' = loops \ {h}
       /\ client' = "cut"

\* The relay or the connection to it fails: it cannot be reached or is not
\* granted in time, its replies are not valid or are misread (see
\* RelayHandshake), it breaks off, or answers 407, 403 or 502 for itself.
RelayFails(h) ==
    /\ Attempting(h) /\ link[h] \in {"opening", "asked"}
    /\ broke' = broke \cup {h}
    /\ DrainRejects(h)
    /\ Fail
    /\ UNCHANGED <<size, amiss, read, got>>

\* What a relay was to send on and was not sent: chunks that another loop took;
\* or the body of the request, of which a plain relay is sent nothing.
Withheld(h) ==
    \/ 1..read \ got[h] # {}
    \/ KindOf[h] = "plain" /\ size # 0

\* A failure that h cannot help. silent: the target cannot be reached, or sends
\* no valid head in time. refuses: it answers 403, 407 or 502 itself, which is
\* an error from a plain relay. slow: the body comes so slowly that the time for
\* the head, which runs from that of the request, is used up. And a target that
\* is not sent the whole body goes on waiting for it.
Helpless(h) ==
    \/ "silent" \in amiss /\ KindOf[h] = "socks5"
    \/ /\ link[h] \in {"asked", "piping", "closed"}
       /\ \/ "silent" \in amiss
          \/ "refuses" \in amiss /\ KindOf[h] = "plain"
          \/ "slow" \in amiss /\ size # 0
          \/ Withheld(h)

\* The attempt fails as it does when the relay does: nothing tells them apart.
OthersFail(h) ==
    /\ Attempting(h) /\ link[h] \in {"opening", "asked"}
    /\ Helpless(h)
    /\ DrainRejects(h)
    /\ Fail
    /\ UNCHANGED <<size, amiss, read, got, broke>>

\* The relay closes its end and the pipe ends the response, which is finished
\* once it is written out. The pipe to a client that is not there is undone.
ResponseEnds(h) ==
    /\ link[h] = "piping"
    /\ client = "here"
    /\ link' = Closed(h)
    /\ over' = TRUE
    /\ state' = IF state = "serving" THEN "served" ELSE state
    /\ UNCHANGED <<size, amiss, current, bodyVars, status, heard, client, broke,
                   blamed>>

\* The connection breaks in the middle of a response. A streamed attempt rejects
\* and is retried, though the client has part of the response. A plain one is
\* over, and nobody hears of it.
Breaks(h) ==
    /\ link[h] = "piping"
    /\ broke' = broke \cup {h}
    /\ DrainRejects(h)
    /\ IF state = "serving" THEN Fail ELSE link' = Closed(h) /\ NothingElse
    /\ UNCHANGED <<size, amiss, read, got>>

\* The timeout a TLS socket was opened with destroys it when it is idle, with no
\* event that readAndPipeResponse listens to.
IdleTimeout(h) ==
    /\ link[h] = "piping"
    /\ KindOf[h] = "http"
    /\ link' = Closed(h)
    /\ broke' = broke \cup {h}
    /\ DrainRejects(h)
    /\ UNCHANGED <<size, amiss, read, got>>
    /\ NothingElse

-----------------------------------------------------------------------------

Init ==
    /\ size \in Sizes
    /\ amiss \in Troubles
    /\ state = "new"
    /\ current = NONE
    /\ link = [h \in Relays |-> "none"]
    /\ loops = {}
    /\ read = 0
    /\ got = [h \in Relays |-> {}]
    /\ status = "none"
    /\ heard = {}
    /\ over = FALSE
    /\ client = "here"
    /\ broke = {}
    /\ blamed = {}

Next ==
    \/ Refuse
    \/ Begin
    \/ \E h \in Relays :
           Connects(h) \/ Forward(h) \/ LoopEnds(h) \/ LoopThrows(h)
    \/ ClientLeaves
    \/ \E h \in Relays :
           HeadArrives(h) \/ RelayFails(h) \/ OthersFail(h) \/ ResponseEnds(h)
             \/ Breaks(h) \/ IdleTimeout(h)

Spec == Init /\ [][Next]_vars

\* A request is handled when it comes; a connection is granted or fails, and a
\* head comes or does not, each under a timeout.
Fairness ==
    /\ WF_vars(Refuse \/ Begin)
    /\ \A h \in Relays :
           WF_vars(Connects(h) \/ HeadArrives(h) \/ RelayFails(h)
                     \/ OthersFail(h))

FairSpec == Spec /\ Fairness

-----------------------------------------------------------------------------
(* Properties.                                                             *)

\* What the client is told is one answer: no head after a head, nothing of a
\* second relay behind what it has of a first, and no 502 after a response has
\* begun (relay-http-request.ts, readAndPipeResponse; http-proxy.ts,
\* handleHttpProxyRequest).
Answer == INSTANCE ClientAnswer WITH
    status <- status, heard <- heard, over <- over

AnswerSpec == Answer!Spec

\* A relay whose connection did not fail is put on backoff for one of these: the
\* client's request was destroyed, by the client or by a loop over its body; a
\* relay had broken off in the middle of its response, and the head could not be
\* written a second time (relay-http-request.ts, readAndPipeResponse); or the
\* target, the client or an earlier loop left it without a head to send on, which
\* the code cannot tell from a failure of the relay (parseUpstreamResponse and
\* isProxyLevelError). It never is for what becomes of another's attempt, nor
\* when it was not even granted the connection, unless over SOCKS5.
HealthyBlamed ==
    \A h \in blamed \ broke :
        Helpless(h) \/ client # "here" \/ heard \cap broke # {}

\* The body of a request is not touched by relays that cannot be reached: the
\* first one that can is sent all that is read, in spite of the retries before
\* it. A second one that is asked may miss some of it (relay-http-request.ts,
\* forwardRequestBody).
BodyKept ==
    \A h \in Relays :
        ( /\ link[h] \in {"asked", "piping"}
          /\ KindOf[h] # "plain"
          /\ \A o \in Relays \ {h} : link[o] \in {"none", "refused"} )
        => got[h] = 1..read

\* A client that stays gets an answer, or some of one, unless there was no relay
\* for the first pick (relay-retry.ts, tryRelays, and http-proxy.ts,
\* handleHttpProxyRequest).
AnsweredInTheEnd == <>(status # "none" \/ client # "here" \/ state = "empty")

=============================================================================
