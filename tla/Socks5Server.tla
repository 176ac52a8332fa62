---------------------------- MODULE Socks5Server ----------------------------
(***************************************************************************)
(* createSocks5Server (socks5-server.ts) and the reads of its handshake    *)
(* (readExact, socket-utils.ts). A message of the client is a sequence of  *)
(* bytes; the network hands it over in chunks that are cut anywhere.       *)
(*                                                                         *)
(* readExact resolves with all it has received, and handleClient uses the  *)
(* first bytes of that only. The next read begins with the next chunk, so  *)
(* the bytes a read got beyond its count are lost.                         *)
(*                                                                         *)
(* A client sends a message at a time and waits for the answer to it. It   *)
(* leaves by closing its end. tryRelays, which RelayRetry models, is here  *)
(* its outcome: no relay at the first pick, an error, or a tunnel.         *)
(***************************************************************************)
EXTENDS Naturals, Sequences, FiniteSets

CONSTANTS
    Clients,        \* as many names as connections can overlap
    Conversations   \* what each may send: its greeting and its request

ASSUME ConversationsAssumption ==
    /\ IsFiniteSet(Clients)
    /\ Conversations \in
           [Clients -> (SUBSET [greeting : Seq(Nat), request : Seq(Nat)]) \ {{}}]

\* A greeting counts its methods. A request to connect ends with the address, as
\* long as its type or its own first byte says, and with the port (RFC 1928). A
\* message that is refused for its first bytes may be anything.
ASSUME WellFormedAssumption ==
    \A c \in Clients : \A t \in Conversations[c] :
        t.greeting[1] = 5 =>
            /\ Len(t.greeting) = 2 + t.greeting[2]
            /\ t.request[1] = 5 /\ t.request[2] = 1 =>
                   /\ t.request[4] = 1 => Len(t.request) = 10
                   /\ t.request[4] = 3 => Len(t.request) = 7 + t.request[5]
                   /\ t.request[4] = 4 => Len(t.request) = 22

VARIABLES
    phase,      \* what handleClient waits for, see Reads and Phases
    count,      \* the argument of the readExact under way
    talk,       \* the conversation of the client
    sent,       \* bytes the client has sent
    delivered,  \* bytes of those that have arrived
    begun,      \* bytes that had arrived when the read under way began
    overread,   \* history: some read has got more than its count
    target,     \* what is known of the host and the port to connect to
    answer,     \* the last answer to the client, "none" before the first
    open,       \* the client's socket is open
    activeConnections

streamVars == <<talk, sent, delivered, begun, overread>>
parseVars == <<count, target>>
socketVars == <<open, activeConnections>>
vars == <<phase, count, talk, sent, delivered, begun, overread, target, answer,
          open, activeConnections>>

\* The reads, named for what they wait for, in the order of the code.
Reads == {"greeting", "methods", "header", "ipv4", "length", "domain", "ipv6",
          "port"}

\* connecting: in tryRelays. empty: it had no relay to try, and handleClient
\* returned with nothing written and the socket left as it is.
Phases == Reads \cup {"idle", "connecting", "tunnel", "empty", "closed"}

\* By the second byte of the answer that is sent.
Answers == {"none", "method", "ok", "unreachable", "command", "address"}

NoTarget == [host |-> <<>>, port |-> <<>>]

Stream(c) == talk[c].greeting \o talk[c].request

TypeOK ==
    /\ phase \in [Clients -> Phases]
    /\ count \in [Clients -> Nat]
    /\ talk \in [Clients -> UNION {Conversations[c] : c \in Clients}]
    /\ \A c \in Clients : talk[c] \in Conversations[c]
    /\ sent \in [Clients -> Nat]
    /\ delivered \in [Clients -> Nat]
    /\ begun \in [Clients -> Nat]
    /\ overread \in [Clients -> BOOLEAN]
    /\ target \in [Clients -> [host : Seq(Nat), port : Seq(Nat)]]
    /\ answer \in [Clients -> Answers]
    /\ open \in [Clients -> BOOLEAN]
    /\ activeConnections \in 0..Cardinality(Clients)
    /\ \A c \in Clients :
           /\ begun[c] <= delivered[c] /\ delivered[c] <= sent[c]
           /\ sent[c] <= Len(Stream(c))

-----------------------------------------------------------------------------
(* handleClient, from one read to the next.                                *)

Await(c, read, n) ==
    /\ phase' = [phase EXCEPT ![c] = read]
    /\ count' = [count EXCEPT ![c] = n]

Write(c, what) == answer' = [answer EXCEPT ![c] = what]

\* Mutant: a socket that is destroyed is not counted off.
ClosedUncounted(c) ==
    open' = [open EXCEPT ![c] = FALSE] /\ UNCHANGED activeConnections

\* Mutant: connectionEnd by destroy and by the close event it makes.
ClosedTwice(c) ==
    /\ open' = [open EXCEPT ![c] = FALSE]
    /\ activeConnections' = activeConnections - 2

\* The socket closes, by destroy or from the other end: connectionEnd, once.
Closed(c) ==
    /\ open' = [open EXCEPT ![c] = FALSE]
    /\ activeConnections' = IF open[c] THEN activeConnections - 1
                                       ELSE activeConnections

Refuse(c) == phase' = [phase EXCEPT ![c] = "closed"] /\ Closed(c)

\* What follows the read under way, when it has resolved with the bytes got.
ReadGreeting(c, got) ==
    /\ phase[c] = "greeting"
    /\ IF got[1] # 5
         THEN Refuse(c) /\ UNCHANGED parseVars
         ELSE Await(c, "methods", got[2]) /\ UNCHANGED <<target, socketVars>>
    /\ UNCHANGED answer

ReadMethods(c) ==
    /\ phase[c] = "methods"
    /\ Write(c, "method")
    /\ Await(c, "header", 4)
    /\ UNCHANGED <<target, socketVars>>

RefuseWith(c, what) == Write(c, what) /\ Refuse(c) /\ UNCHANGED parseVars

ReadAddressOf(c, read, n) ==
    Await(c, read, n) /\ UNCHANGED <<target, answer, socketVars>>

ReadHeader(c, got) ==
    /\ phase[c] = "header"
    /\ IF got[1] # 5 \/ got[2] # 1 THEN RefuseWith(c, "command")
       ELSE \/ got[4] = 1 /\ ReadAddressOf(c, "ipv4", 4)
            \/ got[4] = 3 /\ ReadAddressOf(c, "length", 1)
            \/ got[4] = 4 /\ ReadAddressOf(c, "ipv6", 16)
            \/ got[4] \notin {1, 3, 4} /\ RefuseWith(c, "address")

\* Mutant: the length is taken to count its own byte.
ReadLengthShort(c, got) ==
    /\ phase[c] = "length"
    /\ ReadAddressOf(c, "domain", IF got[1] = 0 THEN 0 ELSE got[1] - 1)

ReadLength(c, got) ==
    /\ phase[c] = "length"
    /\ ReadAddressOf(c, "domain", got[1])

\* An IPv6 address is read off the first 16 bytes, the others off all there are.
ReadHost(c, got) ==
    /\ phase[c] \in {"ipv4", "domain", "ipv6"}
    /\ target' = [target EXCEPT ![c].host =
                     IF phase[c] = "ipv6" THEN SubSeq(got, 1, 16) ELSE got]
    /\ Await(c, "port", 2)
    /\ UNCHANGED <<answer, socketVars>>

ReadPort(c, got) ==
    /\ phase[c] = "port"
    /\ target' = [target EXCEPT ![c].port = SubSeq(got, 1, 2)]
    /\ phase' = [phase EXCEPT ![c] = "connecting"]
    /\ UNCHANGED <<count, answer, socketVars>>

Resolve(c, got) ==
    \/ ReadGreeting(c, got)
    \/ ReadMethods(c)
    \/ ReadHeader(c, got)
    \/ ReadLength(c, got)
    \/ ReadHost(c, got)
    \/ ReadPort(c, got)

-----------------------------------------------------------------------------
(* readExact.                                                              *)

\* Mutant: only the last chunk counts.
ReceivedLast(c, arrived) == arrived - delivered[c]

\* What a read has received when the stream has arrived thus far.
Received(c, arrived) == arrived - begun[c]

\* A chunk arrives. A read of nothing, too, resolves no sooner.
Deliver(c) ==
    /\ phase[c] \in Reads /\ open[c]
    /\ \E arrived \in (delivered[c] + 1)..sent[c] :
           LET received == Received(c, arrived)
           IN  /\ delivered' = [delivered EXCEPT ![c] = arrived]
               /\ IF received >= count[c]
                    THEN /\ begun' = [begun EXCEPT ![c] = arrived]
                         /\ overread' = [overread EXCEPT ![c] =
                                            @ \/ received > count[c]]
                         /\ Resolve(c, SubSeq(Stream(c), begun[c] + 1, arrived))
                    ELSE UNCHANGED <<begun, overread, phase, parseVars, answer,
                                     socketVars>>
    /\ UNCHANGED <<talk, sent>>

-----------------------------------------------------------------------------
(* tryRelays and the tunnel.                                               *)

NoRelay(c) ==
    /\ phase[c] = "connecting"
    /\ phase' = [phase EXCEPT ![c] = "empty"]
    /\ UNCHANGED <<parseVars, streamVars, answer, socketVars>>

RelaysFail(c) ==
    /\ phase[c] = "connecting"
    /\ RefuseWith(c, "unreachable")
    /\ UNCHANGED streamVars

TunnelUp(c) ==
    /\ phase[c] = "connecting"
    /\ phase' = [phase EXCEPT ![c] = "tunnel"]
    /\ Write(c, "ok")
    /\ UNCHANGED <<parseVars, streamVars, socketVars>>

\* The relay's end closes; the pipe ends the client's.
RelayCloses(c) ==
    /\ phase[c] = "tunnel"
    /\ Refuse(c)
    /\ UNCHANGED <<parseVars, streamVars, answer>>

-----------------------------------------------------------------------------
(* Clients.                                                                *)

\* A client connects; nothing of an earlier connection is left in its slot.
Accept(c) ==
    /\ ~open[c] /\ phase[c] \in {"idle", "closed", "empty"}
    /\ Await(c, "greeting", 2)
    /\ \E t \in Conversations[c] : talk' = [talk EXCEPT ![c] = t]
    /\ sent' = [sent EXCEPT ![c] = 0]
    /\ delivered' = [delivered EXCEPT ![c] = 0]
    /\ begun' = [begun EXCEPT ![c] = 0]
    /\ overread' = [overread EXCEPT ![c] = FALSE]
    /\ target' = [target EXCEPT ![c] = NoTarget]
    /\ Write(c, "none")
    /\ open' = [open EXCEPT ![c] = TRUE]
    /\ activeConnections' = activeConnections + 1

\* The greeting at once, the request after the answer to the greeting.
Send(c) ==
    /\ open[c]
    /\ \/ sent[c] = 0 /\ sent' = [sent EXCEPT ![c] = Len(talk[c].greeting)]
       \/ /\ answer[c] = "method"
          /\ sent[c] = Len(talk[c].greeting)
          /\ sent' = [sent EXCEPT ![c] = Len(Stream(c))]
    /\ UNCHANGED <<phase, parseVars, talk, delivered, begun, overread, answer,
                   socketVars>>

\* A read rejects, and the socket is destroyed; a tunnel's race is over. While
\* relays are tried nothing listens, and a tunnel that comes up then is over
\* only when its relay closes it.
ClientLeaves(c) ==
    /\ open[c]
    /\ Closed(c)
    /\ phase' = [phase EXCEPT ![c] = IF @ \in Reads \cup {"tunnel"}
                                       THEN "closed" ELSE @]
    /\ UNCHANGED <<parseVars, streamVars, answer>>

-----------------------------------------------------------------------------

Init ==
    /\ phase = [c \in Clients |-> "idle"]
    /\ count = [c \in Clients |-> 0]
    /\ talk = [c \in Clients |-> CHOOSE t \in Conversations[c] : TRUE]
    /\ sent = [c \in Clients |-> 0]
    /\ delivered = [c \in Clients |-> 0]
    /\ begun = [c \in Clients |-> 0]
    /\ overread = [c \in Clients |-> FALSE]
    /\ target = [c \in Clients |-> NoTarget]
    /\ answer = [c \in Clients |-> "none"]
    /\ open = [c \in Clients |-> FALSE]
    /\ activeConnections = 0

ClientStep(c) == Accept(c) \/ Send(c) \/ ClientLeaves(c)

RelayStep(c) == NoRelay(c) \/ RelaysFail(c) \/ TunnelUp(c)

Next == \E c \in Clients :
            ClientStep(c) \/ Deliver(c) \/ RelayStep(c) \/ RelayCloses(c)

Spec == Init /\ [][Next]_vars

\* What is sent arrives, a client that is answered goes on, and retries come to
\* an end (RetriesEnd of RelayRetry).
Fairness ==
    \A c \in Clients :
        WF_vars(Send(c)) /\ WF_vars(Deliver(c)) /\ WF_vars(RelayStep(c))

FairSpec == Spec /\ Fairness

-----------------------------------------------------------------------------
(* Properties.                                                             *)

\* The counter GET /stats shows is the number of open connections, however each
\* of them ends (socks5-server.ts, handleClient; stats.ts).
ActiveConnectionsCounted ==
    activeConnections = Cardinality({c \in Clients : open[c]})

Requested(request) ==
    LET first == IF request[4] = 3 THEN 6 ELSE 5
    IN  [host |-> SubSeq(request, first, Len(request) - 2),
         port |-> SubSeq(request, Len(request) - 1, Len(request))]

\* No byte of a domain can pass for the length of it and leave enough of the
\* request. A host name of up to 45 bytes is such a domain: "-" is byte 45, and
\* its other characters come after that.
Unmistakable(request) ==
    request[4] = 3 => \A i \in 6..Len(request) - 2 : request[i] >= request[5]

\* Relays are asked for the host and port that the client asked for, in whatever
\* chunks the request came: a read that lost bytes leaves the handshake short of
\* them and never shifts the address. Of a longer domain, a byte of which may be
\* taken for its length, this is stated when nothing was lost.
TargetAsRequested ==
    \A c \in Clients :
        /\ phase[c] \in {"connecting", "tunnel", "empty"}
        /\ overread[c] => Unmistakable(talk[c].request)
        => target[c] = Requested(talk[c].request)

\* The server is done with the client's handshake, for better or worse.
Settled(c) ==
    \/ ~open[c]
    \/ phase[c] \in {"tunnel", "empty"}

\* The greeting has named no method, and the client waits to be answered.
AwaitsNothing(c) == phase[c] = "methods" /\ count[c] = 0

\* The handshake of every client comes to its end, and two things only can leave
\* one waiting: a read that got more than its count, whose surplus is lost to
\* the next; and a greeting with no methods, as a read of no bytes resolves with
\* the next chunk (socket-utils.ts, readExact) and the client sends none before
\* the answer.
HandshakeEnds ==
    \A c \in Clients :
        open[c] /\ ~overread[c] ~> overread[c] \/ AwaitsNothing(c) \/ Settled(c)

-----------------------------------------------------------------------------
(* What the README says, and the code does not keep to.                    *)

\* README.md, line 62: "curl --socks5-hostname 127.0.0.1:1080
\* https://api.example.com". A client that greets the server is answered.
HandshakeAnswered ==
    \A c \in Clients : open[c] /\ sent[c] > 0 ~> Settled(c) \/ answer[c] # "none"

=============================================================================
