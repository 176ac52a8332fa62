--------------------------- MODULE RelayHandshake ---------------------------
(***************************************************************************)
(* connectViaRelay (connect-via-relay.ts) on a connection that is up: the  *)
(* relay is asked for the destination, and what it answers is read and     *)
(* judged. Over SOCKS5 (socks5.ts) all requests go out in one write, and   *)
(* the first twelve bytes of what comes back are taken for the answers.    *)
(* Over HTTP (http-upstream.ts, http-plain.ts) the answer is a header,     *)
(* whose end readUntilHeaderEnd (socket-utils.ts) looks for.               *)
(*                                                                         *)
(* What the relay sends is one stream of bytes, which the network hands    *)
(* over in chunks cut anywhere. Bytes are numbers; of an HTTP header only  *)
(* the status code and the line ends are told apart, so that a status line *)
(* is one "byte".                                                          *)
(***************************************************************************)
EXTENDS Integers, Sequences

CONSTANTS
    Streams,    \* what a relay may send, see StreamsAssumption
    MaxHeader   \* DEFAULT_MAX_HEADER_BYTES

Kinds == {"socks5", "socks5auth", "http"}

\* reply is the length of the answer: what follows it belongs to the tunnel.
\* granted says whether the relay has agreed to connect.
ASSUME StreamsAssumption ==
    /\ Streams \subseteq
           [kind : Kinds, bytes : Seq(Nat), reply : Nat, granted : BOOLEAN]
    /\ MaxHeader \in Nat

\* The bytes connectViaSocks5 waits for.
Expected == 12

CR == 13
LF == 10
OK == 200       \* a status line with the code 200

\* A relay's replies over SOCKS5 follow one another (RFC 1928, RFC 1929): m
\* bytes for the method, a bytes for the credentials, then that to the connect
\* request. Each carries its verdict in its second byte.
Agrees(bytes, m, a, method) ==
    /\ m = 2 => bytes[2] = method
    /\ a = 2 => bytes[m + 2] = 0
    /\ bytes[m + a + 2] = 0

\* With credentials a relay may leave out the reply to the method, and the first
\* byte, the version of a protocol, tells which reply comes first. Streams too
\* short to be judged are not spoken of.
ASSUME RepliesAssumption ==
    \A s \in Streams :
        /\ s.kind = "http" /\ s.bytes # <<>> => s.granted = (s.bytes[1] = OK)
        /\ s.kind = "socks5" /\ Len(s.bytes) >= Expected =>
               s.granted = Agrees(s.bytes, 2, 0, 0)
        /\ s.kind = "socks5auth" /\ Len(s.bytes) >= Expected =>
               \/ /\ s.bytes[1] = 5
                  /\ s.granted = Agrees(s.bytes, 2, 2, 2)
               \/ /\ s.bytes[1] = 1
                  /\ s.granted = Agrees(s.bytes, 0, 2, 2)
               \/ s.bytes[1] \notin {1, 5} /\ ~s.granted

VARIABLES
    stream,     \* what this relay sends
    delivered,  \* how many of its bytes have come
    trailing,   \* t0, t1 and t2: the last three bytes of a header so far
    state       \* waiting, granted, refused, or broken off

vars == <<stream, delivered, trailing, state>>

TypeOK ==
    /\ stream \in Streams
    /\ delivered \in 0..Len(stream.bytes)
    /\ trailing \in [1..3 -> Nat]
    /\ state \in {"waiting", "granted", "refused", "broken"}

-----------------------------------------------------------------------------
(* SOCKS5.                                                                 *)

\* Mutant: that Tor leaves out the reply to the method is not considered.
ConnectOffsetFull(kind, bytes) == IF kind = "socks5" THEN 2 ELSE 4

\* Where the reply to the connect request begins. With credentials it follows
\* the replies to the method and to the credentials; Tor leaves the first out.
ConnectOffset(kind, bytes) ==
    IF kind = "socks5auth" /\ bytes[1] = 5 THEN 4 ELSE 2

\* Has the relay accepted the method, or the credentials?
Negotiated(kind, bytes) ==
    CASE kind = "socks5" -> bytes[2] = 0
      [] kind = "socks5auth" /\ bytes[1] = 5 -> bytes[2] = 2 /\ bytes[4] = 0
      [] kind = "socks5auth" /\ bytes[1] # 5 -> bytes[1] = 1 /\ bytes[2] = 0

\* The twelve bytes hold every byte this looks at.
Socks5Granted(kind, bytes) ==
    /\ Negotiated(kind, bytes)
    /\ bytes[ConnectOffset(kind, bytes) + 2] = 0

ReadSocks5(n) ==
    /\ stream.kind # "http"
    /\ state' = IF n < Expected THEN "waiting"
                ELSE IF Socks5Granted(stream.kind, stream.bytes)
                  THEN "granted" ELSE "refused"
    /\ UNCHANGED trailing

-----------------------------------------------------------------------------
(* HTTP.                                                                   *)

MarkerAt(bytes, i) ==
    bytes[i] = CR /\ bytes[i + 1] = LF /\ bytes[i + 2] = CR /\ bytes[i + 3] = LF

\* Mutant: a marker of which one byte comes in the later chunk is not looked for.
FoundInChunkBarTheLast(bytes, n, m) ==
    \/ \E i \in n + 1..m - 3 : MarkerAt(bytes, i)
    \/ /\ m - n >= 3
       /\ trailing[3] = CR
       /\ bytes[n + 1] = LF /\ bytes[n + 2] = CR /\ bytes[n + 3] = LF
    \/ /\ m - n >= 2
       /\ trailing[2] = CR /\ trailing[3] = LF
       /\ bytes[n + 1] = CR /\ bytes[n + 2] = LF

\* foundInChunk, when the bytes n + 1 to m are the chunk. hasTrailing is not
\* needed: before the first chunk the trailing bytes are 0, which is no byte of
\* the marker.
FoundInChunk(bytes, n, m) ==
    \/ \E i \in n + 1..m - 3 : MarkerAt(bytes, i)
    \/ /\ m - n >= 3
       /\ trailing[3] = CR
       /\ bytes[n + 1] = LF /\ bytes[n + 2] = CR /\ bytes[n + 3] = LF
    \/ /\ m - n >= 2
       /\ trailing[2] = CR /\ trailing[3] = LF
       /\ bytes[n + 1] = CR /\ bytes[n + 2] = LF
    \/ /\ trailing[1] = CR /\ trailing[2] = LF /\ trailing[3] = CR
       /\ bytes[n + 1] = LF

\* Mutant: the last bytes of a short chunk are all that is kept.
TrailingOfChunk(bytes, n, m) ==
    [i \in 1..(IF m - n >= 3 THEN 3 ELSE m - n) |->
        bytes[(IF m - n >= 3 THEN m - 3 ELSE n) + i]]

\* updateTrailing
Trailing(bytes, n, m) ==
    CASE m - n >= 3 -> <<bytes[m - 2], bytes[m - 1], bytes[m]>>
      [] m - n = 2  -> <<trailing[3], bytes[m - 1], bytes[m]>>
      [] m - n = 1  -> <<trailing[2], trailing[3], bytes[m]>>

\* A header that is too long is an error, also when its end has come. The
\* status line is the first line.
ReadHeader(n) ==
    LET bytes == stream.bytes
    IN  /\ stream.kind = "http"
        /\ state' = CASE n > MaxHeader -> "broken"
                      [] n <= MaxHeader /\ FoundInChunk(bytes, delivered, n) ->
                           IF bytes[1] = OK THEN "granted" ELSE "refused"
                      [] OTHER -> "waiting"
        /\ trailing' = IF state' = "waiting" THEN Trailing(bytes, delivered, n)
                                             ELSE trailing

-----------------------------------------------------------------------------

\* The next chunk ends with the n-th byte.
Read(n) ==
    /\ state = "waiting"
    /\ delivered' = n
    /\ ReadSocks5(n) \/ ReadHeader(n)
    /\ UNCHANGED stream

\* The relay closes its end, the connection breaks, or the timer fires.
Break ==
    /\ state = "waiting"
    /\ state' = "broken"
    /\ UNCHANGED <<stream, delivered, trailing>>

Init ==
    /\ stream \in Streams
    /\ delivered = 0
    /\ trailing = <<0, 0, 0>>
    /\ state = "waiting"

Next == Break \/ \E n \in delivered + 1..Len(stream.bytes) : Read(n)

Spec == Init /\ [][Next]_vars

-----------------------------------------------------------------------------
(* Properties.                                                             *)

HasMarker(n) == \E i \in 1..n - 3 : MarkerAt(stream.bytes, i)

\* readUntilHeaderEnd finds the end of a header wherever the network cuts it,
\* in the marker too, and nowhere else: while it waits no marker has come, and
\* what it resolves with holds one.
HeaderFound ==
    stream.kind = "http" =>
        /\ state = "waiting" => ~HasMarker(delivered)
        /\ state \in {"granted", "refused"} => HasMarker(delivered)

\* The verdict is the relay's, however its answer is cut and whichever of the
\* replies it leaves out: connectViaRelay hands out no socket of a relay that
\* has refused, and blames none that has granted.
VerdictIsTheRelays ==
    /\ state = "granted" => stream.granted
    /\ state = "refused" => ~stream.granted

\* test/http-proxy.test.ts, line 381: "supports HTTPS CONNECT tunneling through
\* the selected relay". A tunnel carries what the destination sends and nothing
\* else: the handshake takes the relay's answer from the stream, all of it, and
\* no byte of what follows.
TunnelClean == state = "granted" => delivered = stream.reply

=============================================================================
