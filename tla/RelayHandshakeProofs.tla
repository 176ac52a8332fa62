------------------------ MODULE RelayHandshakeProofs ------------------------
(***************************************************************************)
(* For every stream of a relay, every cut of it and every limit: the scan  *)
(* for the end of a header finds it where it is, and the relay is taken at *)
(* its word.                                                               *)
(***************************************************************************)
EXTENDS RelayHandshake, TLAPS

\* The i-th of the last three bytes of the first n, 0 where there is none.
LastByte(n, i) == IF n + i > 3 THEN stream.bytes[n + i - 3] ELSE 0

\* While a header is awaited, t0, t1 and t2 are the last three bytes that came,
\* and no marker did.
Scanned ==
    stream.kind = "http" /\ state = "waiting" =>
        /\ \A i \in 1..3 : trailing[i] = LastByte(delivered, i)
        /\ ~HasMarker(delivered)

\* A header that is resolved has come to its end.
Resolved ==
    stream.kind = "http" /\ state \in {"granted", "refused"} =>
        HasMarker(delivered)

IInv == TypeOK /\ Scanned /\ Resolved

LEMMA StreamType ==
    ASSUME TypeOK
    PROVE  /\ stream.bytes \in Seq(Nat) /\ Len(stream.bytes) \in Nat
           /\ \A i \in 1..Len(stream.bytes) : stream.bytes[i] \in Nat
           /\ stream.kind \in Kinds
  <1>1. stream \in [kind : Kinds, bytes : Seq(Nat), reply : Nat,
                    granted : BOOLEAN]
    BY StreamsAssumption DEF TypeOK
  <1>2. stream.bytes \in Seq(Nat) /\ stream.kind \in Kinds
    BY <1>1
  <1> QED
    BY <1>2

LEMMA LastBytes ==
    ASSUME NEW n \in Nat
    PROVE  /\ LastByte(n, 1) = IF n > 2 THEN stream.bytes[n - 2] ELSE 0
           /\ LastByte(n, 2) = IF n > 1 THEN stream.bytes[n - 1] ELSE 0
           /\ LastByte(n, 3) = IF n > 0 THEN stream.bytes[n] ELSE 0
  <1>1. n + 1 - 3 = n - 2 /\ n + 2 - 3 = n - 1 /\ n + 3 - 3 = n
    OBVIOUS
  <1>2. /\ (n + 1 > 3) = (n > 2) /\ (n + 2 > 3) = (n > 1)
        /\ (n + 3 > 3) = (n > 0)
    OBVIOUS
  <1> QED
    BY <1>1, <1>2 DEF LastByte

\* foundInChunk, over a chunk that ends with the n-th byte: there is a marker in
\* what has come with it, as there was none before.
LEMMA FoundIsMarker ==
    ASSUME TypeOK, NEW n \in delivered + 1..Len(stream.bytes),
           \A i \in 1..3 : trailing[i] = LastByte(delivered, i),
           ~HasMarker(delivered)
    PROVE  FoundInChunk(stream.bytes, delivered, n) <=> HasMarker(n)
  <1> DEFINE d == delivered
  <1>1. d \in Nat /\ n \in Nat /\ d < n
    BY StreamType DEF TypeOK
  <1>2. /\ trailing[1] = IF d > 2 THEN stream.bytes[d - 2] ELSE 0
        /\ trailing[2] = IF d > 1 THEN stream.bytes[d - 1] ELSE 0
        /\ trailing[3] = IF d > 0 THEN stream.bytes[d] ELSE 0
    <2>1. /\ trailing[1] = LastByte(d, 1) /\ trailing[2] = LastByte(d, 2)
          /\ trailing[3] = LastByte(d, 3)
      OBVIOUS
    <2>2. /\ LastByte(d, 1) = IF d > 2 THEN stream.bytes[d - 2] ELSE 0
          /\ LastByte(d, 2) = IF d > 1 THEN stream.bytes[d - 1] ELSE 0
          /\ LastByte(d, 3) = IF d > 0 THEN stream.bytes[d] ELSE 0
      BY <1>1, LastBytes
    <2> QED
      BY <2>1, <2>2
  <1>3. ASSUME FoundInChunk(stream.bytes, d, n)
        PROVE  HasMarker(n)
    <2>1. CASE \E i \in d + 1..n - 3 : MarkerAt(stream.bytes, i)
      BY <1>1, <2>1 DEF HasMarker
    <2>2. CASE /\ n - d >= 3
               /\ trailing[3] = CR
               /\ stream.bytes[d + 1] = LF /\ stream.bytes[d + 2] = CR
               /\ stream.bytes[d + 3] = LF
      <3>1. d >= 1 /\ stream.bytes[d] = CR
        BY <1>1, <1>2, <2>2 DEF CR
      <3>2. MarkerAt(stream.bytes, d) /\ d \in 1..n - 3
        BY <1>1, <2>2, <3>1 DEF MarkerAt
      <3> QED
        BY <3>2 DEF HasMarker
    <2>3. CASE /\ n - d >= 2
               /\ trailing[2] = CR /\ trailing[3] = LF
               /\ stream.bytes[d + 1] = CR /\ stream.bytes[d + 2] = LF
      <3>1. d >= 2 /\ stream.bytes[d - 1] = CR /\ stream.bytes[d] = LF
        <4>1. d > 1 /\ trailing[2] = stream.bytes[d - 1]
          BY <1>2, <2>3 DEF CR
        <4>2. trailing[3] = stream.bytes[d]
          BY <1>2, <2>3 DEF LF
        <4> QED
          BY <1>1, <2>3, <4>1, <4>2
      <3>2. (d - 1) + 1 = d /\ (d - 1) + 2 = d + 1 /\ (d - 1) + 3 = d + 2
        BY <1>1
      <3>3. MarkerAt(stream.bytes, d - 1)
        BY <2>3, <3>1, <3>2 DEF MarkerAt
      <3>4. d - 1 \in 1..n - 3
        <4>1. n - d >= 2 /\ d >= 2
          BY <2>3, <3>1
        <4> QED
          BY <1>1, <4>1
      <3> QED
        BY <3>3, <3>4 DEF HasMarker
    <2>4. CASE /\ trailing[1] = CR /\ trailing[2] = LF /\ trailing[3] = CR
               /\ stream.bytes[d + 1] = LF
      <3>0. d >= 3
        <4>1. d > 2
          BY <1>2, <2>4 DEF CR
        <4> QED
          BY <1>1, <4>1
      <3>1. /\ stream.bytes[d - 2] = CR
            /\ stream.bytes[d - 1] = LF /\ stream.bytes[d] = CR
        <4>1. d > 2 /\ d > 1 /\ d > 0
          BY <1>1, <3>0
        <4> QED
          BY <1>2, <2>4, <4>1
      <3>2. (d - 2) + 1 = d - 1 /\ (d - 2) + 2 = d /\ (d - 2) + 3 = d + 1
        BY <1>1
      <3>3. MarkerAt(stream.bytes, d - 2) /\ d - 2 \in 1..n - 3
        BY <1>1, <2>4, <3>0, <3>1, <3>2 DEF MarkerAt
      <3> QED
        BY <3>3 DEF HasMarker
    <2> QED
      BY <1>3, <2>1, <2>2, <2>3, <2>4 DEF FoundInChunk
  <1>4. ASSUME HasMarker(n)
        PROVE  FoundInChunk(stream.bytes, d, n)
    <2>1. PICK i \in 1..n - 3 : MarkerAt(stream.bytes, i)
      BY <1>4 DEF HasMarker
    <2>2. i > d - 3
      BY <1>1, <2>1 DEF HasMarker
    <2>3. CASE i > d
      BY <1>1, <2>1, <2>3 DEF FoundInChunk
    <2>4. CASE i = d
      BY <1>1, <1>2, <2>1, <2>4 DEF FoundInChunk, MarkerAt
    <2>5. CASE i = d - 1
      <3>1. i + 1 = d /\ i + 2 = d + 1 /\ i + 3 = d + 2 /\ d >= 2
        BY <1>1, <2>5
      <3>2. trailing[2] = stream.bytes[i] /\ trailing[3] = stream.bytes[i + 1]
        BY <1>1, <1>2, <2>5, <3>1
      <3> QED
        BY <1>1, <2>1, <3>1, <3>2 DEF FoundInChunk, MarkerAt
    <2>6. CASE i = d - 2
      <3>1. i + 1 = d - 1 /\ i + 2 = d /\ i + 3 = d + 1 /\ d >= 3
        BY <1>1, <2>6
      <3>2. /\ trailing[1] = stream.bytes[i] /\ trailing[2] = stream.bytes[i + 1]
            /\ trailing[3] = stream.bytes[i + 2]
        BY <1>1, <1>2, <2>6, <3>1
      <3> QED
        BY <2>1, <3>1, <3>2 DEF FoundInChunk, MarkerAt
    <2> QED
      BY <1>1, <2>2, <2>3, <2>4, <2>5, <2>6
  <1> QED
    BY <1>3, <1>4

\* updateTrailing, over such a chunk.
LEMMA TrailingIsLast ==
    ASSUME TypeOK, NEW n \in delivered + 1..Len(stream.bytes),
           \A i \in 1..3 : trailing[i] = LastByte(delivered, i)
    PROVE  /\ Trailing(stream.bytes, delivered, n) \in [1..3 -> Nat]
           /\ \A i \in 1..3 :
                  Trailing(stream.bytes, delivered, n)[i] = LastByte(n, i)
  <1> DEFINE d == delivered
             T == Trailing(stream.bytes, d, n)
  <1>1. d \in Nat /\ n \in Nat /\ d < n /\ n <= Len(stream.bytes)
    BY StreamType DEF TypeOK
  <1>2. /\ trailing[1] = IF d > 2 THEN stream.bytes[d - 2] ELSE 0
        /\ trailing[2] = IF d > 1 THEN stream.bytes[d - 1] ELSE 0
        /\ trailing[3] = IF d > 0 THEN stream.bytes[d] ELSE 0
    <2>1. /\ trailing[1] = LastByte(d, 1) /\ trailing[2] = LastByte(d, 2)
          /\ trailing[3] = LastByte(d, 3)
      OBVIOUS
    <2>2. /\ LastByte(d, 1) = IF d > 2 THEN stream.bytes[d - 2] ELSE 0
          /\ LastByte(d, 2) = IF d > 1 THEN stream.bytes[d - 1] ELSE 0
          /\ LastByte(d, 3) = IF d > 0 THEN stream.bytes[d] ELSE 0
      BY <1>1, LastBytes
    <2> QED
      BY <2>1, <2>2
  <1>3. /\ LastByte(n, 1) = IF n > 2 THEN stream.bytes[n - 2] ELSE 0
        /\ LastByte(n, 2) = IF n > 1 THEN stream.bytes[n - 1] ELSE 0
        /\ LastByte(n, 3) = IF n > 0 THEN stream.bytes[n] ELSE 0
    BY <1>1, LastBytes
  <1>4. \A i \in 1..3 : LastByte(n, i) \in Nat
    BY <1>1, StreamType DEF LastByte
  <1>5. T = <<LastByte(n, 1), LastByte(n, 2), LastByte(n, 3)>>
    <2>1. CASE n - d >= 3
      <3>1. T = <<stream.bytes[n - 2], stream.bytes[n - 1], stream.bytes[n]>>
        BY <2>1 DEF Trailing
      <3>2. n > 2 /\ n > 1 /\ n > 0
        BY <1>1, <2>1
      <3> QED
        BY <1>3, <3>1, <3>2
    <2>2. CASE n - d = 2
      <3>1. T = <<trailing[3], stream.bytes[n - 1], stream.bytes[n]>>
        BY <1>1, <2>2 DEF Trailing
      <3>2. n - 2 = d /\ n > 1 /\ (n > 2) = (d > 0)
        BY <1>1, <2>2
      <3>3. LastByte(n, 1) = trailing[3]
        BY <1>2, <1>3, <3>2
      <3> QED
        BY <1>1, <1>3, <3>1, <3>2, <3>3
    <2>3. CASE n - d = 1
      <3>1. T = <<trailing[2], trailing[3], stream.bytes[n]>>
        BY <1>1, <2>3 DEF Trailing
      <3>2. /\ n - 2 = d - 1 /\ n - 1 = d /\ n > 0
            /\ (n > 2) = (d > 1) /\ (n > 1) = (d > 0)
        BY <1>1, <2>3
      <3>3. LastByte(n, 1) = trailing[2] /\ LastByte(n, 2) = trailing[3]
        BY <1>2, <1>3, <3>2
      <3> QED
        BY <1>3, <3>1, <3>2, <3>3
    <2> QED
      BY <1>1, <2>1, <2>2, <2>3
  <1> QED
    BY <1>4, <1>5

LEMMA ReadStep ==
    ASSUME IInv, NEW n \in delivered + 1..Len(stream.bytes), Read(n)
    PROVE  IInv'
  <1>1. delivered' = n /\ n \in 0..Len(stream.bytes) /\ UNCHANGED stream
    BY StreamType DEF IInv, TypeOK, Read
  <1>2. state = "waiting"
    BY DEF Read
  <1>3. CASE ReadSocks5(n)
    <2>1. /\ state' \in {"waiting", "granted", "refused"}
          /\ trailing' = trailing /\ stream.kind # "http"
      BY <1>3 DEF ReadSocks5
    <2> QED
      BY <1>1, <2>1 DEF IInv, TypeOK, Scanned, Resolved
  <1>4. CASE ReadHeader(n)
    <2>1. stream.kind = "http"
      BY <1>4 DEF ReadHeader
    <2>2. /\ \A i \in 1..3 : trailing[i] = LastByte(delivered, i)
          /\ ~HasMarker(delivered)
      BY <1>2, <2>1 DEF IInv, Scanned
    <2>3. FoundInChunk(stream.bytes, delivered, n) <=> HasMarker(n)
      BY <2>2, FoundIsMarker DEF IInv
    <2>4. /\ Trailing(stream.bytes, delivered, n) \in [1..3 -> Nat]
          /\ \A i \in 1..3 :
                 Trailing(stream.bytes, delivered, n)[i] = LastByte(n, i)
      BY <2>2, TrailingIsLast DEF IInv
    <2>5. n \in Nat /\ MaxHeader \in Nat
      BY <1>1, StreamsAssumption, StreamType DEF IInv
    <2>6. CASE n > MaxHeader
      <3>1. state' = "broken" /\ trailing' = trailing
        BY <1>4, <2>5, <2>6 DEF ReadHeader
      <3> QED
        BY <1>1, <3>1 DEF IInv, TypeOK, Scanned, Resolved
    <2>7. CASE n <= MaxHeader /\ HasMarker(n)
      <3>1. state' \in {"granted", "refused"} /\ trailing' = trailing
        BY <1>4, <2>3, <2>5, <2>7 DEF ReadHeader
      <3>2. HasMarker(n)'
        BY <1>1, <2>7 DEF HasMarker
      <3> QED
        BY <1>1, <3>1, <3>2 DEF IInv, TypeOK, Scanned, Resolved, HasMarker
    <2>8. CASE n <= MaxHeader /\ ~HasMarker(n)
      <3>1. /\ state' = "waiting"
            /\ trailing' = Trailing(stream.bytes, delivered, n)
        BY <1>4, <2>3, <2>5, <2>8 DEF ReadHeader
      <3>2. Scanned' /\ Resolved'
        BY <1>1, <2>4, <2>8, <3>1 DEF Scanned, Resolved, LastByte, HasMarker
      <3> QED
        BY <1>1, <2>4, <3>1, <3>2 DEF IInv, TypeOK
    <2> QED
      BY <2>5, <2>6, <2>7, <2>8
  <1> QED
    BY <1>3, <1>4 DEF Read

\* The inductive invariant: the scan is that of all that came, not of a chunk.
THEOREM Invariance == Spec => []IInv
  <1>1. Init => IInv
    <2> SUFFICES ASSUME Init PROVE IInv
      OBVIOUS
    <2>1. stream \in Streams /\ delivered = 0 /\ state = "waiting"
      BY DEF Init
    <2>2. trailing \in [1..3 -> Nat] /\ \A i \in 1..3 : trailing[i] = 0
      BY DEF Init
    <2>3. TypeOK
      <3>1. Len(stream.bytes) \in Nat
        BY <2>1, StreamsAssumption
      <3> QED
        BY <2>1, <2>2, <3>1 DEF TypeOK
    <2>4. Scanned /\ Resolved
      BY <2>1, <2>2 DEF Scanned, Resolved, LastByte, HasMarker
    <2> QED
      BY <2>3, <2>4 DEF IInv
  <1>2. IInv /\ [Next]_vars => IInv'
    <2> SUFFICES ASSUME IInv, [Next]_vars PROVE IInv'
      OBVIOUS
    <2>1. CASE Break
      BY <2>1 DEF Break, IInv, TypeOK, Scanned, Resolved
    <2>2. CASE \E n \in delivered + 1..Len(stream.bytes) : Read(n)
      BY <2>2, ReadStep
    <2>3. CASE UNCHANGED vars
      BY <2>3 DEF vars, IInv, TypeOK, Scanned, Resolved, LastByte, HasMarker
    <2> QED
      BY <2>1, <2>2, <2>3 DEF Next
  <1> QED
    BY <1>1, <1>2, PTL DEF Spec

\* Every variable keeps its type.
THEOREM TypeCorrect == Spec => []TypeOK
  <1>1. IInv => TypeOK
    BY DEF IInv
  <1> QED
    BY <1>1, Invariance, PTL

\* readUntilHeaderEnd waits as long as there is no end of a header, and resolves
\* with nothing else, for every stream and however it is cut.
THEOREM HeaderIsFound == Spec => []HeaderFound
  <1>1. IInv => HeaderFound
    BY DEF IInv, Scanned, Resolved, HeaderFound
  <1> QED
    BY <1>1, Invariance, PTL

-----------------------------------------------------------------------------
(* The verdict.                                                            *)

\* The bytes that connectViaSocks5 looks at are those of the replies.
LEMMA Socks5Verdict ==
    ASSUME TypeOK, stream.kind # "http", Len(stream.bytes) >= Expected
    PROVE  Socks5Granted(stream.kind, stream.bytes) <=> stream.granted
  <1>1. CASE stream.kind = "socks5"
    <2>1. stream.granted = Agrees(stream.bytes, 2, 0, 0)
      BY <1>1, RepliesAssumption DEF TypeOK
    <2>2. Agrees(stream.bytes, 2, 0, 0) <=>
              stream.bytes[2] = 0 /\ stream.bytes[4] = 0
      BY DEF Agrees
    <2>3. Socks5Granted(stream.kind, stream.bytes) <=>
              stream.bytes[2] = 0 /\ stream.bytes[4] = 0
      BY <1>1 DEF Socks5Granted, Negotiated, ConnectOffset
    <2> QED
      BY <2>1, <2>2, <2>3
  <1>2. CASE stream.kind = "socks5auth"
    <2>1. CASE /\ stream.bytes[1] = 5
               /\ stream.granted = Agrees(stream.bytes, 2, 2, 2)
      <3>1. Agrees(stream.bytes, 2, 2, 2) <=>
                /\ stream.bytes[2] = 2 /\ stream.bytes[4] = 0
                /\ stream.bytes[6] = 0
        BY DEF Agrees
      <3>2. Socks5Granted(stream.kind, stream.bytes) <=>
                /\ stream.bytes[2] = 2 /\ stream.bytes[4] = 0
                /\ stream.bytes[6] = 0
        BY <1>2, <2>1 DEF Socks5Granted, Negotiated, ConnectOffset
      <3> QED
        BY <2>1, <3>1, <3>2
    <2>2. CASE /\ stream.bytes[1] = 1
               /\ stream.granted = Agrees(stream.bytes, 0, 2, 2)
      <3>1. Agrees(stream.bytes, 0, 2, 2) <=>
                stream.bytes[2] = 0 /\ stream.bytes[4] = 0
        BY DEF Agrees
      <3>2. Socks5Granted(stream.kind, stream.bytes) <=>
                stream.bytes[2] = 0 /\ stream.bytes[4] = 0
        BY <1>2, <2>2 DEF Socks5Granted, Negotiated, ConnectOffset
      <3> QED
        BY <2>2, <3>1, <3>2
    <2>3. CASE stream.bytes[1] \notin {1, 5} /\ ~stream.granted
      BY <1>2, <2>3 DEF Socks5Granted, Negotiated
    <2> QED
      BY <1>2, <2>1, <2>2, <2>3, RepliesAssumption DEF TypeOK
  <1> QED
    BY <1>1, <1>2, StreamType DEF Kinds

LEMMA VerdictOfRead ==
    ASSUME IInv, NEW n \in delivered + 1..Len(stream.bytes), Read(n)
    PROVE  VerdictIsTheRelays'
  <1>1. stream' = stream /\ n <= Len(stream.bytes) /\ n >= 1
    BY StreamType DEF IInv, TypeOK, Read
  <1>2. CASE ReadSocks5(n)
    <2>1. /\ stream.kind # "http"
          /\ \/ state' = "waiting"
             \/ /\ n >= Expected
                /\ state' = IF Socks5Granted(stream.kind, stream.bytes)
                              THEN "granted" ELSE "refused"
      BY <1>2, StreamType DEF ReadSocks5, IInv, TypeOK, Expected
    <2>2. CASE state' = "waiting"
      BY <2>2 DEF VerdictIsTheRelays
    <2>3. CASE n >= Expected
      <3>1. Len(stream.bytes) >= Expected
        BY <1>1, <2>3, StreamType DEF IInv, TypeOK, Expected
      <3>2. Socks5Granted(stream.kind, stream.bytes) <=> stream.granted
        BY <2>1, <3>1, Socks5Verdict DEF IInv
      <3> QED
        BY <1>1, <2>1, <3>2 DEF VerdictIsTheRelays
    <2> QED
      BY <2>1, <2>2, <2>3
  <1>3. CASE ReadHeader(n)
    <2>1. stream.kind = "http"
      BY <1>3 DEF ReadHeader
    <2>2. \/ state' \in {"broken", "waiting"}
          \/ state' = IF stream.bytes[1] = OK THEN "granted" ELSE "refused"
      BY <1>3 DEF ReadHeader
    <2>3. stream.granted = (stream.bytes[1] = OK)
      <3>1. stream.bytes # <<>>
        BY <1>1, StreamType DEF IInv, TypeOK
      <3> QED
        BY <2>1, <3>1, RepliesAssumption DEF IInv, TypeOK
    <2> QED
      BY <1>1, <2>2, <2>3 DEF VerdictIsTheRelays
  <1> QED
    BY <1>2, <1>3 DEF Read

\* However its answer is cut and whichever reply it leaves out, no relay that
\* refused is handed out and none that granted is blamed (connectViaRelay).
THEOREM RelayIsTakenAtItsWord == Spec => []VerdictIsTheRelays
  <1>1. Init => VerdictIsTheRelays
    BY DEF Init, VerdictIsTheRelays
  <1>2. IInv /\ VerdictIsTheRelays /\ [Next]_vars => VerdictIsTheRelays'
    <2> SUFFICES ASSUME IInv, VerdictIsTheRelays, [Next]_vars
                 PROVE  VerdictIsTheRelays'
      OBVIOUS
    <2>1. CASE \E n \in delivered + 1..Len(stream.bytes) : Read(n)
      BY <2>1, VerdictOfRead
    <2>2. CASE Break \/ UNCHANGED vars
      BY <2>2 DEF Break, vars, VerdictIsTheRelays
    <2> QED
      BY <2>1, <2>2 DEF Next
  <1> QED
    BY <1>1, <1>2, Invariance, PTL DEF Spec

=============================================================================
