-------------------------- MODULE MCRelayHandshake --------------------------
(* SOCKS5 answers of real length, put together from their frames, and every *)
(* HTTP answer of a status line and up to six bytes.                       *)
EXTENDS RelayHandshake, SequencesExt

\* The reply to a connect request: the status, and an address of four bytes
\* (type 1) or of sixteen (type 4), as the relay is bound to.
Connect(status, type) ==
    <<5, status, 0, type>> \o [i \in 1..(IF type = 1 THEN 6 ELSE 18) |-> 9]

Answer(kind, method, auth, connect, granted) ==
    [kind |-> kind, bytes |-> method \o auth \o connect \o <<7, 7>>,
     reply |-> Len(method \o auth \o connect), granted |-> granted]

\* Each frame may refuse, and two bytes of the destination follow the last. A
\* relay that refuses a method or credentials may go on all the same.
Plain == {Answer("socks5", <<5, m>>, <<>>, Connect(c, t), m = 0 /\ c = 0) :
              m \in {0, 255}, c \in {0, 5}, t \in {1, 4}}
WithAuth == {Answer("socks5auth", <<5, m>>, <<1, a>>, Connect(c, t),
                    m = 2 /\ a = 0 /\ c = 0) :
                 m \in {2, 255}, a \in {0, 1}, c \in {0, 5}, t \in {1, 4}}
Tor == {Answer("socks5auth", <<>>, <<1, a>>, Connect(c, 1), a = 0 /\ c = 0) :
            a \in {0, 1}, c \in {0, 5}}
Neither == {Answer("socks5auth", <<>>, <<4, 0>>, Connect(0, 1), FALSE)}

\* Where the first marker ends; beyond the last byte when there is none.
HeaderEnd(bytes) ==
    LET ends == {i + 3 : i \in {j \in 1..Len(bytes) - 3 : MarkerAt(bytes, j)}}
    IN  IF ends = {} THEN Len(bytes) + 1
        ELSE CHOOSE e \in ends : \A f \in ends : e <= f

Headers == {[kind |-> "http", bytes |-> <<status>> \o rest,
             reply |-> HeaderEnd(<<status>> \o rest),
             granted |-> status = OK] :
                status \in {200, 407},
                rest \in UNION {[1..k -> {CR, LF, 120}] : k \in 0..6}}

MCStreams == Plain \cup WithAuth \cup Tor \cup Neither \cup Headers
=============================================================================
