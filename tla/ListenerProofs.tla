--------------------------- MODULE ListenerProofs ---------------------------
(***************************************************************************)
(* For any clients and conversations, and every cut of what they send:     *)
(* what the SOCKS5 listener counts, and whom it asks the relays for; and   *)
(* what an exit with code 0 says of the process that opens the listeners.  *)
(*                                                                         *)
(* That the target is right rests on where each read begins in the stream. *)
(* The greeting ends where its methods do, since the client then waits. A  *)
(* read of an address begins where it should or later, and if later the    *)
(* port is short of bytes: the request ends with it.                       *)
(***************************************************************************)
EXTENDS Socks5Server, Lifecycle, FiniteSetTheorems, SequenceTheorems, TLAPS

Greeting(c) == talk[c].greeting
Request(c) == talk[c].request

\* How far into the stream the request begins.
Base(c) == Len(Greeting(c))

\* The greeting is read before any byte of the request is sent.
GreetingRead(c) ==
    /\ phase[c] = "greeting" => count[c] = 2 /\ begun[c] = 0
    /\ phase[c] = "methods" =>
           /\ Greeting(c)[1] = 5
           /\ count[c] = Greeting(c)[2]
           /\ begun[c] >= 2
    /\ phase[c] \in {"greeting", "methods"} =>
           answer[c] = "none" /\ sent[c] <= Base(c)

\* The request is one to connect, of this type of address.
Connects(c, type) ==
    /\ Greeting(c)[1] = 5
    /\ Request(c)[1] = 5 /\ Request(c)[2] = 1 /\ Request(c)[4] = type

\* Nothing was lost, or no byte of the domain can be taken for its length.
Sure(c) == overread[c] => Unmistakable(Request(c))

\* What the reads of the address know of where they are. Each begins where the
\* last ended or later. A byte that is taken for the length is that, or a byte of
\* the domain and no less, or one with too little of the request after it.
AddressRead(c) ==
    /\ phase[c] = "header" =>
           Greeting(c)[1] = 5 /\ count[c] = 4 /\ begun[c] = Base(c)
    /\ phase[c] = "ipv4" =>
           Connects(c, 1) /\ count[c] = 4 /\ begun[c] >= Base(c) + 4
    /\ phase[c] = "ipv6" =>
           Connects(c, 4) /\ count[c] = 16 /\ begun[c] >= Base(c) + 4
    /\ phase[c] = "length" =>
           /\ Connects(c, 3) /\ count[c] = 1 /\ begun[c] >= Base(c) + 4
           /\ ~overread[c] => begun[c] = Base(c) + 4
    /\ phase[c] = "domain" =>
           /\ Connects(c, 3) /\ Request(c)[5] \in Nat
           /\ begun[c] >= Base(c) + 5
           /\ Sure(c) => \/ count[c] >= Request(c)[5]
                         \/ begun[c] >= Base(c) + 6 + Request(c)[5]

\* The host that was read, before the port is: the one asked for, when the read
\* of it has ended where it should.
HostRead(c) ==
    phase[c] = "port" =>
        /\ count[c] = 2
        /\ \/ /\ Connects(c, 1)
              /\ begun[c] >= Base(c) + 8
              /\ begun[c] = Base(c) + 8 =>
                     target[c].host = SubSeq(Request(c), 5, 8)
           \/ /\ Connects(c, 4)
              /\ begun[c] >= Base(c) + 20
              /\ begun[c] = Base(c) + 20 =>
                     target[c].host = SubSeq(Request(c), 5, 20)
           \/ /\ Connects(c, 3) /\ Request(c)[5] \in Nat
              /\ Sure(c) =>
                     /\ begun[c] >= Base(c) + 5 + Request(c)[5]
                     /\ begun[c] = Base(c) + 5 + Request(c)[5] =>
                            target[c].host =
                                SubSeq(Request(c), 6, 5 + Request(c)[5])

TargetRead(c) ==
    phase[c] \in {"connecting", "tunnel", "empty"} /\ Sure(c)
    => target[c] = Requested(Request(c))

Parsed(c) ==
    GreetingRead(c) /\ AddressRead(c) /\ HostRead(c) /\ TargetRead(c)

IInv ==
    /\ TypeOK
    /\ ActiveConnectionsCounted
    /\ \A c \in Clients : Parsed(c)

-----------------------------------------------------------------------------
(* Streams and their bytes.                                                *)

\* Byte i of the request is byte b + i of the stream, after b of the greeting.
LEMMA Behind ==
    ASSUME NEW b \in Nat, NEW n \in Nat, NEW i \in 1..n
    PROVE  /\ b + i \in 1..b + n
           /\ b + i \in b + 1..b + n
           /\ ~(b + i <= b)
           /\ (b + i) - b = i
  OBVIOUS

LEMMA TalkType ==
    ASSUME TypeOK, NEW c \in Clients
    PROVE  /\ talk[c] \in Conversations[c]
           /\ Greeting(c) \in Seq(Nat) /\ Base(c) \in Nat
           /\ Request(c) \in Seq(Nat) /\ Len(Request(c)) \in Nat
           /\ Stream(c) \in Seq(Nat)
           /\ Len(Stream(c)) = Base(c) + Len(Request(c))
           /\ \A i \in 1..Base(c) : Stream(c)[i] = Greeting(c)[i]
           /\ \A i \in 1..Len(Request(c)) :
                  Stream(c)[Base(c) + i] = Request(c)[i]
  <1>1. talk[c] \in Conversations[c]
    BY DEF TypeOK
  <1>2. talk[c] \in [greeting : Seq(Nat), request : Seq(Nat)]
    BY <1>1, ConversationsAssumption
  <1>3. Greeting(c) \in Seq(Nat) /\ Request(c) \in Seq(Nat)
    BY <1>2 DEF Greeting, Request
  <1>4. Base(c) \in Nat /\ Len(Request(c)) \in Nat
    BY <1>3, LenProperties DEF Base
  <1>5. Stream(c) = Greeting(c) \o Request(c)
    BY DEF Stream, Greeting, Request
  <1>6. /\ Stream(c) \in Seq(Nat)
        /\ Len(Stream(c)) = Base(c) + Len(Request(c))
        /\ \A i \in 1..Base(c) + Len(Request(c)) :
               Stream(c)[i] = IF i <= Base(c) THEN Greeting(c)[i]
                                              ELSE Request(c)[i - Base(c)]
    BY <1>3, <1>5, ConcatProperties DEF Base
  <1>7. ASSUME NEW i \in 1..Len(Request(c))
        PROVE  Stream(c)[Base(c) + i] = Request(c)[i]
    <2>1. /\ Base(c) + i \in 1..Base(c) + Len(Request(c))
          /\ ~(Base(c) + i <= Base(c)) /\ (Base(c) + i) - Base(c) = i
      BY <1>4, <1>7, Behind
    <2>2. Stream(c)[Base(c) + i] =
              IF Base(c) + i <= Base(c) THEN Greeting(c)[Base(c) + i]
                                        ELSE Request(c)[(Base(c) + i) - Base(c)]
      BY <1>6, <2>1
    <2> QED
      BY <2>1, <2>2
  <1>8. ASSUME NEW i \in 1..Base(c)
        PROVE  Stream(c)[i] = Greeting(c)[i]
    BY <1>4, <1>6
  <1> QED
    BY <1>1, <1>3, <1>4, <1>6, <1>7, <1>8

LEMMA Slice ==
    ASSUME NEW s \in Seq(Nat), NEW m \in Nat, NEW n \in Nat,
           m <= n, n <= Len(s)
    PROVE  /\ SubSeq(s, m + 1, n) \in Seq(Nat)
           /\ Len(SubSeq(s, m + 1, n)) = n - m
           /\ \A i \in 1..n - m :
                  /\ SubSeq(s, m + 1, n)[i] = s[m + i]
                  /\ SubSeq(s, m + 1, n)[i] \in Nat
  <1>1. \A i \in m + 1..n : s[i] \in Nat
    BY ElementOfSeq, LenProperties
  <1>2. /\ SubSeq(s, m + 1, n) \in Seq(Nat)
        /\ Len(SubSeq(s, m + 1, n)) = IF m + 1 <= n THEN n - (m + 1) + 1 ELSE 0
        /\ \A i \in 1..n - (m + 1) + 1 :
               SubSeq(s, m + 1, n)[i] = s[m + 1 + i - 1]
    BY <1>1, SubSeqProperties
  <1>3. ASSUME NEW i \in 1..n - m
        PROVE  SubSeq(s, m + 1, n)[i] = s[m + i] /\ s[m + i] \in Nat
    <2>1. i \in 1..n - (m + 1) + 1 /\ m + 1 + i - 1 = m + i /\ m + i \in m + 1..n
      OBVIOUS
    <2> QED
      BY <1>1, <1>2, <2>1
  <1> QED
    BY <1>2, <1>3

LEMMA OfRequest ==
    ASSUME TypeOK, NEW c \in Clients,
           NEW i \in 1..Len(Request(c)), NEW j \in i..Len(Request(c))
    PROVE  SubSeq(Stream(c), Base(c) + i, Base(c) + j) = SubSeq(Request(c), i, j)
  <1>1. Stream(c) = Greeting(c) \o Request(c)
    BY DEF Stream, Greeting, Request
  <1>2. /\ Base(c) \in Nat /\ Len(Request(c)) \in Nat
        /\ Greeting(c) \in Seq(Nat) /\ Request(c) \in Seq(Nat)
    BY TalkType
  <1>3. j \in 1..Len(Request(c))
    BY <1>2
  <1>4. /\ Base(c) + i \in Base(c) + 1..Base(c) + Len(Request(c))
        /\ (Base(c) + i) - Base(c) = i
    BY <1>2, Behind
  <1>5. /\ Base(c) + j \in Base(c) + 1..Base(c) + Len(Request(c))
        /\ (Base(c) + j) - Base(c) = j
    BY <1>2, <1>3, Behind
  <1>6. SubSeq(Greeting(c) \o Request(c), Base(c) + i, Base(c) + j)
            = SubSeq(Request(c), (Base(c) + i) - Base(c), (Base(c) + j) - Base(c))
    BY <1>2, <1>4, <1>5, SubSeqOfConcat2 DEF Base
  <1> QED
    BY <1>1, <1>4, <1>5, <1>6

-----------------------------------------------------------------------------
(* A read resolves.                                                        *)

\* What a step writes of the types, those of the stream and of the sockets apart.
ParseTypes ==
    /\ phase \in [Clients -> Phases]
    /\ count \in [Clients -> Nat]
    /\ target \in [Clients -> [host : Seq(Nat), port : Seq(Nat)]]
    /\ answer \in [Clients -> Answers]

\* The chunk that ends with byte arrived is enough for the read of c.
Took(c, arrived) ==
    /\ arrived \in (delivered[c] + 1)..sent[c]
    /\ arrived - begun[c] >= count[c]
    /\ begun' = [begun EXCEPT ![c] = arrived]
    /\ overread' = [overread EXCEPT ![c] = @ \/ arrived - begun[c] > count[c]]
    /\ UNCHANGED <<talk, sent>>

Got(c, arrived) == SubSeq(Stream(c), begun[c] + 1, arrived)

LEMMA TookType ==
    ASSUME IInv, NEW c \in Clients, NEW arrived, Took(c, arrived)
    PROVE  /\ arrived \in Nat /\ begun[c] \in Nat /\ begun[c] < arrived
           /\ arrived <= sent[c] /\ sent[c] <= Base(c) + Len(Request(c))
           /\ sent[c] \in Nat /\ count[c] \in Nat
           /\ arrived - begun[c] >= count[c]
           /\ begun'[c] = arrived
           /\ overread'[c] <=> overread[c] \/ arrived - begun[c] > count[c]
           /\ Got(c, arrived) \in Seq(Nat)
           /\ Len(Got(c, arrived)) = arrived - begun[c]
           /\ \A i \in 1..arrived - begun[c] :
                  /\ Got(c, arrived)[i] = Stream(c)[begun[c] + i]
                  /\ Got(c, arrived)[i] \in Nat
           /\ Greeting(c)' = Greeting(c) /\ Request(c)' = Request(c)
           /\ Base(c)' = Base(c)
  <1>1. /\ begun[c] \in Nat /\ delivered[c] \in Nat /\ sent[c] \in Nat
        /\ count[c] \in Nat /\ begun[c] <= delivered[c]
        /\ sent[c] <= Len(Stream(c))
    BY DEF IInv, TypeOK
  <1>2. Stream(c) \in Seq(Nat) /\ Len(Stream(c)) = Base(c) + Len(Request(c))
    BY TalkType DEF IInv
  <1>3. arrived \in Nat /\ begun[c] < arrived /\ arrived <= sent[c]
    BY <1>1 DEF Took
  <1>4. arrived <= Len(Stream(c))
    BY <1>1, <1>2, <1>3, LenProperties
  <1>5. /\ Got(c, arrived) \in Seq(Nat)
        /\ Len(Got(c, arrived)) = arrived - begun[c]
        /\ \A i \in 1..arrived - begun[c] :
               /\ Got(c, arrived)[i] = Stream(c)[begun[c] + i]
               /\ Got(c, arrived)[i] \in Nat
    <2>1. begun[c] <= arrived
      BY <1>1, <1>3
    <2> QED
      BY <1>1, <1>2, <1>3, <1>4, <2>1, Slice DEF Got
  <1>6. /\ begun'[c] = arrived
        /\ overread'[c] <=> overread[c] \/ arrived - begun[c] > count[c]
    BY DEF Took, IInv, TypeOK
  <1>7. /\ Greeting(c)' = Greeting(c) /\ Request(c)' = Request(c)
        /\ Base(c)' = Base(c)
    BY DEF Took, Greeting, Request, Base
  <1>8. arrived - begun[c] >= count[c]
    BY DEF Took
  <1> QED
    BY <1>1, <1>2, <1>3, <1>5, <1>6, <1>7, <1>8

\* A phase nothing is known of.
LEMMA ClosedIsParsed ==
    ASSUME NEW c \in Clients, phase[c] \in {"idle", "closed"}
    PROVE  Parsed(c)
  BY DEF Parsed, GreetingRead, AddressRead, HostRead, TargetRead

LEMMA ReadGreetingStep ==
    ASSUME IInv, NEW c \in Clients, NEW arrived, Took(c, arrived),
           ReadGreeting(c, Got(c, arrived))
    PROVE  ParseTypes' /\ Parsed(c)'
  <1> DEFINE got == Got(c, arrived)
  <1>1. /\ phase[c] = "greeting" /\ count[c] = 2 /\ begun[c] = 0
        /\ answer[c] = "none" /\ sent[c] <= Base(c)
    BY DEF ReadGreeting, IInv, Parsed, GreetingRead
  <1>2. /\ arrived \in Nat /\ arrived >= 2 /\ begun'[c] = arrived
        /\ got[1] = Stream(c)[1] /\ got[2] = Stream(c)[2] /\ got[2] \in Nat
    BY <1>1, TookType
  <1>3. got[1] = Greeting(c)[1] /\ got[2] = Greeting(c)[2]
    <2>1. arrived <= Base(c) /\ Base(c) \in Nat
      BY <1>1, TookType, TalkType DEF IInv
    <2>2. 1 \in 1..Base(c) /\ 2 \in 1..Base(c)
      BY <1>2, <2>1
    <2> QED
      BY <1>2, <2>2, TalkType DEF IInv
  <1>4. CASE got[1] # 5
    <2>1. /\ phase' = [phase EXCEPT ![c] = "closed"]
          /\ UNCHANGED <<count, target, answer>>
      BY <1>4 DEF ReadGreeting, Refuse, parseVars
    <2>2. ParseTypes'
      BY <2>1 DEF IInv, TypeOK, ParseTypes, Phases
    <2>3. phase'[c] = "closed"
      BY <2>1 DEF IInv, TypeOK
    <2> QED
      BY <2>2, <2>3 DEF Parsed, GreetingRead, AddressRead, HostRead, TargetRead
  <1>5. CASE got[1] = 5
    <2>1. /\ phase' = [phase EXCEPT ![c] = "methods"]
          /\ count' = [count EXCEPT ![c] = got[2]]
          /\ UNCHANGED <<target, answer>>
      BY <1>5 DEF ReadGreeting, Await
    <2>2. ParseTypes'
      BY <1>2, <2>1 DEF IInv, TypeOK, ParseTypes, Phases, Reads
    <2>3. /\ phase'[c] = "methods" /\ count'[c] = Greeting(c)[2]
          /\ answer'[c] = "none" /\ sent'[c] = sent[c]
      BY <1>1, <1>3, <2>1 DEF IInv, TypeOK, Took
    <2>4. Parsed(c)'
      BY <1>1, <1>2, <1>3, <1>5, <2>3, TookType
         DEF Parsed, GreetingRead, AddressRead, HostRead, TargetRead
    <2> QED
      BY <2>2, <2>4
  <1> QED
    BY <1>4, <1>5

\* The methods end where the greeting does, as the client sends no more until it
\* is answered.
LEMMA ReadMethodsStep ==
    ASSUME IInv, NEW c \in Clients, NEW arrived, Took(c, arrived), ReadMethods(c)
    PROVE  ParseTypes' /\ Parsed(c)'
  <1>1. /\ phase[c] = "methods" /\ Greeting(c)[1] = 5
        /\ count[c] = Greeting(c)[2] /\ begun[c] >= 2 /\ sent[c] <= Base(c)
    BY DEF ReadMethods, IInv, Parsed, GreetingRead
  <1>2. Base(c) = 2 + Greeting(c)[2]
    <2>1. talk[c] \in Conversations[c]
      BY TalkType DEF IInv
    <2> QED
      BY <1>1, <2>1, WellFormedAssumption DEF Base, Greeting
  <1>3. begun'[c] = Base(c)
    <2>1. /\ arrived \in Nat /\ begun[c] \in Nat /\ begun'[c] = arrived
          /\ arrived - begun[c] >= count[c] /\ arrived <= sent[c]
          /\ sent[c] \in Nat /\ count[c] \in Nat /\ Base(c) \in Nat
      BY TookType, TalkType DEF IInv
    <2> QED
      BY <1>1, <1>2, <2>1
  <1>4. /\ phase' = [phase EXCEPT ![c] = "header"]
        /\ count' = [count EXCEPT ![c] = 4]
        /\ answer' = [answer EXCEPT ![c] = "method"]
        /\ target' = target
    BY DEF ReadMethods, Write, Await
  <1>5. ParseTypes'
    BY <1>4 DEF IInv, TypeOK, ParseTypes, Phases, Reads, Answers
  <1>6. phase'[c] = "header" /\ count'[c] = 4
    BY <1>4 DEF IInv, TypeOK
  <1>7. Parsed(c)'
    BY <1>1, <1>3, <1>6, TookType
       DEF Parsed, GreetingRead, AddressRead, HostRead, TargetRead
  <1> QED
    BY <1>5, <1>7

LEMMA ReadHeaderStep ==
    ASSUME IInv, NEW c \in Clients, NEW arrived, Took(c, arrived),
           ReadHeader(c, Got(c, arrived))
    PROVE  ParseTypes' /\ Parsed(c)'
  <1> DEFINE got == Got(c, arrived)
  <1>1. /\ phase[c] = "header" /\ Greeting(c)[1] = 5 /\ count[c] = 4
        /\ begun[c] = Base(c)
    BY DEF ReadHeader, IInv, Parsed, AddressRead
  <1>2. /\ arrived >= Base(c) + 4 /\ begun'[c] = arrived
        /\ overread'[c] <=> overread[c] \/ arrived > Base(c) + 4
    <2>1. /\ arrived \in Nat /\ Base(c) \in Nat /\ begun'[c] = arrived
          /\ arrived - begun[c] >= count[c]
          /\ overread'[c] <=> overread[c] \/ arrived - begun[c] > count[c]
      BY TookType, TalkType DEF IInv
    <2> QED
      BY <1>1, <2>1
  <1>3. got[1] = Request(c)[1] /\ got[2] = Request(c)[2] /\ got[4] = Request(c)[4]
    <2>1. /\ Base(c) \in Nat /\ Len(Request(c)) \in Nat
          /\ arrived \in Nat /\ sent[c] \in Nat /\ arrived <= sent[c]
          /\ sent[c] <= Base(c) + Len(Request(c))
      BY TookType, TalkType DEF IInv
    <2>2. Len(Request(c)) >= 4 /\ arrived - Base(c) >= 4
      BY <1>2, <2>1
    <2>3. \A i \in 1..arrived - begun[c] :
              got[i] = Stream(c)[begun[c] + i]
      BY TookType
    <2>4. \A i \in 1..4 : i \in 1..arrived - Base(c) /\ i \in 1..Len(Request(c))
      BY <2>1, <2>2
    <2>5. \A i \in 1..4 : got[i] = Stream(c)[Base(c) + i]
      BY <1>1, <2>3, <2>4
    <2>6. \A i \in 1..4 : Stream(c)[Base(c) + i] = Request(c)[i]
      BY <2>4, TalkType DEF IInv
    <2> QED
      BY <2>5, <2>6
  <1>4. ASSUME NEW what \in Answers, RefuseWith(c, what)
        PROVE  ParseTypes' /\ Parsed(c)'
    <2>1. /\ phase' = [phase EXCEPT ![c] = "closed"]
          /\ answer' = [answer EXCEPT ![c] = what]
          /\ UNCHANGED <<count, target>>
      BY <1>4 DEF RefuseWith, Refuse, Write, parseVars
    <2>2. ParseTypes' /\ phase'[c] = "closed"
      BY <2>1 DEF IInv, TypeOK, ParseTypes, Phases
    <2> QED
      BY <2>2 DEF Parsed, GreetingRead, AddressRead, HostRead, TargetRead
  <1>5. CASE got[1] # 5 \/ got[2] # 1
    BY <1>4, <1>5 DEF ReadHeader, Answers
  <1>6. CASE got[1] = 5 /\ got[2] = 1 /\ got[4] \notin {1, 3, 4}
    BY <1>4, <1>6 DEF ReadHeader, Answers
  <1>7. ASSUME NEW read \in {"ipv4", "length", "ipv6"}, NEW n \in Nat,
               ReadAddressOf(c, read, n)
        PROVE  /\ ParseTypes'
               /\ phase'[c] = read /\ count'[c] = n
    <2>1. /\ phase' = [phase EXCEPT ![c] = read]
          /\ count' = [count EXCEPT ![c] = n]
          /\ UNCHANGED <<target, answer>>
      BY <1>7 DEF ReadAddressOf, Await
    <2> QED
      BY <2>1 DEF IInv, TypeOK, ParseTypes, Phases, Reads
  <1>8. ASSUME got[1] = 5, got[2] = 1, got[4] = 1, ReadAddressOf(c, "ipv4", 4)
        PROVE  ParseTypes' /\ Parsed(c)'
    <2>1. ParseTypes' /\ phase'[c] = "ipv4" /\ count'[c] = 4
      BY <1>7, <1>8
    <2> QED
      BY <1>1, <1>2, <1>3, <1>8, <2>1, TookType
         DEF Parsed, GreetingRead, AddressRead, HostRead, TargetRead, Connects
  <1>9. ASSUME got[1] = 5, got[2] = 1, got[4] = 3, ReadAddressOf(c, "length", 1)
        PROVE  ParseTypes' /\ Parsed(c)'
    <2>1. ParseTypes' /\ phase'[c] = "length" /\ count'[c] = 1
      BY <1>7, <1>9
    <2>2. /\ begun'[c] >= Base(c) + 4
          /\ ~overread'[c] => begun'[c] = Base(c) + 4
      BY <1>2, TookType, TalkType DEF IInv
    <2> QED
      BY <1>1, <1>3, <1>9, <2>1, <2>2, TookType
         DEF Parsed, GreetingRead, AddressRead, HostRead, TargetRead, Connects
  <1>10. ASSUME got[1] = 5, got[2] = 1, got[4] = 4, ReadAddressOf(c, "ipv6", 16)
         PROVE  ParseTypes' /\ Parsed(c)'
    <2>1. ParseTypes' /\ phase'[c] = "ipv6" /\ count'[c] = 16
      BY <1>7, <1>10
    <2> QED
      BY <1>1, <1>2, <1>3, <1>10, <2>1, TookType
         DEF Parsed, GreetingRead, AddressRead, HostRead, TargetRead, Connects
  <1> QED
    BY <1>5, <1>6, <1>8, <1>9, <1>10 DEF ReadHeader

\* What a read has got between two places of the request.
LEMMA GotOfRequest ==
    ASSUME IInv, NEW c \in Clients, NEW arrived, Took(c, arrived),
           NEW i \in Nat, NEW j \in Nat,
           begun[c] = Base(c) + i, arrived = Base(c) + j
    PROVE  Got(c, arrived) = SubSeq(Request(c), i + 1, j)
  <1>1. /\ Base(c) \in Nat /\ Len(Request(c)) \in Nat
        /\ begun[c] < arrived /\ arrived <= sent[c] /\ sent[c] \in Nat
        /\ sent[c] <= Base(c) + Len(Request(c))
    BY TookType, TalkType DEF IInv
  <1>2. /\ i + 1 \in 1..Len(Request(c)) /\ j \in i + 1..Len(Request(c))
        /\ Base(c) + i + 1 = Base(c) + (i + 1)
    BY <1>1
  <1>3. SubSeq(Stream(c), Base(c) + (i + 1), Base(c) + j)
            = SubSeq(Request(c), i + 1, j)
    BY <1>2, OfRequest DEF IInv
  <1> QED
    BY <1>2, <1>3 DEF Got

LEMMA ReadLengthStep ==
    ASSUME IInv, NEW c \in Clients, NEW arrived, Took(c, arrived),
           ReadLength(c, Got(c, arrived))
    PROVE  ParseTypes' /\ Parsed(c)'
  <1> DEFINE got == Got(c, arrived)
  <1>1. /\ phase[c] = "length" /\ Connects(c, 3) /\ count[c] = 1
        /\ begun[c] >= Base(c) + 4
        /\ ~overread[c] => begun[c] = Base(c) + 4
    BY DEF ReadLength, IInv, Parsed, AddressRead
  <1>2. /\ Base(c) \in Nat /\ Len(Request(c)) \in Nat /\ sent[c] \in Nat
        /\ arrived \in Nat /\ begun[c] \in Nat /\ begun[c] < arrived
        /\ arrived <= sent[c] /\ sent[c] <= Base(c) + Len(Request(c))
        /\ begun'[c] = arrived /\ got[1] \in Nat
        /\ got[1] = Stream(c)[begun[c] + 1]
        /\ overread'[c] <=> overread[c] \/ arrived - begun[c] > 1
    <2>1. /\ Base(c) \in Nat /\ Len(Request(c)) \in Nat /\ sent[c] \in Nat
          /\ arrived \in Nat /\ begun[c] \in Nat /\ begun[c] < arrived
          /\ arrived <= sent[c] /\ sent[c] <= Base(c) + Len(Request(c))
          /\ begun'[c] = arrived
          /\ \A i \in 1..arrived - begun[c] :
                 got[i] = Stream(c)[begun[c] + i] /\ got[i] \in Nat
          /\ overread'[c] <=> overread[c] \/ arrived - begun[c] > count[c]
      BY TookType, TalkType DEF IInv
    <2>2. 1 \in 1..arrived - begun[c]
      BY <2>1
    <2> QED
      BY <1>1, <2>1, <2>2
  <1>3. /\ phase' = [phase EXCEPT ![c] = "domain"]
        /\ count' = [count EXCEPT ![c] = got[1]]
        /\ UNCHANGED <<target, answer>>
    BY DEF ReadLength, ReadAddressOf, Await
  <1>4. ParseTypes' /\ phase'[c] = "domain" /\ count'[c] = got[1]
    BY <1>2, <1>3 DEF IInv, TypeOK, ParseTypes, Phases, Reads
  <1>5. talk[c] \in Conversations[c]
    BY TalkType DEF IInv
  <1> HIDE DEF got
  <1> DEFINE length == Request(c)[5]
  <1>6. /\ 5 \in 1..Len(Request(c)) /\ length \in Nat
        /\ Len(Request(c)) = 7 + length
    <2>1. 5 \in 1..Len(Request(c))
      BY <1>1, <1>2
    <2>2. length \in Nat
      BY <2>1, TalkType, ElementOfSeq DEF IInv
    <2>3. Len(Request(c)) = 7 + length
      BY <1>1, <1>5, WellFormedAssumption DEF Connects, Greeting, Request
    <2> QED
      BY <2>1, <2>2, <2>3
  <1> HIDE DEF length
  <1>7. begun'[c] >= Base(c) + 5
    BY <1>1, <1>2
  <1>8. ASSUME overread'[c] => Unmistakable(Request(c))
        PROVE  count'[c] >= length \/ begun'[c] >= Base(c) + 6 + length
    <2>1. PICK p \in Nat : p >= 5 /\ begun[c] + 1 = Base(c) + p
      <3> DEFINE q == begun[c] + 1 - Base(c)
      <3>1. q \in Nat /\ q >= 5 /\ begun[c] + 1 = Base(c) + q
        <4>1. begun[c] \in Nat /\ Base(c) \in Nat /\ begun[c] >= Base(c) + 4
          BY <1>1, <1>2
        <4> QED
          BY <4>1
      <3> HIDE DEF q
      <3> QED
        BY <3>1
    <2>2. /\ p \in 1..Len(Request(c)) /\ got[1] = Request(c)[p]
          /\ begun'[c] >= Base(c) + p
      <3>1. p \in 1..Len(Request(c)) /\ begun'[c] >= Base(c) + p
        BY <1>2, <2>1
      <3>2. Stream(c)[Base(c) + p] = Request(c)[p]
        BY <3>1, TalkType DEF IInv
      <3> QED
        BY <1>2, <2>1, <3>1, <3>2
    <2>3. CASE p = 5
      BY <1>4, <1>6, <2>2, <2>3 DEF length
    <2>4. CASE p >= 6 + length
      <3>1. Base(c) \in Nat /\ begun'[c] \in Nat
        BY <1>2
      <3> QED
        BY <1>6, <2>2, <2>4, <3>1
    <2>5. CASE p > 5 /\ p < 6 + length
      <3>1. p \in 6..Len(Request(c)) - 2
        BY <1>6, <2>5
      <3>2. overread'[c]
        <4>1. begun[c] # Base(c) + 4
          BY <1>2, <2>1, <2>5
        <4> QED
          BY <1>1, <1>2, <4>1
      <3>3. Request(c)[4] = 3
        BY <1>1 DEF Connects
      <3>4. Request(c)[p] >= length
        BY <1>8, <3>1, <3>2, <3>3 DEF Unmistakable, length
      <3> QED
        BY <1>4, <2>2, <3>4
    <2> QED
      BY <1>6, <2>1, <2>3, <2>4, <2>5
  <1>9. Sure(c)' => (overread'[c] => Unmistakable(Request(c)))
    BY TookType DEF Sure, Unmistakable
  <1>10. Connects(c, 3)'
    BY <1>1, TookType DEF Connects
  <1> QED
    BY <1>4, <1>6, <1>7, <1>8, <1>9, <1>10, TookType
       DEF Parsed, GreetingRead, AddressRead, HostRead, TargetRead, length

\* An address ends where its last byte does, or the read has lost some.
LEMMA ReadHostStep ==
    ASSUME IInv, NEW c \in Clients, NEW arrived, Took(c, arrived),
           ReadHost(c, Got(c, arrived))
    PROVE  ParseTypes' /\ Parsed(c)'
  <1> DEFINE got == Got(c, arrived)
             host == IF phase[c] = "ipv6" THEN SubSeq(got, 1, 16) ELSE got
  <1>1. /\ Base(c) \in Nat /\ Len(Request(c)) \in Nat /\ sent[c] \in Nat
        /\ count[c] \in Nat
        /\ arrived \in Nat /\ begun[c] \in Nat /\ begun[c] < arrived
        /\ arrived <= sent[c] /\ sent[c] <= Base(c) + Len(Request(c))
        /\ arrived - begun[c] >= count[c]
        /\ begun'[c] = arrived
        /\ got \in Seq(Nat) /\ Len(got) = arrived - begun[c]
        /\ overread'[c] <=> overread[c] \/ arrived - begun[c] > count[c]
    BY TookType, TalkType DEF IInv
  <1>2. phase[c] \in {"ipv4", "domain", "ipv6"}
    BY DEF ReadHost
  <1>3. host \in Seq(Nat)
    <2>1. CASE phase[c] = "ipv6"
      <3>1. count[c] = 16
        BY <2>1 DEF IInv, Parsed, AddressRead
      <3>2. \A i \in 1..16 : i \in 1..Len(got)
        <4>1. Len(got) \in Nat /\ Len(got) >= 16
          BY <1>1, <3>1
        <4> QED
          BY <4>1
      <3>3. \A i \in 1..16 : got[i] \in Nat
        BY <1>1, <3>2, ElementOfSeq
      <3>4. SubSeq(got, 1, 16) \in Seq(Nat)
        BY <3>3, SubSeqProperties
      <3> QED
        BY <2>1, <3>4
    <2> QED
      BY <1>1, <2>1
  <1>4. /\ phase' = [phase EXCEPT ![c] = "port"]
        /\ count' = [count EXCEPT ![c] = 2]
        /\ target' = [target EXCEPT ![c].host = host]
        /\ answer' = answer
    BY DEF ReadHost, Await
  <1> HIDE DEF host, got
  <1>5. /\ ParseTypes'
        /\ phase'[c] = "port" /\ count'[c] = 2 /\ target'[c].host = host
    <2>1. /\ phase' \in [Clients -> Phases] /\ phase'[c] = "port"
          /\ count' \in [Clients -> Nat] /\ count'[c] = 2
          /\ answer' \in [Clients -> Answers]
      BY <1>4 DEF IInv, TypeOK, Phases, Reads
    <2>2. /\ target' \in [Clients -> [host : Seq(Nat), port : Seq(Nat)]]
          /\ target'[c].host = host
      BY <1>3, <1>4 DEF IInv, TypeOK
    <2> QED
      BY <2>1, <2>2 DEF ParseTypes
  <1>6. CASE phase[c] = "ipv4"
    <2>1. Connects(c, 1) /\ count[c] = 4 /\ begun[c] >= Base(c) + 4
      BY <1>6 DEF IInv, Parsed, AddressRead
    <2>2. begun'[c] >= Base(c) + 8
      BY <1>1, <2>1
    <2>3. ASSUME begun'[c] = Base(c) + 8
          PROVE  host = SubSeq(Request(c), 5, 8)
      <3>1. begun[c] = Base(c) + 4 /\ arrived = Base(c) + 8
        <4>1. /\ Base(c) \in Nat /\ begun[c] \in Nat /\ arrived \in Nat
              /\ arrived = Base(c) + 8 /\ arrived - begun[c] >= 4
              /\ begun[c] >= Base(c) + 4
          BY <1>1, <2>1, <2>3
        <4> QED
          BY <4>1
      <3>2. got = SubSeq(Request(c), 4 + 1, 8)
        BY <3>1, GotOfRequest DEF got
      <3> QED
        BY <1>6, <3>2 DEF host
    <2>4. Connects(c, 1)'
      BY <2>1, TookType DEF Connects
    <2> QED
      BY <1>5, <2>2, <2>3, <2>4, TookType
         DEF Parsed, GreetingRead, AddressRead, HostRead, TargetRead
  <1>7. CASE phase[c] = "ipv6"
    <2>1. Connects(c, 4) /\ count[c] = 16 /\ begun[c] >= Base(c) + 4
      BY <1>7 DEF IInv, Parsed, AddressRead
    <2>2. begun'[c] >= Base(c) + 20
      BY <1>1, <2>1
    <2>3. ASSUME begun'[c] = Base(c) + 20
          PROVE  host = SubSeq(Request(c), 5, 20)
      <3>1. begun[c] = Base(c) + 4 /\ arrived = Base(c) + 20
        <4>1. /\ Base(c) \in Nat /\ begun[c] \in Nat /\ arrived \in Nat
              /\ arrived = Base(c) + 20 /\ arrived - begun[c] >= 16
              /\ begun[c] >= Base(c) + 4
          BY <1>1, <2>1, <2>3
        <4> QED
          BY <4>1
      <3>2. got = SubSeq(Request(c), 4 + 1, 20)
        BY <3>1, GotOfRequest DEF got
      <3>3. Len(got) = 16
        BY <1>1, <3>1
      <3>4. SubSeq(got, 1, 16) = got
        BY <1>1, <3>3, SubSeqFull
      <3> QED
        BY <1>7, <3>2, <3>4 DEF host
    <2>4. Connects(c, 4)'
      BY <2>1, TookType DEF Connects
    <2> QED
      BY <1>5, <2>2, <2>3, <2>4, TookType
         DEF Parsed, GreetingRead, AddressRead, HostRead, TargetRead
  <1>8. CASE phase[c] = "domain"
    <2> DEFINE length == Request(c)[5]
    <2>1. /\ Connects(c, 3) /\ length \in Nat /\ begun[c] >= Base(c) + 5
          /\ Sure(c) => \/ count[c] >= length
                        \/ begun[c] >= Base(c) + 6 + length
      BY <1>8 DEF IInv, Parsed, AddressRead
    <2> HIDE DEF length
    <2>2. ASSUME Sure(c)'
          PROVE  /\ begun'[c] >= Base(c) + 5 + length
                 /\ begun'[c] = Base(c) + 5 + length =>
                        host = SubSeq(Request(c), 6, 5 + length)
      <3>1. Sure(c)
        BY <1>1, <2>2, TookType DEF Sure, Unmistakable
      <3>2. count[c] >= length \/ begun[c] >= Base(c) + 6 + length
        BY <2>1, <3>1
      <3>3. begun'[c] >= Base(c) + 5 + length
        <4>1. /\ Base(c) \in Nat /\ length \in Nat /\ count[c] \in Nat
              /\ begun[c] \in Nat /\ begun'[c] \in Nat
              /\ begun[c] < begun'[c] /\ begun'[c] - begun[c] >= count[c]
              /\ begun[c] >= Base(c) + 5
          BY <1>1, <2>1
        <4> QED
          BY <3>2, <4>1
      <3>4. ASSUME begun'[c] = Base(c) + 5 + length
            PROVE  host = SubSeq(Request(c), 6, 5 + length)
        <4>1. /\ begun[c] = Base(c) + 5
              /\ arrived = Base(c) + (5 + length) /\ 5 + length \in Nat
          <5>1. /\ Base(c) \in Nat /\ count[c] \in Nat /\ arrived \in Nat
                /\ begun[c] \in Nat /\ begun[c] < arrived
                /\ arrived - begun[c] >= count[c]
                /\ arrived = Base(c) + 5 + length
                /\ length \in Nat /\ begun[c] >= Base(c) + 5
            BY <1>1, <2>1, <3>4
          <5> QED
            BY <3>2, <5>1
        <4>2. got = SubSeq(Request(c), 5 + 1, 5 + length)
          BY <4>1, GotOfRequest DEF got
        <4> QED
          BY <1>8, <4>2 DEF host
      <3> QED
        BY <3>3, <3>4
    <2>3. Connects(c, 3)'
      BY <2>1, TookType DEF Connects
    <2> QED
      BY <1>5, <2>1, <2>2, <2>3, TookType
         DEF Parsed, GreetingRead, AddressRead, HostRead, TargetRead, length
  <1> QED
    BY <1>2, <1>6, <1>7, <1>8

\* A port that begins where it should ends with the request.
LEMMA PortEnds ==
    ASSUME NEW b \in Nat, NEW from \in Nat, NEW to \in Nat, NEW s \in Nat,
           NEW n \in Nat, n >= 2, from >= b + (n - 2), to - from >= 2,
           to <= s, s <= b + n
    PROVE  from = b + (n - 2) /\ to = b + n
  OBVIOUS

LEMMA ReadPortStep ==
    ASSUME IInv, NEW c \in Clients, NEW arrived, Took(c, arrived),
           ReadPort(c, Got(c, arrived))
    PROVE  ParseTypes' /\ Parsed(c)'
  <1> DEFINE got == Got(c, arrived)
             port == SubSeq(got, 1, 2)
             n == Len(Request(c))
  <1>1. /\ Base(c) \in Nat /\ n \in Nat /\ sent[c] \in Nat
        /\ arrived \in Nat /\ begun[c] \in Nat /\ begun[c] < arrived
        /\ arrived <= sent[c] /\ sent[c] <= Base(c) + n
        /\ arrived - begun[c] >= 2
        /\ got \in Seq(Nat) /\ Len(got) = arrived - begun[c]
        /\ overread'[c] <=> overread[c] \/ arrived - begun[c] > 2
    <2>1. count[c] = 2
      BY DEF ReadPort, IInv, Parsed, HostRead
    <2> QED
      BY <2>1, TookType, TalkType DEF IInv
  <1>2. port \in Seq(Nat)
    <2>1. \A i \in 1..2 : i \in 1..Len(got)
      BY <1>1
    <2>2. \A i \in 1..2 : got[i] \in Nat
      BY <1>1, <2>1, ElementOfSeq
    <2> QED
      BY <2>2, SubSeqProperties
  <1>3. /\ phase' = [phase EXCEPT ![c] = "connecting"]
        /\ target' = [target EXCEPT ![c].port = port]
        /\ UNCHANGED <<count, answer>>
    BY DEF ReadPort
  <1> HIDE DEF port, got, n
  <1>4. /\ ParseTypes' /\ phase'[c] = "connecting"
        /\ target'[c] = [host |-> target[c].host, port |-> port]
    <2>1. /\ phase' \in [Clients -> Phases] /\ phase'[c] = "connecting"
          /\ count' \in [Clients -> Nat] /\ answer' \in [Clients -> Answers]
      BY <1>3 DEF IInv, TypeOK, Phases, Reads
    <2>2. /\ target' \in [Clients -> [host : Seq(Nat), port : Seq(Nat)]]
          /\ target'[c] = [host |-> target[c].host, port |-> port]
      BY <1>2, <1>3 DEF IInv, TypeOK
    <2> QED
      BY <2>1, <2>2 DEF ParseTypes
  <1>5. Greeting(c)' = Greeting(c) /\ Request(c)' = Request(c)
    BY TookType
  <1>6. talk[c] \in Conversations[c]
    BY TalkType DEF IInv
  <1>7. ASSUME n >= 2, begun[c] >= Base(c) + (n - 2),
               begun[c] = Base(c) + (n - 2) =>
                   target[c].host =
                       SubSeq(Request(c),
                              IF Request(c)[4] = 3 THEN 6 ELSE 5, n - 2)
        PROVE  target'[c] = Requested(Request(c))
    <2>1. begun[c] = Base(c) + (n - 2) /\ arrived = Base(c) + n
      <3>1. /\ Base(c) \in Nat /\ n \in Nat /\ sent[c] \in Nat
            /\ arrived \in Nat /\ begun[c] \in Nat
            /\ arrived <= sent[c] /\ sent[c] <= Base(c) + n
            /\ arrived - begun[c] >= 2
        BY <1>1
      <3>2. n >= 2 /\ begun[c] >= Base(c) + (n - 2)
        BY <1>7
      <3> QED
        BY <3>1, <3>2, PortEnds
    <2>2. n - 2 \in Nat /\ n - 2 + 1 = n - 1
      <3>1. n \in Nat
        BY <1>1
      <3> QED
        BY <1>7, <3>1
    <2>3. got = SubSeq(Request(c), n - 1, n)
      <3>1. got = SubSeq(Request(c), n - 2 + 1, n)
        BY <1>1, <2>1, <2>2, GotOfRequest DEF got
      <3> QED
        BY <2>2, <3>1
    <2>4. Len(got) = 2
      <3>1. /\ Base(c) \in Nat /\ n \in Nat /\ Len(got) = arrived - begun[c]
        BY <1>1
      <3> QED
        BY <2>1, <3>1
    <2>5. port = got
      BY <1>1, <2>4, SubSeqFull DEF port
    <2> QED
      BY <1>4, <1>7, <2>1, <2>3, <2>5 DEF Requested, n
  <1>8. ASSUME Connects(c, 1)
        PROVE  target'[c] = Requested(Request(c))
    <2>1. n = 10 /\ Request(c)[4] = 1
      BY <1>6, <1>8, WellFormedAssumption DEF Connects, Greeting, Request, n
    <2>2. /\ begun[c] >= Base(c) + 8
          /\ begun[c] = Base(c) + 8 => target[c].host = SubSeq(Request(c), 5, 8)
      BY <1>8 DEF ReadPort, IInv, Parsed, HostRead, Connects
    <2>3. n - 2 = 8 /\ n >= 2
      BY <2>1
    <2> QED
      BY <1>7, <2>1, <2>2, <2>3
  <1>9. ASSUME Connects(c, 4)
        PROVE  target'[c] = Requested(Request(c))
    <2>1. n = 22 /\ Request(c)[4] = 4
      BY <1>6, <1>9, WellFormedAssumption DEF Connects, Greeting, Request, n
    <2>2. /\ begun[c] >= Base(c) + 20
          /\ begun[c] = Base(c) + 20 =>
                 target[c].host = SubSeq(Request(c), 5, 20)
      BY <1>9 DEF ReadPort, IInv, Parsed, HostRead, Connects
    <2>3. n - 2 = 20 /\ n >= 2
      BY <2>1
    <2> QED
      BY <1>7, <2>1, <2>2, <2>3
  <1>10. ASSUME Connects(c, 3), Sure(c)'
         PROVE  target'[c] = Requested(Request(c))
    <2> DEFINE length == Request(c)[5]
    <2>1. n = 7 + length /\ Request(c)[4] = 3
      BY <1>6, <1>10, WellFormedAssumption DEF Connects, Greeting, Request, n
    <2>2. Sure(c)
      BY <1>1, <1>10, TookType DEF Sure, Unmistakable
    <2>3. /\ length \in Nat /\ begun[c] >= Base(c) + 5 + length
          /\ begun[c] = Base(c) + 5 + length =>
                 target[c].host = SubSeq(Request(c), 6, 5 + length)
      BY <1>10, <2>2 DEF ReadPort, IInv, Parsed, HostRead, Connects
    <2> HIDE DEF length
    <2>4. n - 2 = 5 + length /\ n >= 2
      BY <2>1, <2>3
    <2>5. begun[c] >= Base(c) + (n - 2)
      <3>1. Base(c) \in Nat
        BY <1>1
      <3> QED
        BY <2>3, <2>4, <3>1
    <2>6. ASSUME begun[c] = Base(c) + (n - 2)
          PROVE  target[c].host = SubSeq(Request(c), 6, n - 2)
      <3>1. begun[c] = Base(c) + 5 + length
        <4>1. Base(c) \in Nat
          BY <1>1
        <4> QED
          BY <2>3, <2>4, <2>6, <4>1
      <3> QED
        BY <2>3, <2>4, <3>1
    <2> QED
      BY <1>7, <2>1, <2>4, <2>5, <2>6
  <1>11. Connects(c, 1) \/ Connects(c, 4) \/ Connects(c, 3)
    BY DEF ReadPort, IInv, Parsed, HostRead
  <1>12. Sure(c)' => target'[c] = Requested(Request(c))
    BY <1>8, <1>9, <1>10, <1>11
  <1>13. TargetRead(c)'
    <2>1. Requested(Request(c))' = Requested(Request(c))
      BY <1>5 DEF Requested
    <2> QED
      BY <1>5, <1>12, <2>1 DEF TargetRead
  <1> QED
    BY <1>4, <1>13 DEF Parsed, GreetingRead, AddressRead, HostRead

-----------------------------------------------------------------------------
(* What a step leaves of the invariant.                                    *)

\* What a step writes of the stream.
StreamTypes ==
    /\ talk \in [Clients -> UNION {Conversations[c] : c \in Clients}]
    /\ \A c \in Clients : talk[c] \in Conversations[c]
    /\ sent \in [Clients -> Nat]
    /\ delivered \in [Clients -> Nat]
    /\ begun \in [Clients -> Nat]
    /\ overread \in [Clients -> BOOLEAN]
    /\ \A c \in Clients :
           /\ begun[c] <= delivered[c] /\ delivered[c] <= sent[c]
           /\ sent[c] <= Len(Stream(c))

Sockets ==
    /\ open \in [Clients -> BOOLEAN]
    /\ activeConnections \in 0..Cardinality(Clients)
    /\ ActiveConnectionsCounted

\* A step of c.
OnlyOf(c) ==
    \A d \in Clients \ {c} :
        UNCHANGED <<phase[d], count[d], target[d], answer[d], talk[d], sent[d],
                    begun[d], overread[d]>>

LEMMA Unmoved ==
    ASSUME NEW c \in Clients, Parsed(c),
           UNCHANGED <<phase[c], count[c], target[c], answer[c], talk[c], sent[c],
                       begun[c], overread[c]>>
    PROVE  Parsed(c)'
  <1>1. Greeting(c)' = Greeting(c) /\ Request(c)' = Request(c)
    BY DEF Greeting, Request
  <1>2. Base(c)' = Base(c) /\ Requested(Request(c))' = Requested(Request(c))
    BY <1>1 DEF Base, Requested
  <1>3. GreetingRead(c)'
    BY <1>1, <1>2 DEF Parsed, GreetingRead
  <1>4. \A type \in {1, 3, 4} : Connects(c, type)' <=> Connects(c, type)
    BY <1>1 DEF Connects
  <1>5. Sure(c)' <=> Sure(c)
    BY <1>1 DEF Sure, Unmistakable
  <1>6. AddressRead(c)'
    BY <1>1, <1>2, <1>4, <1>5 DEF Parsed, AddressRead
  <1>7. HostRead(c)'
    BY <1>1, <1>2, <1>4, <1>5 DEF Parsed, HostRead
  <1>8. TargetRead(c)'
    BY <1>1, <1>2, <1>5 DEF Parsed, TargetRead
  <1> QED
    BY <1>3, <1>6, <1>7, <1>8 DEF Parsed

LEMMA Parts == IInv => ParseTypes /\ StreamTypes /\ Sockets
  BY DEF IInv, TypeOK, ParseTypes, StreamTypes, Sockets

LEMMA StepOf ==
    ASSUME IInv, NEW c \in Clients,
           ParseTypes', StreamTypes', Sockets', OnlyOf(c), Parsed(c)'
    PROVE  IInv'
  <1>1. TypeOK' /\ ActiveConnectionsCounted'
    BY DEF TypeOK, ParseTypes, StreamTypes, Sockets
  <1>2. ASSUME NEW d \in Clients \ {c}
        PROVE  Parsed(d)'
    BY Unmoved DEF OnlyOf, IInv
  <1> QED
    BY <1>1, <1>2 DEF IInv

\* A socket that was open is counted off, and one that was not is not.
LEMMA ClosedStep ==
    ASSUME Sockets, NEW c \in Clients, Closed(c)
    PROVE  Sockets'
  <1> DEFINE Up == {d \in Clients : open[d]}
             Left == {d \in Clients : open'[d]}
  <1>1. /\ open' = [open EXCEPT ![c] = FALSE]
        /\ activeConnections' = IF open[c] THEN activeConnections - 1
                                           ELSE activeConnections
    BY DEF Closed
  <1>2. Left = Up \ {c} /\ open' \in [Clients -> BOOLEAN]
    BY <1>1 DEF Sockets
  <1>3. /\ IsFiniteSet(Clients) /\ IsFiniteSet(Up)
        /\ Cardinality(Clients) \in Nat /\ Cardinality(Up) \in Nat
    BY ConversationsAssumption, FS_Subset, FS_CardinalityType
  <1>4. Cardinality(Left) = IF c \in Up THEN Cardinality(Up) - 1
                                        ELSE Cardinality(Up)
    BY <1>2, <1>3, FS_RemoveElement
  <1>5. /\ Cardinality(Left) <= Cardinality(Clients)
        /\ Cardinality(Left) \in Nat
    <2>1. Left \subseteq Clients
      OBVIOUS
    <2> QED
      BY <1>3, <2>1, FS_Subset, FS_CardinalityType
  <1>6. activeConnections = Cardinality(Up)
    BY DEF Sockets, ActiveConnectionsCounted
  <1>7. c \in Up <=> open[c]
    OBVIOUS
  <1>8. activeConnections' = Cardinality(Left)
    BY <1>1, <1>4, <1>6, <1>7
  <1> QED
    BY <1>2, <1>3, <1>5, <1>8 DEF Sockets, ActiveConnectionsCounted

\* A client that connects was not connected.
LEMMA AcceptedStep ==
    ASSUME Sockets, NEW c \in Clients, ~open[c],
           open' = [open EXCEPT ![c] = TRUE],
           activeConnections' = activeConnections + 1
    PROVE  Sockets'
  <1> DEFINE Up == {d \in Clients : open[d]}
             More == {d \in Clients : open'[d]}
  <1>1. More = Up \cup {c} /\ c \notin Up /\ open' \in [Clients -> BOOLEAN]
    BY DEF Sockets
  <1>2. /\ IsFiniteSet(Clients) /\ IsFiniteSet(Up)
        /\ Cardinality(Clients) \in Nat /\ Cardinality(Up) \in Nat
    BY ConversationsAssumption, FS_Subset, FS_CardinalityType
  <1>3. Cardinality(More) = Cardinality(Up) + 1
    BY <1>1, <1>2, FS_AddElement
  <1>4. Cardinality(More) <= Cardinality(Clients)
    <2>1. More \subseteq Clients
      OBVIOUS
    <2> QED
      BY <1>2, <2>1, FS_Subset
  <1>5. activeConnections = Cardinality(Up)
    BY DEF Sockets, ActiveConnectionsCounted
  <1>6. activeConnections' = Cardinality(More)
    BY <1>3, <1>5
  <1> QED
    BY <1>1, <1>2, <1>3, <1>4, <1>6 DEF Sockets, ActiveConnectionsCounted

LEMMA SameSockets == Sockets /\ UNCHANGED socketVars => Sockets'
  BY DEF Sockets, socketVars, ActiveConnectionsCounted

-----------------------------------------------------------------------------
(* The steps.                                                              *)

LEMMA ResolveStep ==
    ASSUME IInv, NEW c \in Clients, NEW got, Resolve(c, got)
    PROVE  /\ Sockets'
           /\ \A d \in Clients \ {c} :
                  UNCHANGED <<phase[d], count[d], target[d], answer[d]>>
  <1> USE DEF Await, Write, parseVars, socketVars
  <1>1. Sockets
    BY Parts
  <1>2. Closed(c) \/ UNCHANGED socketVars
    BY DEF Resolve, ReadGreeting, ReadMethods, ReadHeader, ReadLength, ReadHost,
           ReadPort, Refuse, RefuseWith, ReadAddressOf
  <1>3. \/ phase' = [phase EXCEPT ![c] = "closed"]
        \/ \E read \in Phases : phase' = [phase EXCEPT ![c] = read]
    BY DEF Resolve, ReadGreeting, ReadMethods, ReadHeader, ReadLength, ReadHost,
           ReadPort, Refuse, RefuseWith, ReadAddressOf, Phases, Reads
  <1>4. count' = count \/ \E n : count' = [count EXCEPT ![c] = n]
    BY DEF Resolve, ReadGreeting, ReadMethods, ReadHeader, ReadLength, ReadHost,
           ReadPort, RefuseWith, ReadAddressOf
  <1>5. answer' = answer \/ \E what : answer' = [answer EXCEPT ![c] = what]
    BY DEF Resolve, ReadGreeting, ReadMethods, ReadHeader, ReadLength, ReadHost,
           ReadPort, RefuseWith, ReadAddressOf
  <1>6. target' = target \/ \E what : target' = [target EXCEPT ![c] = what]
    BY DEF Resolve, ReadGreeting, ReadMethods, ReadHeader, ReadLength, ReadHost,
           ReadPort, RefuseWith, ReadAddressOf
  <1>7. Sockets'
    BY <1>1, <1>2, ClosedStep, SameSockets
  <1>8. ASSUME NEW d \in Clients \ {c}
        PROVE  UNCHANGED <<phase[d], count[d], target[d], answer[d]>>
    BY <1>3, <1>4, <1>5, <1>6 DEF IInv, TypeOK
  <1> QED
    BY <1>7, <1>8

LEMMA ArrivedTypes ==
    ASSUME IInv, NEW c \in Clients, NEW arrived \in (delivered[c] + 1)..sent[c],
           delivered' = [delivered EXCEPT ![c] = arrived],
           UNCHANGED <<talk, sent>>,
           \/ begun' = begun
           \/ begun' = [begun EXCEPT ![c] = arrived],
           overread' \in [Clients -> BOOLEAN]
    PROVE  StreamTypes'
  <1>1. /\ sent[c] \in Nat /\ delivered[c] \in Nat /\ begun[c] \in Nat
        /\ begun[c] <= delivered[c]
    BY DEF IInv, TypeOK
  <1>2. arrived \in Nat /\ arrived <= sent[c] /\ begun[c] <= arrived
    BY <1>1
  <1>3. /\ delivered' \in [Clients -> Nat] /\ begun' \in [Clients -> Nat]
        /\ sent' \in [Clients -> Nat]
        /\ talk' \in [Clients -> UNION {Conversations[d] : d \in Clients}]
        /\ \A d \in Clients : talk'[d] \in Conversations[d]
    BY <1>2 DEF IInv, TypeOK
  <1>4. ASSUME NEW d \in Clients
        PROVE  /\ begun'[d] <= delivered'[d] /\ delivered'[d] <= sent'[d]
               /\ sent'[d] <= Len(Stream(d)')
    <2>1. Stream(d)' = Stream(d) /\ sent'[d] = sent[d]
      BY DEF Stream
    <2>2. sent[d] <= Len(Stream(d))
      BY DEF IInv, TypeOK
    <2>3. CASE d = c
      <3>1. delivered'[d] = arrived /\ begun'[d] \in {begun[c], arrived}
        BY <2>3 DEF IInv, TypeOK
      <3> QED
        BY <1>2, <2>1, <2>2, <2>3, <3>1
    <2>4. CASE d # c
      <3>1. delivered'[d] = delivered[d] /\ begun'[d] = begun[d]
        BY <2>4 DEF IInv, TypeOK
      <3>2. begun[d] <= delivered[d] /\ delivered[d] <= sent[d]
        BY DEF IInv, TypeOK
      <3> QED
        BY <2>1, <2>2, <3>1, <3>2
    <2> QED
      BY <2>3, <2>4
  <1> QED
    BY <1>3, <1>4 DEF StreamTypes

LEMMA DeliverStep ==
    ASSUME IInv, NEW c \in Clients, Deliver(c)
    PROVE  IInv'
  <1>1. PICK arrived \in (delivered[c] + 1)..sent[c] :
            /\ delivered' = [delivered EXCEPT ![c] = arrived]
            /\ IF arrived - begun[c] >= count[c]
                 THEN /\ begun' = [begun EXCEPT ![c] = arrived]
                      /\ overread' = [overread EXCEPT ![c] =
                                         @ \/ arrived - begun[c] > count[c]]
                      /\ Resolve(c, Got(c, arrived))
                 ELSE UNCHANGED <<begun, overread, phase, parseVars, answer,
                                  socketVars>>
    BY DEF Deliver, Received, Got
  <1>2. UNCHANGED <<talk, sent>>
    BY DEF Deliver
  <1>3. CASE arrived - begun[c] >= count[c]
    <2>1. Took(c, arrived) /\ Resolve(c, Got(c, arrived))
      BY <1>1, <1>2, <1>3 DEF Took
    <2>2. ParseTypes' /\ Parsed(c)'
      BY <2>1, ReadGreetingStep, ReadMethodsStep, ReadHeaderStep, ReadLengthStep,
         ReadHostStep, ReadPortStep DEF Resolve
    <2>3. StreamTypes'
      <3>1. overread' \in [Clients -> BOOLEAN]
        BY <1>1, <1>3 DEF IInv, TypeOK
      <3> QED
        BY <1>1, <1>2, <1>3, <3>1, ArrivedTypes
    <2>4. /\ Sockets'
          /\ \A d \in Clients \ {c} :
                 UNCHANGED <<phase[d], count[d], target[d], answer[d]>>
      BY <2>1, ResolveStep
    <2>5. OnlyOf(c)
      BY <2>1, <2>4 DEF OnlyOf, Took, IInv, TypeOK
    <2> QED
      BY <2>2, <2>3, <2>4, <2>5, StepOf
  <1>4. CASE ~(arrived - begun[c] >= count[c])
    <2>1. UNCHANGED <<begun, overread, phase, count, target, answer, open,
                      activeConnections, talk, sent>>
      BY <1>1, <1>2, <1>4 DEF parseVars, socketVars
    <2>2. ParseTypes' /\ Sockets'
      BY <2>1, Parts DEF ParseTypes, Sockets, ActiveConnectionsCounted
    <2>3. StreamTypes'
      BY <1>1, <2>1, ArrivedTypes DEF IInv, TypeOK
    <2>4. Parsed(c)'
      BY <2>1, Unmoved DEF IInv
    <2>5. OnlyOf(c)
      BY <2>1 DEF OnlyOf
    <2> QED
      BY <2>2, <2>3, <2>4, <2>5, StepOf
  <1> QED
    BY <1>3, <1>4

LEMMA SameStream == StreamTypes /\ UNCHANGED streamVars => StreamTypes'
  BY DEF StreamTypes, streamVars, Stream

LEMMA AcceptStep ==
    ASSUME IInv, NEW c \in Clients, Accept(c)
    PROVE  IInv'
  <1>1. PICK t \in Conversations[c] : talk' = [talk EXCEPT ![c] = t]
    BY DEF Accept
  <1>2. /\ phase' = [phase EXCEPT ![c] = "greeting"]
        /\ count' = [count EXCEPT ![c] = 2]
        /\ sent' = [sent EXCEPT ![c] = 0]
        /\ delivered' = [delivered EXCEPT ![c] = 0]
        /\ begun' = [begun EXCEPT ![c] = 0]
        /\ overread' = [overread EXCEPT ![c] = FALSE]
        /\ target' = [target EXCEPT ![c] = NoTarget]
        /\ answer' = [answer EXCEPT ![c] = "none"]
    BY DEF Accept, Await, Write
  <1>3. ParseTypes'
    <2>1. NoTarget \in [host : Seq(Nat), port : Seq(Nat)]
      BY DEF NoTarget
    <2> QED
      BY <1>2, <2>1 DEF IInv, TypeOK, ParseTypes, Phases, Reads, Answers
  <1>4. t \in UNION {Conversations[d] : d \in Clients}
    OBVIOUS
  <1>5. t \in [greeting : Seq(Nat), request : Seq(Nat)]
    BY ConversationsAssumption
  <1>6. talk'[c] = t /\ \A d \in Clients : talk'[d] \in Conversations[d]
    BY <1>1 DEF IInv, TypeOK
  <1>7. /\ Base(c)' \in Nat /\ Len(Stream(c)') \in Nat
    <2>1. t.greeting \in Seq(Nat) /\ t.request \in Seq(Nat)
      BY <1>5
    <2>2. t.greeting \o t.request \in Seq(Nat)
      BY <2>1, ConcatProperties
    <2>3. Len(t.greeting) \in Nat /\ Len(t.greeting \o t.request) \in Nat
      BY <2>1, <2>2, LenProperties
    <2> QED
      BY <1>6, <2>3 DEF Base, Greeting, Stream
  <1>8. StreamTypes'
    <2>1. /\ talk' \in [Clients -> UNION {Conversations[d] : d \in Clients}]
          /\ sent' \in [Clients -> Nat] /\ delivered' \in [Clients -> Nat]
          /\ begun' \in [Clients -> Nat] /\ overread' \in [Clients -> BOOLEAN]
      BY <1>1, <1>2, <1>4 DEF IInv, TypeOK
    <2>2. ASSUME NEW d \in Clients
          PROVE  /\ begun'[d] <= delivered'[d] /\ delivered'[d] <= sent'[d]
                 /\ sent'[d] <= Len(Stream(d)')
      <3>1. CASE d = c
        <4>1. begun'[c] = 0 /\ delivered'[c] = 0 /\ sent'[c] = 0
          BY <1>2 DEF IInv, TypeOK
        <4> QED
          BY <1>7, <3>1, <4>1
      <3>2. CASE d # c
        <4>1. /\ begun'[d] = begun[d] /\ delivered'[d] = delivered[d]
              /\ sent'[d] = sent[d] /\ Stream(d)' = Stream(d)
          BY <1>1, <1>2, <3>2 DEF IInv, TypeOK, Stream
        <4> QED
          BY <4>1 DEF IInv, TypeOK
      <3> QED
        BY <3>1, <3>2
    <2> QED
      BY <1>6, <2>1, <2>2 DEF StreamTypes
  <1>9. Sockets'
    BY Parts, AcceptedStep DEF Accept
  <1>10. OnlyOf(c)
    BY <1>1, <1>2 DEF OnlyOf, IInv, TypeOK
  <1>11. Parsed(c)'
    <2>1. /\ phase'[c] = "greeting" /\ count'[c] = 2 /\ begun'[c] = 0
          /\ answer'[c] = "none" /\ sent'[c] = 0
      BY <1>2 DEF IInv, TypeOK
    <2> QED
      BY <1>7, <2>1 DEF Parsed, GreetingRead, AddressRead, HostRead, TargetRead
  <1> QED
    BY <1>3, <1>8, <1>9, <1>10, <1>11, StepOf

\* While the greeting is read no answer has been given, and the request waits for
\* one.
LEMMA SendStep ==
    ASSUME IInv, NEW c \in Clients, Send(c)
    PROVE  IInv'
  <1>1. UNCHANGED <<phase, count, target, talk, delivered, begun, overread,
                    answer, open, activeConnections>>
    BY DEF Send, parseVars, socketVars
  <1>2. /\ sent[c] \in Nat /\ delivered[c] \in Nat /\ delivered[c] <= sent[c]
        /\ Base(c) \in Nat /\ Len(Request(c)) \in Nat
        /\ Len(Stream(c)) = Base(c) + Len(Request(c))
    BY TalkType DEF IInv, TypeOK
  <1>3. PICK n \in {Base(c), Len(Stream(c))} :
            /\ sent' = [sent EXCEPT ![c] = n]
            /\ sent[c] <= n
            /\ n # Base(c) => answer[c] = "method"
    BY <1>2 DEF Send, Base, Greeting
  <1>4. n \in Nat /\ n <= Len(Stream(c)) /\ delivered[c] <= n
    BY <1>2, <1>3
  <1>5. ParseTypes' /\ Sockets'
    BY <1>1, Parts DEF ParseTypes, Sockets, ActiveConnectionsCounted
  <1>6. StreamTypes'
    <2>1. sent' \in [Clients -> Nat]
      BY <1>3, <1>4 DEF IInv, TypeOK
    <2>2. ASSUME NEW d \in Clients
          PROVE  delivered[d] <= sent'[d] /\ sent'[d] <= Len(Stream(d))
      BY <1>3, <1>4 DEF IInv, TypeOK
    <2>3. \A d \in Clients : Stream(d)' = Stream(d)
      BY <1>1 DEF Stream
    <2> QED
      BY <1>1, <2>1, <2>2, <2>3 DEF IInv, TypeOK, StreamTypes
  <1>7. OnlyOf(c)
    BY <1>1, <1>3 DEF OnlyOf, IInv, TypeOK
  <1>8. Parsed(c)'
    <2>1. Greeting(c)' = Greeting(c) /\ Request(c)' = Request(c)
      BY <1>1 DEF Greeting, Request
    <2>2. Base(c)' = Base(c) /\ Requested(Request(c))' = Requested(Request(c))
      BY <2>1 DEF Base, Requested
    <2>3. \A type \in {1, 3, 4} : Connects(c, type)' <=> Connects(c, type)
      BY <2>1 DEF Connects
    <2>4. Parsed(c)
      BY DEF IInv
    <2>5. GreetingRead(c)'
      <3>1. phase[c] \in {"greeting", "methods"} => sent'[c] = Base(c)
        BY <1>3, <2>4 DEF Parsed, GreetingRead, IInv, TypeOK
      <3> QED
        BY <1>1, <1>2, <2>1, <2>2, <2>4, <3>1 DEF Parsed, GreetingRead
    <2>6. Sure(c)' <=> Sure(c)
      BY <1>1, <2>1 DEF Sure, Unmistakable
    <2>7. AddressRead(c)'
      BY <1>1, <2>1, <2>2, <2>3, <2>4, <2>6 DEF Parsed, AddressRead
    <2>8. HostRead(c)' /\ TargetRead(c)'
      BY <1>1, <2>1, <2>2, <2>3, <2>4, <2>6 DEF Parsed, HostRead, TargetRead
    <2> QED
      BY <2>5, <2>7, <2>8 DEF Parsed
  <1> QED
    BY <1>5, <1>6, <1>7, <1>8, StepOf

\* A step that reads nothing: what it leaves, and what it may say of c.
LEMMA QuietStep ==
    ASSUME IInv, NEW c \in Clients, NEW p \in Phases, NEW what \in Answers,
           phase' = [phase EXCEPT ![c] = p],
           answer' = [answer EXCEPT ![c] = what],
           UNCHANGED <<parseVars, streamVars>>,
           Closed(c) \/ UNCHANGED socketVars,
           \/ p = "closed"
           \/ phase[c] = "connecting" /\ (p = "empty" \/ p = "tunnel")
    PROVE  IInv'
  <1>1. UNCHANGED <<count, target, talk, sent, begun, overread>>
    BY DEF parseVars, streamVars
  <1>2. ParseTypes'
    BY <1>1 DEF IInv, TypeOK, ParseTypes
  <1>3. StreamTypes' /\ Sockets'
    BY Parts, SameStream, ClosedStep, SameSockets
  <1>4. OnlyOf(c)
    BY <1>1 DEF OnlyOf, IInv, TypeOK
  <1>5. phase'[c] = p
    BY DEF IInv, TypeOK
  <1>6. Parsed(c)'
    <2>1. CASE p = "closed"
      BY <1>5, <2>1 DEF Parsed, GreetingRead, AddressRead, HostRead, TargetRead
    <2>2. CASE phase[c] = "connecting" /\ (p = "empty" \/ p = "tunnel")
      <3>1. Request(c)' = Request(c) /\ Requested(Request(c))' = Requested(Request(c))
        BY <1>1 DEF Request, Requested
      <3>2. TargetRead(c)'
        BY <1>1, <2>2, <3>1
           DEF IInv, Parsed, TargetRead, Sure, Unmistakable
      <3> QED
        BY <1>5, <2>2, <3>2 DEF Parsed, GreetingRead, AddressRead, HostRead
    <2> QED
      BY <2>1, <2>2
  <1> QED
    BY <1>2, <1>3, <1>4, <1>6, StepOf

LEMMA ClientLeavesStep ==
    ASSUME IInv, NEW c \in Clients, ClientLeaves(c)
    PROVE  IInv'
  <1>1. /\ UNCHANGED <<parseVars, streamVars>> /\ answer' = answer
        /\ Closed(c)
        /\ phase' = [phase EXCEPT ![c] = IF @ \in Reads \cup {"tunnel"}
                                           THEN "closed" ELSE @]
    BY DEF ClientLeaves
  <1>2. CASE phase[c] \in Reads \cup {"tunnel"}
    <2>1. /\ phase' = [phase EXCEPT ![c] = "closed"]
          /\ answer' = [answer EXCEPT ![c] = answer[c]]
          /\ answer[c] \in Answers /\ "closed" \in Phases
      BY <1>1, <1>2 DEF IInv, TypeOK, Phases
    <2> QED
      BY <1>1, <2>1, QuietStep
  <1>3. CASE phase[c] \notin Reads \cup {"tunnel"}
    <2>1. UNCHANGED <<phase, count, target, answer, talk, sent, begun, overread>>
      BY <1>1, <1>3 DEF IInv, TypeOK, parseVars, streamVars
    <2>2. ParseTypes' /\ StreamTypes' /\ Sockets'
      BY <1>1, <2>1, Parts, SameStream, ClosedStep DEF ParseTypes
    <2>3. OnlyOf(c) /\ Parsed(c)'
      BY <2>1, Unmoved DEF OnlyOf, IInv
    <2> QED
      BY <2>2, <2>3, StepOf
  <1> QED
    BY <1>2, <1>3

LEMMA RelayStepStep ==
    ASSUME IInv, NEW c \in Clients, RelayStep(c) \/ RelayCloses(c)
    PROVE  IInv'
  <1>1. /\ answer[c] \in Answers /\ answer = [answer EXCEPT ![c] = answer[c]]
        /\ {"unreachable", "ok"} \subseteq Answers
        /\ {"closed", "empty", "tunnel"} \subseteq Phases
    BY DEF IInv, TypeOK, Answers, Phases
  <1>2. CASE NoRelay(c)
    <2>1. /\ phase[c] = "connecting"
          /\ phase' = [phase EXCEPT ![c] = "empty"]
          /\ answer' = answer
          /\ UNCHANGED <<parseVars, streamVars>> /\ UNCHANGED socketVars
      BY <1>2 DEF NoRelay
    <2> QED
      BY <1>1, <2>1, QuietStep
  <1>3. CASE RelaysFail(c)
    <2>1. /\ phase' = [phase EXCEPT ![c] = "closed"]
          /\ answer' = [answer EXCEPT ![c] = "unreachable"]
          /\ UNCHANGED <<parseVars, streamVars>> /\ Closed(c)
      BY <1>3 DEF RelaysFail, RefuseWith, Refuse, Write
    <2> QED
      BY <1>1, <2>1, QuietStep
  <1>4. CASE TunnelUp(c)
    <2>1. /\ phase[c] = "connecting"
          /\ phase' = [phase EXCEPT ![c] = "tunnel"]
          /\ answer' = [answer EXCEPT ![c] = "ok"]
          /\ UNCHANGED <<parseVars, streamVars>> /\ UNCHANGED socketVars
      BY <1>4 DEF TunnelUp, Write
    <2> QED
      BY <1>1, <2>1, QuietStep
  <1>5. CASE RelayCloses(c)
    <2>1. /\ phase' = [phase EXCEPT ![c] = "closed"]
          /\ answer' = answer
          /\ UNCHANGED <<parseVars, streamVars>> /\ Closed(c)
      BY <1>5 DEF RelayCloses, Refuse
    <2> QED
      BY <1>1, <2>1, QuietStep
  <1> QED
    BY <1>2, <1>3, <1>4, <1>5 DEF RelayStep

-----------------------------------------------------------------------------
(* The theorems about the listener.                                        *)

LEMMA InitIInv == Init => IInv
  <1> SUFFICES ASSUME Init PROVE IInv
    OBVIOUS
  <1> USE DEF Init
  <1>1. \A c \in Clients :
            /\ Conversations[c] # {}
            /\ Conversations[c] \subseteq [greeting : Seq(Nat), request : Seq(Nat)]
    BY ConversationsAssumption
  <1>2. \A c \in Clients : talk[c] \in Conversations[c]
    BY <1>1
  <1>3. ParseTypes
    <2>1. NoTarget \in [host : Seq(Nat), port : Seq(Nat)]
      BY DEF NoTarget
    <2> QED
      BY <2>1 DEF ParseTypes, Phases, Answers
  <1>4. StreamTypes
    <2>1. talk \in [Clients -> UNION {Conversations[c] : c \in Clients}]
      BY <1>2
    <2>2. \A c \in Clients : Len(Stream(c)) \in Nat
      <3> TAKE c \in Clients
      <3>1. talk[c].greeting \in Seq(Nat) /\ talk[c].request \in Seq(Nat)
        BY <1>1, <1>2
      <3>2. Stream(c) \in Seq(Nat)
        BY <3>1, ConcatProperties DEF Stream
      <3> QED
        BY <3>2, LenProperties
    <2>3. \A c \in Clients : 0 <= Len(Stream(c))
      BY <2>2
    <2>4. \A c \in Clients : begun[c] = 0 /\ delivered[c] = 0 /\ sent[c] = 0
      OBVIOUS
    <2>5. /\ sent \in [Clients -> Nat] /\ delivered \in [Clients -> Nat]
          /\ begun \in [Clients -> Nat] /\ overread \in [Clients -> BOOLEAN]
      OBVIOUS
    <2> HIDE DEF Init
    <2> QED
      BY <1>2, <2>1, <2>3, <2>4, <2>5 DEF StreamTypes
  <1>5. Sockets
    <2>1. /\ {c \in Clients : open[c]} = {} /\ open \in [Clients -> BOOLEAN]
          /\ activeConnections = 0
      OBVIOUS
    <2> HIDE DEF Init
    <2>2. Cardinality({}) = 0 /\ Cardinality(Clients) \in Nat
      BY ConversationsAssumption, FS_EmptySet, FS_CardinalityType
    <2> QED
      BY <2>1, <2>2 DEF Sockets, ActiveConnectionsCounted
  <1>6. ASSUME NEW c \in Clients
        PROVE  Parsed(c)
    <2>1. phase[c] = "idle"
      OBVIOUS
    <2> QED
      BY <2>1, ClosedIsParsed
  <1> QED
    BY <1>3, <1>4, <1>5, <1>6
       DEF IInv, TypeOK, ParseTypes, StreamTypes, Sockets

LEMMA NextIInv == IInv /\ [Next]_vars => IInv'
  <1> SUFFICES ASSUME IInv, [Next]_vars PROVE IInv'
    OBVIOUS
  <1>1. CASE UNCHANGED vars
    <2>1. ParseTypes' /\ StreamTypes' /\ Sockets'
      BY <1>1, Parts, SameStream, SameSockets
         DEF vars, ParseTypes, streamVars, socketVars
    <2>2. \A c \in Clients : Parsed(c)'
      BY <1>1, Unmoved DEF vars, IInv
    <2> QED
      BY <2>1, <2>2 DEF IInv, TypeOK, ParseTypes, StreamTypes, Sockets
  <1>2. CASE Next
    <2>1. PICK c \in Clients :
              ClientStep(c) \/ Deliver(c) \/ RelayStep(c) \/ RelayCloses(c)
      BY <1>2 DEF Next
    <2> QED
      BY <2>1, AcceptStep, SendStep, ClientLeavesStep, DeliverStep, RelayStepStep
         DEF ClientStep
  <1> QED
    BY <1>1, <1>2

\* The invariant holds in every state of the listener, for any clients and any
\* conversations, in whatever chunks they come.
THEOREM Invariance == Spec => []IInv
  BY InitIInv, NextIInv, PTL DEF Spec

\* Type correctness: among the rest, no read begins beyond what has arrived, and
\* the counter of connections never goes below 0 or above the clients there are.
THEOREM TypeCorrect == Spec => []TypeOK
  <1>1. IInv => TypeOK
    BY DEF IInv
  <1> QED
    BY <1>1, Invariance, PTL

\* The counter is the number of open connections: each is counted off once,
\* however it ends, and whoever closes it first (socks5-server.ts, handleClient).
THEOREM ConnectionsAreCounted == Spec => []ActiveConnectionsCounted
  <1>1. IInv => ActiveConnectionsCounted
    BY DEF IInv
  <1> QED
    BY <1>1, Invariance, PTL

\* The relays are asked for the host and the port of a well-formed request,
\* wherever the stream was cut into chunks: an address that is read is the one
\* that was sent, or the handshake is short of bytes and never gets to a relay.
\* This is so of every IPv4 and IPv6 address and of every domain no byte of which
\* can be taken for its length, such as a host name of up to 45 bytes; of other
\* domains when no read got more than its count (socks5-server.ts, handleClient;
\* socket-utils.ts, readExact).
THEOREM AsTheClientAsked == Spec => []TargetAsRequested
  <1>1. IInv => TargetAsRequested
    BY DEF IInv, Parsed, TargetRead, Sure, Request, TargetAsRequested
  <1> QED
    BY <1>1, Invariance, PTL

-----------------------------------------------------------------------------
(* The process that opens the listeners and closes them.                   *)

ListensInStage ==
    /\ stage \in {"loading", "openingHttp", "drainingHttp"} => listens = {}
    /\ stage \in {"openingSocks5", "drainingSocks5"} => listens = {"http"}
    /\ stage = "openingSocks5" => socks5
    /\ stage = "up" => listens = IF socks5 THEN {"http", "socks5"} ELSE {"http"}

\* A client's listener takes others or is the one that shutdown waits for.
HeldIsAwaited ==
    \A c \in Peers :
        /\ via[c] = "http" => "http" \in listens \/ stage = "drainingHttp"
        /\ via[c] = "socks5" => "socks5" \in listens \/ stage = "drainingSocks5"

PInv == ProcessTypeOK /\ ListensInStage /\ HeldIsAwaited /\ ZeroIsClean

LEMMA InitPInv == ProcessInit => PInv
  <1> SUFFICES ASSUME ProcessInit PROVE PInv
    OBVIOUS
  <1>1. /\ socks5 \in BOOLEAN /\ stage = "loading" /\ exit = "none" /\ listens = {}
        /\ via = [c \in Peers |-> "none"]
    BY DEF ProcessInit
  <1>2. ProcessTypeOK
    BY <1>1 DEF ProcessTypeOK, Stages, Exits, Listeners
  <1>3. ListensInStage
    BY <1>1 DEF ListensInStage
  <1>4. HeldIsAwaited /\ ZeroIsClean
    BY <1>1 DEF HeldIsAwaited, ZeroIsClean
  <1> QED
    BY <1>2, <1>3, <1>4 DEF PInv

\* A listener that listens is closed, and with it no client of the other one is
\* left behind.
LEMMA CloseStep ==
    ASSUME PInv, exit = "none", UNCHANGED <<socks5, exit, via>>,
           NEW l \in {"http", "socks5"}, l \in listens, listens' = listens \ {l},
           stage' = IF l = "http" THEN "drainingHttp" ELSE "drainingSocks5",
           l = "socks5" => stage = "up",
           l = "http" => /\ listens = {"http"}
                         /\ \A c \in Peers : via[c] # "socks5"
    PROVE  PInv'
  <1> USE DEF ProcessTypeOK, ZeroIsClean, Stages, Exits, Listeners
  <1>1. /\ socks5' \in BOOLEAN /\ stage' \in Stages
        /\ exit' \in Exits /\ listens' \in SUBSET Listeners
        /\ via' \in [Peers -> Listeners \cup {"none"}]
    BY DEF PInv
  <1>2. ListensInStage'
    <2>1. CASE l = "http"
      BY <2>1 DEF ListensInStage
    <2>2. CASE l = "socks5"
      <3>1. listens = {"http", "socks5"}
        BY <2>2 DEF PInv, ListensInStage
      <3>2. listens' = {"http"} /\ stage' = "drainingSocks5"
        BY <2>2, <3>1
      <3> QED
        BY <3>2 DEF ListensInStage
    <2> QED
      BY <2>1, <2>2
  <1>3. HeldIsAwaited'
    BY DEF PInv, HeldIsAwaited
  <1>4. exit' = "zero" => ZeroIsClean'
    BY DEF PInv
  <1> QED
    BY <1>1, <1>2, <1>3, <1>4 DEF PInv

LEMMA ShutdownStep ==
    ASSUME PInv, Signal \/ Socks5Drained
    PROVE  PInv'
  <1> USE DEF ProcessTypeOK, Stages, Listeners, Alive, Close
  <1>1. CASE Signal
    <2>1. /\ exit = "none" /\ stage = "up" /\ UNCHANGED <<socks5, via>>
          /\ IF socks5 THEN Close("socks5") ELSE Close("http")
      BY <1>1 DEF Signal
    <2>2. CASE socks5
      <3>1. "socks5" \in listens
        BY <2>1, <2>2 DEF PInv, ListensInStage
      <3>2. /\ listens' = listens \ {"socks5"} /\ exit' = exit
            /\ stage' = "drainingSocks5"
        BY <2>1, <2>2, <3>1
      <3> HIDE DEF Close
      <3> QED
        BY <2>1, <3>1, <3>2, CloseStep
    <2>3. CASE ~socks5
      <3>1. listens = {"http"} /\ \A c \in Peers : via[c] # "socks5"
        BY <2>1, <2>3 DEF PInv, ListensInStage, HeldIsAwaited
      <3>2. /\ listens' = listens \ {"http"} /\ exit' = exit
            /\ stage' = "drainingHttp"
        BY <2>1, <2>3, <3>1
      <3> QED
        BY <2>1, <3>1, <3>2, CloseStep
    <2> QED
      BY <2>1, <2>2, <2>3 DEF PInv
  <1>2. CASE Socks5Drained
    <2>1. /\ exit = "none" /\ stage = "drainingSocks5" /\ UNCHANGED <<socks5, via>>
          /\ \A c \in Peers : via[c] # "socks5"
          /\ Close("http")
      BY <1>2 DEF Socks5Drained, Connected
    <2>2. listens = {"http"}
      BY <2>1 DEF PInv, ListensInStage
    <2>3. /\ listens' = listens \ {"http"} /\ exit' = exit
          /\ stage' = "drainingHttp"
      BY <2>1, <2>2
    <2> QED
      BY <2>1, <2>2, <2>3, CloseStep
  <1> QED
    BY <1>1, <1>2

LEMMA NextPInv == PInv /\ [ProcessNext]_processVars => PInv'
  <1> SUFFICES ASSUME PInv, [ProcessNext]_processVars PROVE PInv'
    OBVIOUS
  <1> USE DEF PInv, ProcessTypeOK, Stages, Exits, Listeners, Alive,
              ListensInStage, HeldIsAwaited, ZeroIsClean
  <1>1. CASE UNCHANGED processVars
    <2>1. UNCHANGED <<socks5, stage, exit, listens, via>>
      BY <1>1 DEF processVars
    <2> QED
      BY <2>1
  <1>2. CASE Fails \/ Kill \/ Timeout
    <2>1. /\ exit' = "failed" \/ exit' = "killed" \/ exit' = "forced"
          /\ UNCHANGED <<socks5, stage, listens, via>>
      BY <1>2 DEF Fails, Kill, Timeout
    <2> QED
      BY <2>1
  <1>3. CASE Load
    BY <1>3 DEF Load
  <1>4. CASE OpenHttp
    <2>1. /\ exit = "none" /\ stage = "openingHttp" /\ listens' = {"http"}
          /\ stage' = IF socks5 THEN "openingSocks5" ELSE "up"
          /\ UNCHANGED <<socks5, exit, via>>
      BY <1>4 DEF OpenHttp
    <2>2. \A c \in Peers : via[c] = "none"
      BY <2>1
    <2> QED
      BY <2>1, <2>2
  <1>5. CASE OpenSocks5
    <2>1. /\ exit = "none" /\ stage = "openingSocks5" /\ stage' = "up"
          /\ listens = {"http"} /\ listens' = {"http", "socks5"}
          /\ UNCHANGED <<socks5, exit, via>>
      BY <1>5 DEF OpenSocks5
    <2> QED
      BY <2>1
  <1>6. CASE Signal \/ Socks5Drained
    BY <1>6, ShutdownStep
  <1>7. CASE HttpDrained
    <2>1. /\ exit' = "zero" /\ stage = "drainingHttp" /\ listens = {}
          /\ \A c \in Peers : via[c] # "http" /\ via[c] # "socks5"
          /\ UNCHANGED <<socks5, stage, listens, via>>
      BY <1>7 DEF HttpDrained, Connected
    <2>2. \A c \in Peers : via[c] = "none"
      BY <2>1
    <2> QED
      BY <2>1, <2>2
  <1>8. ASSUME NEW c \in Peers, NEW l \in {"http", "socks5"}, Join(c, l)
        PROVE  PInv'
    <2>1. /\ l \in listens /\ exit = "none"
          /\ via' = [via EXCEPT ![c] = l]
          /\ UNCHANGED <<socks5, stage, exit, listens>>
      BY <1>8 DEF Join
    <2> QED
      BY <2>1
  <1>9. ASSUME NEW c \in Peers, Disconnect(c)
        PROVE  PInv'
    <2>1. /\ exit = "none" /\ via' = [via EXCEPT ![c] = "none"]
          /\ UNCHANGED <<socks5, stage, exit, listens>>
      BY <1>9 DEF Disconnect
    <2> QED
      BY <2>1
  <1> QED
    BY <1>1, <1>2, <1>3, <1>4, <1>5, <1>6, <1>7, <1>8, <1>9 DEF ProcessNext

\* The invariant of the process holds in every state of it.
THEOREM ProcessInvariance == ProcessSpec => []PInv
  BY InitPInv, NextPInv, PTL DEF ProcessSpec

\* Type correctness of the process, which ties its stage to what is open and to
\* whether it has exited.
THEOREM ProcessTypeCorrect == ProcessSpec => []ProcessTypeOK
  <1>1. PInv => ProcessTypeOK
    BY DEF PInv
  <1> QED
    BY <1>1, ProcessInvariance, PTL

\* An exit with code 0 cuts nobody off, for any number of clients: no close of
\* shutdown rejects, though its finally would hide that, and each listener is
\* closed before its last connection is waited for (index.ts, shutdown).
THEOREM ZeroCutsNobodyOff == ProcessSpec => []ZeroIsClean
  <1>1. PInv => ZeroIsClean
    BY DEF PInv
  <1> QED
    BY <1>1, ProcessInvariance, PTL

=============================================================================
