------------------------- MODULE HttpExchangeProofs -------------------------
(***************************************************************************)
(* For every set of relays of any kinds and bodies of any length: whom a   *)
(* request blames, what the retries leave of its body, and that            *)
(* HttpExchange implements ClientAnswer.                                   *)
(***************************************************************************)
EXTENDS HttpExchange, TLAPS

\* A relay that was sent nothing of the request.
Unmet(h) == link[h] \in {"none", "opening", "refused"}

\* What the client was told goes with where the handler is, and with the pipes.
Told ==
    /\ status = "none" => heard = {}
    /\ state = "new" => status = "none"
    /\ state \in {"trying", "serving"} => current \in Relays
    /\ state = "serving" => link[current] \in {"piping", "closed"}
    /\ \A h \in Relays : link[h] = "piping" => h \in heard

\* A healthy relay may be blamed now; and once a response was begun that is so.
Excused == client # "here" \/ heard \cap broke # {}
Blamed ==
    /\ \A h \in blamed \ broke : Helpless(h) \/ Excused
    /\ state = "trying" /\ status # "none" => Excused
    /\ \A h \in blamed : link[h] \in {"refused", "closed"}

\* Only relays that were met have a loop or chunks of the body; nothing is read
\* before one is; and the only one that is has all that was read.
Body ==
    /\ \A h \in Relays : Unmet(h) => h \notin loops /\ got[h] = {}
    /\ (\A h \in Relays : Unmet(h)) => read = 0
    /\ \A h \in Relays :
           ( /\ link[h] \in {"asked", "piping"}
             /\ KindOf[h] # "plain"
             /\ \A o \in Relays \ {h} : Unmet(o) )
           => got[h] = 1..read

IInv == TypeOK /\ Told /\ Blamed /\ Body

\* The steps, each of which is one of the answer or none of it.
Answered == Answer!Next \/ UNCHANGED Answer!answerVars

-----------------------------------------------------------------------------

\* What a round of the loop in tryRelays leaves, when links are the connections
\* before it.
LEMMA ContinueStep ==
    ASSUME TypeOK, NEW links \in [Relays -> Links], Continue(links)
    PROVE  /\ link' \in [Relays -> Links]
           /\ current' \in Relays \cup {NONE}
           /\ \A h \in Relays : \/ link'[h] = links[h]
                                \/ links[h] = "none" /\ link'[h] = "opening"
           /\ \/ state' = "trying" /\ current' \in Relays /\ UNCHANGED answerVars
              \/ state' \in {"empty", "failed"} /\ UNCHANGED answerVars
              \/ /\ state' = "failed" /\ status = "none"
                 /\ status' = "error" /\ over' = TRUE /\ heard' = heard
  <1>1. CASE \E h \in Relays :
                 /\ links[h] = "none"
                 /\ link' = [links EXCEPT ![h] = "opening"]
                 /\ current' = h
                 /\ state' = "trying"
                 /\ UNCHANGED answerVars
    BY <1>1 DEF Links
  <1>2. CASE link' = links /\ GiveUp
    BY <1>2 DEF GiveUp, TypeOK
  <1> QED
    BY <1>1, <1>2 DEF Continue

\* Steps that take nothing from the client, and after which no other relay is
\* met or asked.
LEMMA BodyStep ==
    ASSUME IInv, UNCHANGED <<read, got>>, loops' \subseteq loops,
           \A h \in Relays : Unmet(h)' => Unmet(h),
           \A h \in Relays : link'[h] \in {"asked", "piping"} =>
                                 link[h] \in {"asked", "piping"}
    PROVE  Body'
  <1>1. \A h \in Relays : Unmet(h)' => h \notin loops' /\ got'[h] = {}
    BY DEF IInv, Body
  <1>2. (\A h \in Relays : Unmet(h)') => read' = 0
    BY DEF IInv, Body
  <1>3. ASSUME NEW h \in Relays, link'[h] \in {"asked", "piping"},
               KindOf[h] # "plain", \A o \in Relays \ {h} : Unmet(o)'
        PROVE  got'[h] = 1..read'
    BY <1>3 DEF IInv, Body
  <1> QED
    BY <1>1, <1>2, <1>3 DEF Body

\* Whoever could not help its failure still cannot say that it had its part: its
\* connection is over, and it is sent no more.
LEMMA StillHelpless ==
    ASSUME IInv, UNCHANGED <<size, amiss>>, 1..read \subseteq 1..read',
           NEW h \in blamed, link'[h] = link[h], got'[h] = got[h], Helpless(h)
    PROVE  Helpless(h)'
  <1>1. link[h] \in {"refused", "closed"}
    BY DEF IInv, Blamed
  <1>2. Withheld(h) => Withheld(h)'
    BY DEF Withheld
  <1> QED
    BY <1>1, <1>2 DEF Helpless

\* Connections of those who were blamed are not among those that go on.
LEMMA BlamedAreOver ==
    ASSUME IInv, NEW h, link[h] \in {"none", "opening", "asked", "piping"}
    PROVE  h \notin blamed
  BY DEF IInv, Blamed

\* Steps that blame nobody and have to do with none of those who were blamed.
LEMMA BlamedStep ==
    ASSUME IInv, UNCHANGED <<size, amiss, blamed>>, 1..read \subseteq 1..read',
           \A h \in blamed : link'[h] = link[h] /\ got'[h] = got[h],
           Excused => Excused', broke \subseteq broke',
           state' = "trying" /\ status' # "none" =>
               state = "trying" /\ status # "none"
    PROVE  Blamed'
  <1>1. ASSUME NEW h \in blamed', h \notin broke'
        PROVE  Helpless(h)' \/ Excused'
    <2>1. Helpless(h) \/ Excused
      BY <1>1 DEF IInv, Blamed
    <2> QED
      BY <1>1, <2>1, StillHelpless
  <1>2. state' = "trying" /\ status' # "none" => Excused'
    BY DEF IInv, Blamed
  <1>3. \A h \in blamed' : link'[h] \in {"refused", "closed"}
    BY DEF IInv, Blamed
  <1> QED
    BY <1>1, <1>2, <1>3 DEF Blamed

\* The present attempt rejects, for a fault of its relay, or excused.
LEMMA FailStep ==
    ASSUME IInv, state \in {"trying", "serving"}, Fail,
           UNCHANGED <<size, amiss, read, got>>, loops' \subseteq loops,
           client' \in {"here", "gone", "cut"},
           broke \subseteq broke', broke' \subseteq Relays,
           client # "here" => client' # "here",
           \/ current \in broke' \/ client' # "here" \/ heard \cap broke' # {}
           \/ link[current] \in {"opening", "asked"} /\ Helpless(current),
           state = "serving" \/ status # "none" =>
               client' # "here" \/ heard \cap broke' # {}
    PROVE  IInv' /\ Answered
  <1>1. current \in Relays /\ blamed' = blamed \cup {current}
    BY DEF IInv, Told, Fail
  <1>2. /\ Closed(current) \in [Relays -> Links]
        /\ \A h \in Relays :
               \/ Closed(current)[h] = link[h] /\ h # current
               \/ /\ h = current
                  /\ \/ link[h] = "opening" /\ Closed(current)[h] = "refused"
                     \/ Closed(current)[h] = "closed"
    BY <1>1 DEF IInv, TypeOK, Closed, Links
  <1>3. /\ link' \in [Relays -> Links]
        /\ current' \in Relays \cup {NONE}
        /\ \A h \in Relays :
               \/ link'[h] = Closed(current)[h]
               \/ Closed(current)[h] = "none" /\ link'[h] = "opening"
        /\ \/ state' = "trying" /\ current' \in Relays /\ UNCHANGED answerVars
           \/ state' \in {"empty", "failed"} /\ UNCHANGED answerVars
           \/ /\ state' = "failed" /\ status = "none"
              /\ status' = "error" /\ over' = TRUE /\ heard' = heard
    BY <1>2, ContinueStep DEF IInv, Fail
  <1>4. TypeOK'
    BY <1>1, <1>3 DEF IInv, TypeOK, States, answerVars
  <1>5. \A h \in Relays : /\ Unmet(h)' => Unmet(h)
                          /\ link'[h] \in {"asked", "piping"} =>
                                 link'[h] = link[h]
    BY <1>2, <1>3 DEF Unmet
  <1>6. heard' = heard
    BY <1>3 DEF answerVars
  <1>7. Told'
    BY <1>3, <1>5, <1>6 DEF IInv, Told, answerVars
  <1>8. Blamed'
    <2>1. \A h \in blamed' : link'[h] \in {"refused", "closed"}
      BY <1>1, <1>2, <1>3 DEF IInv, TypeOK, Blamed
    <2>2. state' = "trying" /\ status' # "none" => Excused'
      BY <1>3, <1>6 DEF IInv, Blamed, Excused, answerVars
    <2>3. ASSUME NEW h \in blamed, h # current, h \notin broke', ~Excused'
          PROVE  Helpless(h)'
      <3>1. Helpless(h) /\ link[h] \in {"refused", "closed"}
        BY <1>6, <2>3 DEF IInv, Blamed, Excused
      <3>2. link'[h] = link[h] /\ h \in Relays
        BY <1>1, <1>2, <1>3, <2>3, <3>1 DEF IInv, TypeOK
      <3> QED
        BY <3>1, <3>2, StillHelpless
    <2>4. ASSUME NEW h \in blamed', h = current, h \notin broke', ~Excused'
          PROVE  Helpless(h)'
      <3>1. link[h] \in {"opening", "asked"} /\ Helpless(h)
        BY <1>6, <2>4 DEF Excused
      <3>2. link[h] = "asked" => link'[h] = "closed"
        BY <1>1, <1>3, <2>4 DEF Closed, IInv, TypeOK
      <3> QED
        BY <3>1, <3>2 DEF Helpless, Withheld
    <2> QED
      BY <1>1, <2>1, <2>2, <2>3, <2>4 DEF Blamed
  <1>9. Body'
    BY <1>5, BodyStep
  <1>10. Answered
    BY <1>3 DEF Answered, Answer!Next, Answer!Refuse, Answer!answerVars, answerVars
  <1> QED
    BY <1>4, <1>7, <1>8, <1>9, <1>10 DEF IInv

\* Nothing but connections, loops and the client's leaving.
LEMMA NothingElseStep ==
    ASSUME IInv, NothingElse, TypeOK', UNCHANGED <<size, amiss>>, Body',
           1..read \subseteq 1..read',
           \A h \in blamed : link'[h] = link[h] /\ got'[h] = got[h],
           broke \subseteq broke', client # "here" => client' # "here",
           \A h \in Relays : link'[h] = "piping" => link[h] = "piping",
           state = "serving" => link'[current] \in {"piping", "closed"}
    PROVE  IInv' /\ Answered
  <1>1. UNCHANGED <<state, current, status, heard, over, blamed>>
    BY DEF NothingElse, answerVars
  <1>2. Told'
    BY <1>1 DEF IInv, Told
  <1>3. Excused => Excused'
    BY <1>1 DEF Excused
  <1>4. Blamed'
    BY <1>1, <1>3, BlamedStep
  <1>5. Answered
    BY <1>1 DEF Answered, Answer!answerVars
  <1> QED
    BY <1>2, <1>4, <1>5 DEF IInv

-----------------------------------------------------------------------------

LEMMA RefuseStep ==
    ASSUME IInv, Refuse
    PROVE  IInv' /\ Answered
  <1>1. /\ state = "new" /\ status = "none" /\ state' = "refused"
        /\ status' = "error" /\ over' = TRUE
        /\ UNCHANGED <<size, amiss, current, link, loops, read, got, heard, client,
                       broke, blamed>>
    BY DEF Refuse, bodyVars, IInv, Told
  <1>2. TypeOK' /\ Told'
    BY <1>1 DEF IInv, TypeOK, States, Told
  <1>3. Blamed'
    BY <1>1, BlamedStep DEF Excused
  <1>4. Body'
    BY <1>1 DEF IInv, Body, Unmet
  <1>5. Answered
    BY <1>1 DEF Answered, Answer!Next, Answer!Refuse
  <1> QED
    BY <1>2, <1>3, <1>4, <1>5 DEF IInv

LEMMA BeginStep ==
    ASSUME IInv, Begin
    PROVE  IInv' /\ Answered
  <1>1. /\ state = "new" /\ status = "none" /\ Continue(link)
        /\ UNCHANGED <<size, amiss, loops, read, got, client, broke, blamed>>
    BY DEF Begin, bodyVars, IInv, Told
  <1>2. /\ link' \in [Relays -> Links]
        /\ current' \in Relays \cup {NONE}
        /\ \A h \in Relays : \/ link'[h] = link[h]
                             \/ link[h] = "none" /\ link'[h] = "opening"
        /\ \/ state' = "trying" /\ current' \in Relays /\ UNCHANGED answerVars
           \/ state' \in {"empty", "failed"} /\ UNCHANGED answerVars
           \/ /\ state' = "failed" /\ status = "none"
              /\ status' = "error" /\ over' = TRUE /\ heard' = heard
    BY <1>1, ContinueStep DEF IInv, TypeOK
  <1>3. TypeOK'
    BY <1>1, <1>2 DEF IInv, TypeOK, States, answerVars
  <1>4. Told' /\ Blamed'
    <2>1. Told'
      BY <1>1, <1>2 DEF IInv, Told, answerVars
    <2>2. \A h \in blamed : link'[h] = link[h]
      BY <1>2, BlamedAreOver DEF IInv, TypeOK
    <2>3. (Excused => Excused') /\ ~(state' = "trying" /\ status' # "none")
      BY <1>1, <1>2 DEF Excused, answerVars
    <2> QED
      BY <1>1, <2>1, <2>2, <2>3, BlamedStep
  <1>5. Body'
    BY <1>1, <1>2, BodyStep DEF Unmet
  <1>6. Answered
    BY <1>2 DEF Answered, Answer!Next, Answer!Refuse, Answer!answerVars, answerVars
  <1> QED
    BY <1>3, <1>4, <1>5, <1>6 DEF IInv

LEMMA ConnectsStep ==
    ASSUME IInv, NEW h \in Relays, Connects(h)
    PROVE  IInv' /\ Answered
  <1>1. /\ Attempting(h) /\ link[h] = "opening"
        /\ link' = [link EXCEPT ![h] = "asked"]
        /\ loops \subseteq loops' /\ loops' \subseteq loops \cup {h}
        /\ UNCHANGED <<size, amiss, read, got, client, broke>> /\ NothingElse
    BY DEF Connects
  <1>2. TypeOK'
    BY <1>1 DEF IInv, TypeOK, Links, NothingElse, answerVars
  <1>3. /\ link'[h] = "asked"
        /\ \A o \in Relays \ {h} : link'[o] = link[o]
    BY <1>1 DEF IInv, TypeOK
  <1>4. Unmet(h) /\ ~Unmet(h)' /\ \A o \in Relays \ {h} : Unmet(o)' <=> Unmet(o)
    BY <1>1, <1>3 DEF Unmet
  <1>5. \A o \in Relays : Unmet(o)' => o \notin loops' /\ got'[o] = {}
    BY <1>1, <1>4 DEF IInv, Body
  <1>6. ASSUME NEW o \in Relays, link'[o] \in {"asked", "piping"},
               KindOf[o] # "plain", \A p \in Relays \ {o} : Unmet(p)'
        PROVE  got'[o] = 1..read'
    <2>1. o = h
      BY <1>4, <1>6
    <2>2. \A p \in Relays : Unmet(p)
      BY <1>4, <1>6, <2>1
    <2>3. read = 0 /\ got[h] = {}
      BY <2>2 DEF IInv, Body
    <2>4. 1..0 = {}
      OBVIOUS
    <2> QED
      BY <1>1, <2>1, <2>3, <2>4
  <1>7. Body'
    BY <1>4, <1>5, <1>6 DEF Body
  <1>8. state = "serving" => link'[current] \in {"piping", "closed"}
    BY <1>1 DEF IInv, Told, Attempting
  <1>9. \A o \in blamed : link'[o] = link[o]
    BY <1>1, <1>3, BlamedAreOver DEF IInv, TypeOK
  <1> QED
    BY <1>1, <1>2, <1>3, <1>7, <1>8, <1>9, NothingElseStep

LEMMA ForwardStep ==
    ASSUME IInv, NEW h \in Relays, Forward(h)
    PROVE  IInv' /\ Answered
  <1>1. /\ h \in loops /\ read < size /\ read' = read + 1
        /\ UNCHANGED <<size, amiss, link, broke>> /\ NothingElse
        /\ client' \in {client, "cut"}
    BY DEF Forward
  <1>2. ~Unmet(h) /\ \A o \in Relays : Unmet(o)' <=> Unmet(o)
    BY <1>1 DEF IInv, Body, Unmet
  <1>3. size \in Nat /\ read \in Nat /\ read + 1 \in 0..size /\ read + 1 \in 1..size
    BY <1>1, RelaysAssumption DEF IInv, TypeOK
  <1>4. CASE link[h] = "closed"
    <2>1. loops' = loops \ {h} /\ got' = got
      BY <1>4 DEF Forward
    <2>2. TypeOK'
      BY <1>1, <1>3, <2>1 DEF IInv, TypeOK, NothingElse, answerVars
    <2>3. Body'
      BY <1>1, <1>2, <1>4, <2>1 DEF IInv, Body
    <2> QED
      BY <1>1, <1>3, <2>1, <2>2, <2>3, NothingElseStep DEF IInv, TypeOK, Told
  <1>5. CASE link[h] # "closed"
    <2>1. /\ loops' = loops /\ client' = client
          /\ got' = [got EXCEPT ![h] = got[h] \cup {read + 1}]
      BY <1>5 DEF Forward
    <2>2. TypeOK'
      BY <1>1, <1>3, <2>1 DEF IInv, TypeOK, NothingElse, answerVars
    <2>3. \A o \in Relays \ {h} : got'[o] = got[o]
      BY <2>1 DEF IInv, TypeOK
    <2>4. \A o \in Relays : Unmet(o)' => o \notin loops' /\ got'[o] = {}
      BY <1>2, <2>1, <2>3 DEF IInv, Body
    <2>5. ASSUME NEW o \in Relays, link'[o] \in {"asked", "piping"},
                 KindOf[o] # "plain", \A p \in Relays \ {o} : Unmet(p)'
          PROVE  got'[o] = 1..read'
      <3>1. o = h
        BY <1>2, <2>5
      <3>2. got[h] = 1..read
        BY <1>1, <1>2, <2>5, <3>1 DEF IInv, Body
      <3>3. got'[h] = (1..read) \cup {read + 1}
        BY <2>1, <3>2 DEF IInv, TypeOK
      <3>4. (1..read) \cup {read + 1} = 1..(read + 1)
        BY <1>3
      <3> QED
        BY <1>1, <3>1, <3>3, <3>4
    <2>6. Body'
      BY <1>2, <2>4, <2>5 DEF Body
    <2>7. h \notin blamed
      BY <1>2, <1>5, BlamedAreOver DEF IInv, TypeOK, Links, Unmet
    <2>8. \A o \in blamed : link'[o] = link[o] /\ got'[o] = got[o]
      BY <1>1, <2>3, <2>7 DEF IInv, TypeOK
    <2>9. 1..read \subseteq 1..read'
      BY <1>1, <1>3
    <2> QED
      BY <1>1, <2>1, <2>2, <2>6, <2>8, <2>9, NothingElseStep DEF IInv, Told
  <1> QED
    BY <1>4, <1>5

LEMMA LoopEndsStep ==
    ASSUME IInv, NEW h \in Relays, LoopEnds(h)
    PROVE  IInv' /\ Answered
  <1>1. /\ loops' = loops \ {h} /\ NothingElse
        /\ UNCHANGED <<size, amiss, link, read, got, client, broke>>
    BY DEF LoopEnds
  <1>2. TypeOK'
    BY <1>1 DEF IInv, TypeOK, NothingElse, answerVars
  <1>3. Body'
    BY <1>1, BodyStep DEF Unmet
  <1> QED
    BY <1>1, <1>2, <1>3, NothingElseStep DEF IInv, Told

LEMMA LoopThrowsStep ==
    ASSUME IInv, NEW h \in Relays, LoopThrows(h)
    PROVE  IInv' /\ Answered
  <1>1. /\ loops' = loops \ {h} /\ client # "here"
        /\ UNCHANGED <<size, amiss, read, got, client, broke>>
    BY DEF LoopThrows, Aborted
  <1>2. CASE Attempting(h)
    BY <1>1, <1>2, FailStep DEF LoopThrows, Attempting, IInv, TypeOK
  <1>3. CASE ~Attempting(h)
    <2>1. UNCHANGED link /\ NothingElse
      BY <1>3 DEF LoopThrows
    <2>2. TypeOK'
      BY <1>1, <2>1 DEF IInv, TypeOK, NothingElse, answerVars
    <2>3. Body'
      BY <1>1, <2>1, BodyStep DEF Unmet
    <2> QED
      BY <1>1, <2>1, <2>2, <2>3, NothingElseStep DEF IInv, Told
  <1> QED
    BY <1>2, <1>3

LEMMA ClientLeavesStep ==
    ASSUME IInv, ClientLeaves
    PROVE  IInv' /\ Answered
  <1>1. /\ client' = "gone" /\ NothingElse
        /\ UNCHANGED <<size, amiss, link, loops, read, got, broke>>
    BY DEF ClientLeaves, bodyVars
  <1>2. TypeOK'
    BY <1>1 DEF IInv, TypeOK, NothingElse, answerVars
  <1>3. Body'
    BY <1>1, BodyStep DEF Unmet
  <1> QED
    BY <1>1, <1>2, <1>3, NothingElseStep DEF IInv, Told

LEMMA HeadArrivesStep ==
    ASSUME IInv, NEW h \in Relays, HeadArrives(h)
    PROVE  IInv' /\ Answered
  <1>1. /\ state = "trying" /\ h = current /\ link[h] = "asked"
        /\ UNCHANGED <<size, amiss, loops, read, got, client, broke>>
    BY DEF HeadArrives, Attempting, bodyVars, IInv, Told
  <1>2. CASE status # "none"
    <2>1. Fail /\ (client # "here" \/ heard \cap broke # {})
      BY <1>1, <1>2 DEF HeadArrives, IInv, Blamed, Excused
    <2> QED
      BY <1>1, <2>1, FailStep DEF IInv, TypeOK
  <1>3. CASE status = "none"
    <2>1. /\ link' = [link EXCEPT ![h] = "piping"]
          /\ state' \in {"served", "serving"}
          /\ status' = "relayed" /\ heard' = {h}
          /\ UNCHANGED <<current, over, blamed>>
      BY <1>3 DEF HeadArrives, IInv, Told
    <2>2. TypeOK'
      BY <1>1, <2>1 DEF IInv, TypeOK, Links, States
    <2>3. \A o \in Relays : o # h => link'[o] = link[o] /\ link[o] # "piping"
      BY <1>3, <2>1 DEF IInv, TypeOK, Told
    <2>4. link'[h] = "piping"
      BY <2>1 DEF IInv, TypeOK
    <2>5. Told'
      BY <1>1, <2>1, <2>3, <2>4 DEF IInv, Told
    <2>6. Blamed'
      <3>1. h \notin blamed
        BY <1>1, BlamedAreOver
      <3>2. \A o \in blamed : link'[o] = link[o]
        BY <2>3, <3>1 DEF IInv, TypeOK
      <3>3. (Excused => Excused') /\ state' # "trying"
        BY <1>1, <1>3, <2>1 DEF IInv, Told, Excused
      <3> QED
        BY <1>1, <2>1, <3>2, <3>3, BlamedStep
    <2>7. Body'
      BY <1>1, <2>3, <2>4, BodyStep DEF Unmet
    <2>8. Answer!Answer(h)
      BY <1>3, <2>1 DEF Answer!Answer, IInv, TypeOK
    <2> QED
      BY <2>2, <2>5, <2>6, <2>7, <2>8 DEF IInv, Answered, Answer!Next
  <1> QED
    BY <1>2, <1>3

LEMMA RelayFailsStep ==
    ASSUME IInv, NEW h \in Relays, RelayFails(h)
    PROVE  IInv' /\ Answered
  <1>1. /\ state = "trying" /\ h = current /\ broke' = broke \cup {h} /\ Fail
        /\ UNCHANGED <<size, amiss, read, got>>
    BY DEF RelayFails, Attempting, IInv, Told
  <1>2. /\ loops' \subseteq loops /\ client' \in {"here", "gone", "cut"}
        /\ client # "here" => client' # "here"
    BY DEF RelayFails, DrainRejects, IInv, TypeOK
  <1>3. status # "none" => client' # "here" \/ heard \cap broke' # {}
    BY <1>1, <1>2 DEF IInv, Blamed, Excused
  <1>4. broke' \subseteq Relays
    BY <1>1 DEF IInv, TypeOK
  <1> QED
    BY <1>1, <1>2, <1>3, <1>4, FailStep

LEMMA OthersFailStep ==
    ASSUME IInv, NEW h \in Relays, OthersFail(h)
    PROVE  IInv' /\ Answered
  <1>1. /\ state = "trying" /\ h = current /\ Helpless(h) /\ Fail
        /\ link[h] \in {"opening", "asked"}
        /\ UNCHANGED <<size, amiss, read, got, broke>>
    BY DEF OthersFail, Attempting, IInv, Told
  <1>2. /\ loops' \subseteq loops /\ client' \in {"here", "gone", "cut"}
        /\ client # "here" => client' # "here"
    BY DEF OthersFail, DrainRejects, IInv, TypeOK
  <1>3. status # "none" => client' # "here" \/ heard \cap broke # {}
    BY <1>1, <1>2 DEF IInv, Blamed, Excused
  <1>4. broke \subseteq Relays
    BY DEF IInv, TypeOK
  <1> QED
    BY <1>1, <1>2, <1>3, <1>4, FailStep

\* A connection that is over takes nothing with it but what was piped.
LEMMA PipeClosed ==
    ASSUME IInv, NEW h \in Relays, link[h] = "piping", link' = Closed(h)
    PROVE  /\ link' \in [Relays -> Links] /\ link'[h] = "closed"
           /\ \A o \in Relays : o # h => link'[o] = link[o]
           /\ \A o \in Relays : Unmet(o)' => Unmet(o)
  <1>1. /\ link' \in [Relays -> Links] /\ link'[h] = "closed"
        /\ \A o \in Relays : o # h => link'[o] = link[o]
    BY DEF Closed, IInv, TypeOK, Links
  <1> QED
    BY <1>1 DEF Unmet

LEMMA ResponseEndsStep ==
    ASSUME IInv, NEW h \in Relays, ResponseEnds(h)
    PROVE  IInv' /\ Answered
  <1>1. /\ link[h] = "piping" /\ link' = Closed(h) /\ over' = TRUE
        /\ state' = IF state = "serving" THEN "served" ELSE state
        /\ UNCHANGED <<size, amiss, current, loops, read, got, status, heard, client,
                       broke, blamed>>
    BY DEF ResponseEnds, bodyVars
  <1>2. /\ link' \in [Relays -> Links] /\ link'[h] = "closed"
        /\ \A o \in Relays : o # h => link'[o] = link[o]
        /\ \A o \in Relays : Unmet(o)' => Unmet(o)
    BY <1>1, PipeClosed
  <1>3. TypeOK'
    BY <1>1, <1>2 DEF IInv, TypeOK, States
  <1>4. Told' /\ Blamed'
    <2>1. Told'
      BY <1>1, <1>2 DEF IInv, Told
    <2>2. \A o \in blamed : link'[o] = link[o]
      BY <1>1, <1>2, BlamedAreOver DEF IInv, TypeOK
    <2>3. Excused => Excused'
      BY <1>1 DEF Excused
    <2> QED
      BY <1>1, <2>1, <2>2, <2>3, BlamedStep
  <1>5. Body'
    BY <1>1, <1>2, BodyStep
  <1>6. Answered
    BY <1>1 DEF Answered, Answer!Next, Answer!Finish, Answer!answerVars, IInv, TypeOK
  <1> QED
    BY <1>3, <1>4, <1>5, <1>6 DEF IInv

LEMMA BrokenOff ==
    ASSUME IInv, NEW h \in Relays, link[h] = "piping", link' = Closed(h),
           broke' = broke \cup {h}, DrainRejects(h), NothingElse,
           UNCHANGED <<size, amiss, read, got>>
    PROVE  IInv' /\ Answered
  <1>1. /\ link' \in [Relays -> Links] /\ link'[h] = "closed"
        /\ \A o \in Relays : o # h => link'[o] = link[o]
        /\ \A o \in Relays : Unmet(o)' => Unmet(o)
    BY PipeClosed
  <1>2. /\ loops' \subseteq loops /\ client' \in {"here", "gone", "cut"}
        /\ client # "here" => client' # "here"
    BY DEF DrainRejects, IInv, TypeOK
  <1>3. TypeOK'
    BY <1>1, <1>2 DEF IInv, TypeOK, NothingElse, answerVars
  <1>4. Body'
    BY <1>1, <1>2, BodyStep
  <1>5. state = "serving" => link'[current] \in {"piping", "closed"}
    BY <1>1 DEF IInv, Told
  <1>6. \A o \in blamed : link'[o] = link[o]
    BY <1>1, BlamedAreOver DEF IInv, TypeOK
  <1> QED
    BY <1>1, <1>2, <1>3, <1>4, <1>5, <1>6, NothingElseStep

LEMMA BreaksStep ==
    ASSUME IInv, NEW h \in Relays, Breaks(h)
    PROVE  IInv' /\ Answered
  <1>1. /\ link[h] = "piping" /\ broke' = broke \cup {h} /\ DrainRejects(h)
        /\ UNCHANGED <<size, amiss, read, got>>
    BY DEF Breaks
  <1>2. CASE state = "serving"
    <2>1. /\ loops' \subseteq loops /\ client' \in {"here", "gone", "cut"}
          /\ client # "here" => client' # "here"
      BY <1>1 DEF DrainRejects, IInv, TypeOK
    <2>2. heard \cap broke' # {} /\ broke' \subseteq Relays
      BY <1>1 DEF IInv, Told, TypeOK
    <2> QED
      BY <1>1, <1>2, <2>1, <2>2, FailStep DEF Breaks
  <1>3. CASE state # "serving"
    BY <1>1, <1>3, BrokenOff DEF Breaks
  <1> QED
    BY <1>2, <1>3

LEMMA IdleTimeoutStep ==
    ASSUME IInv, NEW h \in Relays, IdleTimeout(h)
    PROVE  IInv' /\ Answered
  BY BrokenOff DEF IdleTimeout

LEMMA NextStep ==
    ASSUME IInv, [Next]_vars
    PROVE  IInv' /\ Answered
  <1>1. CASE Refuse \/ Begin \/ ClientLeaves
    BY <1>1, RefuseStep, BeginStep, ClientLeavesStep
  <1>2. ASSUME NEW h \in Relays,
               Connects(h) \/ Forward(h) \/ LoopEnds(h) \/ LoopThrows(h)
        PROVE  IInv' /\ Answered
    BY <1>2, ConnectsStep, ForwardStep, LoopEndsStep, LoopThrowsStep
  <1>3. ASSUME NEW h \in Relays,
               HeadArrives(h) \/ RelayFails(h) \/ OthersFail(h)
                 \/ ResponseEnds(h) \/ Breaks(h) \/ IdleTimeout(h)
        PROVE  IInv' /\ Answered
    BY <1>3, HeadArrivesStep, RelayFailsStep, OthersFailStep, ResponseEndsStep,
       BreaksStep, IdleTimeoutStep
  <1>4. CASE UNCHANGED vars
    <2>1. TypeOK' /\ Told'
      BY <1>4 DEF vars, IInv, TypeOK, Told
    <2>2. Blamed'
      BY <1>4, BlamedStep DEF vars, Excused
    <2>3. Body'
      BY <1>4 DEF vars, IInv, Body, Unmet
    <2> QED
      BY <1>4, <2>1, <2>2, <2>3 DEF vars, IInv, Answered, Answer!answerVars
  <1> QED
    BY <1>1, <1>2, <1>3, <1>4 DEF Next

LEMMA InitHolds == Init => IInv /\ Answer!Init
  <1> SUFFICES ASSUME Init PROVE IInv /\ Answer!Init
    OBVIOUS
  <1>1. TypeOK
    <2>1. size \in Sizes /\ size \in Nat
      BY RelaysAssumption DEF Init
    <2>2. read \in 0..size
      BY <2>1 DEF Init
    <2>3. link \in [Relays -> Links] /\ got \in [Relays -> SUBSET (1..size)]
      BY DEF Init, Links
    <2> QED
      BY <2>1, <2>2, <2>3 DEF Init, TypeOK, States
  <1>2. Told /\ Blamed /\ Body
    BY DEF Init, Told, Blamed, Body, Unmet
  <1>3. Answer!Init
    BY DEF Init, Answer!Init
  <1> QED
    BY <1>1, <1>2, <1>3 DEF IInv

-----------------------------------------------------------------------------

\* The inductive invariant.
THEOREM Invariance == Spec => []IInv
  <1>1. Init => IInv
    BY InitHolds
  <1>2. IInv /\ [Next]_vars => IInv'
    BY NextStep
  <1> QED
    BY <1>1, <1>2, PTL DEF Spec

\* Every variable keeps its type.
THEOREM TypeCorrect == Spec => []TypeOK
  <1>1. IInv => TypeOK
    BY DEF IInv
  <1> QED
    BY <1>1, Invariance, PTL

\* A relay whose connection did not fail is blamed only for the causes that
\* HealthyBlamed names, for any number of relays and retries, a body of any length
\* and whatever is amiss.
THEOREM BlameHasACause == Spec => []HealthyBlamed
  <1>1. IInv => HealthyBlamed
    BY DEF IInv, Blamed, Excused, HealthyBlamed
  <1> QED
    BY <1>1, Invariance, PTL

\* Relays that cannot be reached cost nothing of a body of any length.
THEOREM RetriesKeepTheBody == Spec => []BodyKept
  <1>1. IInv => BodyKept
    BY DEF IInv, Body, Unmet, BodyKept
  <1> QED
    BY <1>1, Invariance, PTL

\* An exchange implements ClientAnswer: there is one answer, whatever the relays,
\* the client and the loops over its body do.
THEOREM ExchangeImplementsAnswer == Spec => AnswerSpec
  <1>1. Init => Answer!Init
    BY InitHolds
  <1>2. IInv /\ [Next]_vars => [Answer!Next]_(Answer!answerVars)
    BY NextStep DEF Answered
  <1> QED
    BY <1>1, <1>2, Invariance, PTL DEF Spec, AnswerSpec, Answer!Spec

=============================================================================
