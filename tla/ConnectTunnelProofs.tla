------------------------- MODULE ConnectTunnelProofs -------------------------
(***************************************************************************)
(* For every set of relays: what a leaving client costs is bounded, and    *)
(* ConnectTunnel implements ClientAnswer.                                  *)
(***************************************************************************)
EXTENDS ConnectTunnel, FiniteSetTheorems, TLAPS

\* What is told to the client, and what is piped to it, goes with where the
\* handler is.
Told ==
    /\ state \in {"new", "trying", "empty"} =>
           status = "none" /\ out = "open" /\ piped = NONE
    /\ state \in {"failed", "refused"} =>
           status = "error" /\ out = "destroyed" /\ piped = NONE
    /\ state \in {"tunnel", "served"} => status = "relayed" /\ piped \in Relays
    /\ state = "tunnel" => out = "open"
    /\ state = "trying" => current \in Relays

\* A relay is blamed without a fault only by the one step that takes notice of
\* the client's end.
BlamedOnce ==
    /\ client # "ended" => blamed \subseteq broke
    /\ \A g, h \in blamed \ broke : g = h

\* And only that step leaves a connection astray.
StrayOnce ==
    /\ client # "ended" => \A h \in Relays : ~Stray(h)
    /\ \A g, h \in Relays : Stray(g) /\ Stray(h) => g = h

IInv == TypeOK /\ Told /\ BlamedOnce /\ StrayOnce

\* What a round of the loop in tryRelays leaves.
LEMMA ContinueStep ==
    ASSUME TypeOK, NEW links \in [Relays -> Links], Continue(links)
    PROVE  /\ link' \in [Relays -> Links]
           /\ current' \in Relays \cup {NONE}
           /\ \/ /\ state' = "trying" /\ current' \in Relays
                 /\ UNCHANGED <<status, out>>
                 /\ link' = [links EXCEPT ![current'] = "opening"]
              \/ /\ state' = "empty" /\ link' = links
                 /\ UNCHANGED <<status, out>>
                 /\ current = NONE /\ current' = NONE
              \/ /\ state' = "failed" /\ link' = links
                 /\ status' = "error" /\ out' = "destroyed"
                 /\ current # NONE /\ current' = current
  <1>1. CASE \E h \in Relays :
                 /\ link' = [links EXCEPT ![h] = "opening"]
                 /\ current' = h
                 /\ state' = "trying"
                 /\ UNCHANGED <<status, out>>
    BY <1>1 DEF Links
  <1>2. CASE link' = links /\ UNCHANGED current
    BY <1>2 DEF Continue, SendError, TypeOK
  <1> QED
    BY <1>1, <1>2 DEF Continue

\* The steps, each of which is one of the answer or none of it.
Answered == Answer!Next \/ UNCHANGED Answer!answerVars

LEMMA RefuseStep ==
    ASSUME IInv, Refuse
    PROVE  IInv' /\ Answered
  <1>1. TypeOK' /\ Told'
    BY DEF IInv, TypeOK, Told, Refuse, SendError, States
  <1>2. BlamedOnce' /\ StrayOnce'
    BY DEF IInv, BlamedOnce, StrayOnce, Stray, Awaited, Refuse
  <1>3. Answer!Refuse
    BY DEF IInv, Told, Refuse, SendError, Answer!Refuse
  <1> QED
    BY <1>1, <1>2, <1>3 DEF IInv, Answered, Answer!Next

LEMMA BeginStep ==
    ASSUME IInv, Begin
    PROVE  IInv' /\ Answered
  <1>1. /\ link' \in [Relays -> Links]
        /\ current' \in Relays \cup {NONE}
        /\ \/ /\ state' = "trying" /\ current' \in Relays
              /\ UNCHANGED <<status, out>>
              /\ link' = [link EXCEPT ![current'] = "opening"]
           \/ /\ state' = "empty" /\ link' = link
              /\ UNCHANGED <<status, out>>
              /\ current' = NONE
    <2>1. current = NONE
      BY DEF IInv, TypeOK, Begin
    <2> QED
      BY <2>1, ContinueStep DEF IInv, TypeOK, Begin
  <1>2. TypeOK' /\ Told'
    <2>1. piped' = NONE /\ status = "none" /\ out = "open"
      BY DEF IInv, Told, Begin
    <2>2. current' = NONE <=> state' \in {"new", "refused", "empty"}
      BY <1>1, RelaysAssumption
    <2>3. UNCHANGED <<request, client, broke, blamed>>
      BY DEF Begin
    <2> QED
      BY <1>1, <2>1, <2>2, <2>3 DEF IInv, TypeOK, Told, States
  <1>3. BlamedOnce'
    BY DEF IInv, BlamedOnce, Begin
  <1>4. \A h \in Relays : Stray(h)' => Stray(h)
    BY <1>1 DEF IInv, TypeOK, Stray, Awaited, Begin
  <1>5. StrayOnce'
    BY <1>4 DEF IInv, StrayOnce, Begin
  <1>6. Answered
    BY <1>1 DEF IInv, Told, Begin, Answered, Answer!Next, Answer!Refuse,
                Answer!answerVars
  <1> QED
    BY <1>2, <1>3, <1>5, <1>6 DEF IInv

\* An attempt that fails, when links are the connections it leaves.
LEMMA FailStep ==
    ASSUME IInv, NEW links \in [Relays -> Links], state = "trying", Fail(links),
           request' = request, client' \in {"here", "leaving", "ended"},
           broke' \in SUBSET Relays
    PROVE  /\ TypeOK' /\ Told' /\ Answered
           /\ blamed' = blamed \cup {current}
           /\ \A h \in Relays : links[h] \in {"opening", "open"} \/ ~Stray(h)'
           /\ piped' = NONE
  <1>1. current \in Relays /\ piped = NONE /\ status = "none" /\ out = "open"
    BY DEF IInv, Told
  <1>2. current # NONE
    BY <1>1, RelaysAssumption
  <1>3. /\ link' \in [Relays -> Links]
        /\ current' \in Relays
        /\ \/ /\ state' = "trying"
              /\ UNCHANGED <<status, out>>
              /\ link' = [links EXCEPT ![current'] = "opening"]
           \/ /\ state' = "failed" /\ link' = links
              /\ status' = "error" /\ out' = "destroyed"
    BY <1>1, <1>2, ContinueStep DEF IInv, Fail
  <1>4. blamed' = blamed \cup {current} /\ piped' = NONE
    BY <1>1 DEF Fail
  <1>5. TypeOK' /\ Told'
    <2>1. current' # NONE /\ state' \in {"trying", "failed"}
      BY <1>3, RelaysAssumption
    <2> QED
      BY <1>1, <1>3, <1>4, <2>1 DEF IInv, TypeOK, Told, States
  <1>6. Answered
    BY <1>1, <1>3, <1>4
       DEF Answered, Answer!Next, Answer!Refuse, Answer!answerVars
  <1>7. \A h \in Relays : links[h] \in {"opening", "open"} \/ ~Stray(h)'
    BY <1>3 DEF Stray, Awaited
  <1> QED
    BY <1>4, <1>5, <1>6, <1>7

LEMMA OpensStep ==
    ASSUME IInv, NEW h \in Relays, Opens(h)
    PROVE  IInv' /\ Answered
  <1>1. link' \in [Relays -> Links]
    BY DEF IInv, TypeOK, Opens, Links
  <1>2. TypeOK' /\ Told'
    BY <1>1 DEF IInv, TypeOK, Told, Opens, Awaited, States
  <1>3. BlamedOnce'
    BY DEF IInv, BlamedOnce, Opens
  <1>4. \A g \in Relays : Stray(g)' => Stray(g)
    <2>1. CASE Awaited(h)
      <3>1. piped = NONE /\ piped' = h /\ h = current
        BY <2>1 DEF IInv, Told, Opens, Awaited
      <3>2. \A g \in Relays : g # h => link'[g] = link[g] /\ ~Awaited(g)
        BY <2>1 DEF IInv, TypeOK, Opens, Awaited
      <3> QED
        BY <3>1, <3>2, RelaysAssumption DEF Stray
    <2>2. CASE ~Awaited(h)
      BY <2>2 DEF IInv, TypeOK, Stray, Awaited, Opens
    <2> QED
      BY <2>1, <2>2
  <1>5. StrayOnce'
    BY <1>4 DEF IInv, StrayOnce, Opens
  <1>6. Answered
    <2>1. CASE Awaited(h)
      <3>1. status = "none" /\ piped' = h /\ status' = "relayed" /\ UNCHANGED out
        BY <2>1 DEF IInv, Told, Opens, Awaited
      <3>2. h # NONE
        BY RelaysAssumption
      <3>3. Answer!Answer(h)
        BY <3>1, <3>2 DEF Answer!Answer
      <3> QED
        BY <3>3 DEF Answered, Answer!Next
    <2>2. CASE ~Awaited(h)
      BY <2>2 DEF Opens, Answered, Answer!answerVars
    <2> QED
      BY <2>1, <2>2
  <1> QED
    BY <1>2, <1>3, <1>5, <1>6 DEF IInv

LEMMA DoesNotOpenStep ==
    ASSUME IInv, NEW h \in Relays, DoesNotOpen(h)
    PROVE  IInv' /\ Answered
  <1> DEFINE links == [link EXCEPT ![h] = "closed"]
  <1>1. links \in [Relays -> Links] /\ broke' \in SUBSET Relays
    BY DEF IInv, TypeOK, DoesNotOpen, Links
  <1>2. CASE Awaited(h)
    <2>1. state = "trying" /\ h = current /\ Fail(links)
      BY <1>2 DEF DoesNotOpen, Awaited
    <2>2. /\ request' = request /\ client' = client
          /\ client \in {"here", "leaving", "ended"}
      BY DEF IInv, TypeOK, DoesNotOpen
    <2>3. /\ TypeOK' /\ Told' /\ Answered
          /\ blamed' = blamed \cup {current}
          /\ \A g \in Relays : links[g] \in {"opening", "open"} \/ ~Stray(g)'
          /\ piped' = NONE
      BY <1>1, <2>1, <2>2, FailStep
    <2>4. BlamedOnce'
      BY <2>1, <2>2, <2>3 DEF IInv, BlamedOnce, DoesNotOpen
    <2>5. \A g \in Relays : Stray(g)' => Stray(g)
      BY <2>1, <2>3 DEF IInv, TypeOK, Told, Stray, Awaited
    <2>6. StrayOnce'
      BY <2>2, <2>5 DEF IInv, StrayOnce
    <2> QED
      BY <2>3, <2>4, <2>6 DEF IInv
  <1>3. CASE ~Awaited(h)
    <2>1. /\ link' = links /\ broke' = broke \cup {h}
          /\ UNCHANGED <<request, state, current, piped, status, out, client,
                         blamed>>
      BY <1>3 DEF DoesNotOpen
    <2>2. TypeOK' /\ Told'
      BY <1>1, <2>1 DEF IInv, TypeOK, Told
    <2>3. BlamedOnce'
      BY <2>1 DEF IInv, BlamedOnce
    <2>4. StrayOnce'
      BY <2>1 DEF IInv, TypeOK, StrayOnce, Stray, Awaited
    <2>5. Answered
      BY <2>1 DEF Answered, Answer!answerVars
    <2> QED
      BY <2>2, <2>3, <2>4, <2>5 DEF IInv
  <1> QED
    BY <1>2, <1>3

LEMMA ClientLeavesStep ==
    ASSUME IInv, ClientLeaves
    PROVE  IInv' /\ Answered
  <1>1. TypeOK' /\ Told'
    BY DEF IInv, TypeOK, Told, ClientLeaves
  <1>2. BlamedOnce' /\ StrayOnce'
    BY DEF IInv, BlamedOnce, StrayOnce, Stray, Awaited, ClientLeaves
  <1>3. Answered
    BY DEF ClientLeaves, Answered, Answer!answerVars
  <1> QED
    BY <1>1, <1>2, <1>3 DEF IInv

\* The one step that blames a relay without a fault, and leaves its connection
\* astray.
LEMMA NoticeClientStep ==
    ASSUME IInv, NoticeClient
    PROVE  IInv' /\ Answered
  <1>1. /\ client = "leaving" /\ client' = "ended"
        /\ UNCHANGED <<request, broke>>
        /\ blamed \subseteq broke
        /\ \A h \in Relays : ~Stray(h)
    BY DEF IInv, BlamedOnce, StrayOnce, NoticeClient
  <1>2. CASE state = "trying"
    <2>1. Fail(link)
      BY <1>2 DEF NoticeClient
    <2>2. link \in [Relays -> Links] /\ broke' \in SUBSET Relays
      BY <1>1 DEF IInv, TypeOK
    <2>3. /\ TypeOK' /\ Told' /\ Answered
          /\ blamed' = blamed \cup {current}
          /\ \A h \in Relays : link[h] \in {"opening", "open"} \/ ~Stray(h)'
          /\ piped' = NONE
      BY <1>1, <1>2, <2>1, <2>2, FailStep
    <2>4. BlamedOnce'
      BY <1>1, <2>3 DEF BlamedOnce
    <2>5. \A h \in Relays : Stray(h)' => h = current
      BY <1>1, <1>2, <2>3, RelaysAssumption DEF IInv, Told, Stray, Awaited
    <2>6. StrayOnce'
      BY <1>1, <2>5 DEF StrayOnce
    <2> QED
      BY <2>3, <2>4, <2>6 DEF IInv
  <1>3. CASE state = "tunnel"
    <2>1. /\ link' = [link EXCEPT ![piped] = "ended"]
          /\ state' = "served"
          /\ UNCHANGED <<current, piped, status, out, blamed>>
      BY <1>3 DEF NoticeClient
    <2>2. TypeOK' /\ Told'
      BY <1>1, <1>3, <2>1 DEF IInv, TypeOK, Told, States, Links
    <2>3. BlamedOnce'
      BY <1>1, <2>1 DEF BlamedOnce
    <2>4. StrayOnce'
      BY <1>1, <1>3, <2>1 DEF IInv, TypeOK, StrayOnce, Stray, Awaited
    <2>5. Answered
      BY <2>1 DEF Answered, Answer!answerVars
    <2> QED
      BY <2>2, <2>3, <2>4, <2>5 DEF IInv
  <1>4. CASE state \notin {"trying", "tunnel"}
    <2>1. UNCHANGED <<state, current, link, piped, status, out, blamed>>
      BY <1>4 DEF NoticeClient
    <2>2. TypeOK' /\ Told'
      BY <1>1, <2>1 DEF IInv, TypeOK, Told
    <2>3. BlamedOnce' /\ StrayOnce'
      BY <1>1, <2>1 DEF BlamedOnce, StrayOnce, Stray, Awaited
    <2>4. Answered
      BY <2>1 DEF Answered, Answer!answerVars
    <2> QED
      BY <2>2, <2>3, <2>4 DEF IInv
  <1> QED
    BY <1>2, <1>3, <1>4

\* The relay's connection goes; what RelayEnds and RelayBreaks do besides.
LEMMA LinkIsGoneStep ==
    ASSUME IInv, NEW h \in Relays, LinkIsGone(h), blamed' = blamed,
           broke' \in {broke, broke \cup {h}},
           out' = out \/ (h = piped /\ out = "open" /\ out' = "ended")
    PROVE  IInv' /\ Answered
  <1>1. /\ link' = [link EXCEPT ![h] = "closed"]
        /\ state' = IF state = "tunnel" /\ h = piped THEN "served" ELSE state
        /\ UNCHANGED <<request, current, piped, status, client>>
    BY DEF LinkIsGone
  <1>2. h = piped => state \in {"tunnel", "served"}
    BY RelaysAssumption DEF IInv, TypeOK, Told, States
  <1>3. TypeOK' /\ Told'
    BY <1>1, <1>2 DEF IInv, TypeOK, Told, States, Links
  <1>4. BlamedOnce'
    BY <1>1 DEF IInv, BlamedOnce
  <1>5. \A g \in Relays : Stray(g)' => Stray(g)
    BY <1>1 DEF IInv, TypeOK, Stray, Awaited
  <1>6. StrayOnce'
    BY <1>1, <1>5 DEF IInv, StrayOnce
  <1>7. Answered
    BY <1>1 DEF Answered, Answer!Next, Answer!Finish, Answer!answerVars
  <1> QED
    BY <1>3, <1>4, <1>6, <1>7 DEF IInv

LEMMA NextStep ==
    ASSUME IInv, [Next]_vars
    PROVE  IInv' /\ Answered
  <1>1. CASE Refuse
    BY <1>1, RefuseStep
  <1>2. CASE Begin
    BY <1>2, BeginStep
  <1>3. CASE \E h \in Relays : Opens(h) \/ DoesNotOpen(h)
    BY <1>3, OpensStep, DoesNotOpenStep
  <1>4. CASE ClientLeaves
    BY <1>4, ClientLeavesStep
  <1>5. CASE NoticeClient
    BY <1>5, NoticeClientStep
  <1>6. CASE \E h \in Relays : RelayEnds(h) \/ RelayBreaks(h)
    <2>1. PICK h \in Relays : RelayEnds(h) \/ RelayBreaks(h)
      BY <1>6
    <2>2. CASE RelayEnds(h)
      BY <2>2, LinkIsGoneStep DEF RelayEnds
    <2>3. CASE RelayBreaks(h)
      BY <2>3, LinkIsGoneStep DEF RelayBreaks
    <2> QED
      BY <2>1, <2>2, <2>3
  <1>7. CASE UNCHANGED vars
    <2>1. TypeOK' /\ Told'
      BY <1>7 DEF vars, IInv, TypeOK, Told
    <2>2. BlamedOnce' /\ StrayOnce'
      BY <1>7 DEF vars, IInv, BlamedOnce, StrayOnce, Stray, Awaited
    <2>3. Answered
      BY <1>7 DEF vars, Answered, Answer!answerVars
    <2> QED
      BY <2>1, <2>2, <2>3 DEF IInv
  <1> QED
    BY <1>1, <1>2, <1>3, <1>4, <1>5, <1>6, <1>7 DEF Next

LEMMA InitHolds == Init => IInv /\ Answer!Init
  <1> SUFFICES ASSUME Init PROVE IInv /\ Answer!Init
    OBVIOUS
  <1>1. TypeOK /\ Told
    BY DEF Init, TypeOK, Told, Links, States
  <1>2. BlamedOnce /\ StrayOnce
    BY DEF Init, BlamedOnce, StrayOnce, Stray
  <1>3. Answer!Init
    BY DEF Init, Answer!Init
  <1> QED
    BY <1>1, <1>2, <1>3 DEF IInv

\* The inductive invariant.
THEOREM Invariance == Spec => []IInv
  <1>1. Init => IInv
    BY InitHolds
  <1>2. IInv /\ [Next]_vars => IInv'
    BY NextStep
  <1> QED
    BY <1>1, <1>2, PTL DEF Spec

\* Every variable keeps its type.
THEOREM TypeCorrect == Spec => []TypeOK
  <1>1. IInv => TypeOK
    BY DEF IInv
  <1> QED
    BY <1>1, Invariance, PTL

LEMMA OneAtMost ==
    ASSUME NEW S, \A g, h \in S : g = h
    PROVE  Cardinality(S) <= 1
  <1>1. CASE S = {}
    BY <1>1, FS_EmptySet
  <1>2. CASE S # {}
    <2>1. PICK x : S = {x}
      BY <1>2
    <2> QED
      BY <2>1, FS_Singleton
  <1> QED
    BY <1>1, <1>2

\* However many relays there are: a client that leaves takes one healthy relay
\* from the others at most, and a client that stays none.
THEOREM LeaverCostsOneRelay == Spec => []OneBlamedForALeaver
  <1>1. IInv => OneBlamedForALeaver
    <2> SUFFICES ASSUME IInv PROVE OneBlamedForALeaver
      OBVIOUS
    <2>1. Cardinality(blamed \ broke) <= 1
      BY OneAtMost DEF IInv, BlamedOnce
    <2>2. blamed \subseteq broke \/ client # "here"
      BY DEF IInv, BlamedOnce
    <2> QED
      BY <2>1, <2>2 DEF OneBlamedForALeaver
  <1> QED
    BY <1>1, Invariance, PTL

\* And it leaves one connection that belongs to nobody at most.
THEOREM LeaverLeavesOneStray == Spec => []OneStray
  <1>1. IInv => OneStray
    <2> SUFFICES ASSUME IInv PROVE OneStray
      OBVIOUS
    <2>1. Cardinality({h \in Relays : Stray(h)}) <= 1
      <3>1. \A g, h \in {i \in Relays : Stray(i)} : g = h
        BY DEF IInv, StrayOnce
      <3> QED
        BY <3>1, OneAtMost
    <2>2. (\E h \in Relays : Stray(h)) => client # "here"
      BY DEF IInv, StrayOnce
    <2> QED
      BY <2>1, <2>2 DEF OneStray
  <1> QED
    BY <1>1, Invariance, PTL

\* A tunnel implements ClientAnswer: there is one answer, whatever the relays and
\* the client do.
THEOREM TunnelImplementsAnswer == Spec => AnswerSpec
  <1>1. Init => Answer!Init
    BY InitHolds
  <1>2. IInv /\ [Next]_vars => [Answer!Next]_(Answer!answerVars)
    BY NextStep DEF Answered
  <1> QED
    BY <1>1, <1>2, Invariance, PTL DEF Spec, AnswerSpec, Answer!Spec

=============================================================================
