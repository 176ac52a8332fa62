---------------------------- MODULE ClientAnswer ----------------------------
(***************************************************************************)
(* What relayrad promises a client about the answer to one request,        *)
(* whatever happens to the relays it tries: there is one answer. It is     *)
(* either an error of relayrad's own, and complete; or what one relay      *)
(* brings, with nothing before, between or after it from any other.        *)
(***************************************************************************)
CONSTANT Relays

VARIABLES
    status, \* "none", then "relayed" or "error"
    heard,  \* the relays of which the client was sent something
    over    \* relayrad has ended its side: nothing more will come

answerVars == <<status, heard, over>>

TypeOK ==
    /\ status \in {"none", "relayed", "error"}
    /\ heard \in SUBSET Relays
    /\ over \in BOOLEAN

\* A relay's answer begins.
Answer(h) ==
    /\ status = "none"
    /\ status' = "relayed"
    /\ heard' = {h}
    /\ over' \in BOOLEAN

\* 400 or 502.
Refuse ==
    /\ status = "none"
    /\ status' = "error"
    /\ over' = TRUE
    /\ UNCHANGED heard

\* The answer ends with all of it sent, or the connection is cut before.
Finish ==
    /\ ~over
    /\ over' = TRUE
    /\ UNCHANGED <<status, heard>>

Init == status = "none" /\ heard = {} /\ over = FALSE

Next == (\E h \in Relays : Answer(h)) \/ Refuse \/ Finish

Spec == Init /\ [][Next]_answerVars

=============================================================================
