--------------------------- MODULE StickySessions ---------------------------
(***************************************************************************)
(* createStickySessionManager (sticky-session-manager.ts): which relay an  *)
(* X-Proxy-Session key is bound to, and for how long.                      *)
(*                                                                         *)
(* A binding keeps the time that is left until expiresAt. An entry that    *)
(* has none left is the same as no entry: the next get deletes it and      *)
(* answers undefined either way.                                           *)
(***************************************************************************)
EXTENDS RelayHealth

CONSTANTS
    Keys,   \* the values of X-Proxy-Session
    TTL,    \* five minutes, in ticks
    NONE    \* no relay, and no X-Proxy-Session

ASSUME StickyAssumption ==
    /\ TTL \in Nat \ {0}
    /\ NONE \notin Keys
    /\ NONE \notin Hosts

VARIABLE sessions

Unbound == [relay |-> NONE, left |-> 0]

Bindings == {Unbound} \cup [relay : Hosts, left : 1..TTL]

StickyTypeOK == sessions \in [Keys -> Bindings]

\* The relay get finds: the one bound, while the inventory has it. Neither its
\* backoff nor the config's filters are looked at.
StickyRelay(k) ==
    IF k \in Keys /\ sessions[k].relay \in relays THEN sessions[k].relay
                                                   ELSE NONE

\* What get leaves: the binding renewed, or deleted with its relay.
Looked(k) ==
    IF k \notin Keys THEN sessions
    ELSE [sessions EXCEPT ![k] =
              IF StickyRelay(k) = NONE THEN Unbound ELSE [@ EXCEPT !.left = TTL]]

Remembered(k, h) ==
    IF k \notin Keys THEN sessions
    ELSE [sessions EXCEPT ![k] = [relay |-> h, left |-> TTL]]

Forgotten(k) == [sessions EXCEPT ![k] = Unbound]

\* Time passes.
Aged ==
    [k \in Keys |-> IF sessions[k].left > 1
                      THEN [sessions[k] EXCEPT !.left = @ - 1] ELSE Unbound]

=============================================================================
