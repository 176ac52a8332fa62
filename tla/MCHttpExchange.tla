--------------------------- MODULE MCHttpExchange ---------------------------
(* One relay of each kind, and a second that streams; bodies of up to two   *)
(* chunks, so that a part can be lost.                                      *)
EXTENDS HttpExchange, TLC

CONSTANTS s1, s2, t1, p1

MCRelays == {s1, s2, t1, p1}
MCKindOf == s1 :> "socks5" @@ s2 :> "socks5" @@ t1 :> "http" @@ p1 :> "plain"
MCSizes == 0..2
MCTroubles == {{}, {"silent"}, {"refuses"}, {"slow"}, {"refuses", "slow"}}
=============================================================================
