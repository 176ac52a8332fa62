----------------------------- MODULE MCLifecycle -----------------------------
(* Three clients: one on each listener at the signal, and one that is late.  *)
EXTENDS Lifecycle

CONSTANTS c1, c2, c3

MCPeers == {c1, c2, c3}
=============================================================================
