-------------------------- MODULE MCConnectTunnel --------------------------
(* Three relays, so that two more are tried after one that a leaving client *)
(* was waiting for.                                                        *)
EXTENDS ConnectTunnel, TLC

CONSTANTS m1, m2, m3

MCRelays == {m1, m2, m3}
=============================================================================
