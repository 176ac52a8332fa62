-------------------------- MODULE MCSocketPrewarm --------------------------
(* Two endpoints over a cache of one, and sockets enough for one of each    *)
(* endpoint to be cached, a duplicate to connect and one to be taken.      *)
EXTENDS SocketPrewarm, TLC

CONSTANTS s1, s2, s3, s4

MCSockets == {s1, s2, s3, s4}
=============================================================================
