------------------------------ MODULE Lifecycle ------------------------------
(***************************************************************************)
(* The process (index.ts): it loads the relays, opens its listeners        *)
(* (server.ts, socks5-server.ts), and shuts down on a signal. close of a   *)
(* listener stops it at once and resolves when no connection of it is      *)
(* left; of one that does not listen, it rejects.                          *)
(*                                                                         *)
(* Left out: shutdown also closes the request logger, which then swallows  *)
(* what is logged, and clears the refresh timer, which is in RelayServer.  *)
(*                                                                         *)
(* Its names are other than those of Socks5Server, so that one module can  *)
(* speak of a listener and of the process around it.                       *)
(***************************************************************************)

CONSTANT Peers  \* as many names as connections can be made

Listeners == {"http", "socks5"}

VARIABLES
    socks5,     \* a SOCKS5 port is configured
    stage,      \* where main, or shutdown, waits; see Stages
    exit,       \* how the process has ended, see Exits
    listens,    \* the listeners that accept connections
    via         \* the listener of each client that is connected, or "none"

processVars == <<socks5, stage, exit, listens, via>>

\* up: everything listens, and the handlers of signals are installed. draining:
\* shutdown waits for the connections of a listener it has closed.
Stages == {"loading", "openingHttp", "openingSocks5", "up",
           "drainingSocks5", "drainingHttp"}

\* zero: by shutdown, with code 0. forced: by its timeout, with code 1. failed:
\* before everything listened, with an error. killed: by a signal nobody handled.
Exits == {"none", "zero", "forced", "failed", "killed"}

ProcessTypeOK ==
    /\ socks5 \in BOOLEAN
    /\ stage \in Stages
    /\ exit \in Exits
    /\ listens \in SUBSET Listeners
    /\ via \in [Peers -> Listeners \cup {"none"}]
    /\ stage \in {"openingSocks5", "drainingSocks5"} => socks5
    /\ "socks5" \in listens => socks5

-----------------------------------------------------------------------------
(* main.                                                                   *)

Alive == exit = "none"

Connected(l) == {c \in Peers : via[c] = l}

\* No source that loads, no relay, or a port that is taken: main ends.
Fails ==
    /\ Alive
    /\ stage \in {"loading", "openingHttp", "openingSocks5"}
    /\ exit' = "failed"
    /\ UNCHANGED <<socks5, stage, listens, via>>

Load ==
    /\ Alive
    /\ stage = "loading"
    /\ stage' = "openingHttp"
    /\ UNCHANGED <<socks5, exit, listens, via>>

\* Mutant: the SOCKS5 listener is opened whether or not it has a port.
OpenHttpThenSocks5 ==
    /\ Alive
    /\ stage = "openingHttp"
    /\ listens' = listens \cup {"http"}
    /\ stage' = "openingSocks5"
    /\ UNCHANGED <<socks5, exit, via>>

OpenHttp ==
    /\ Alive
    /\ stage = "openingHttp"
    /\ listens' = listens \cup {"http"}
    /\ stage' = IF socks5 THEN "openingSocks5" ELSE "up"
    /\ UNCHANGED <<socks5, exit, via>>

OpenSocks5 ==
    /\ Alive
    /\ stage = "openingSocks5"
    /\ listens' = listens \cup {"socks5"}
    /\ stage' = "up"
    /\ UNCHANGED <<socks5, exit, via>>

-----------------------------------------------------------------------------
(* shutdown.                                                               *)

ShutsDown == stage \in {"drainingSocks5", "drainingHttp"}

\* close of listener l, as shutdown calls it. One that rejects ends shutdown by
\* its catch, with code 0.
Close(l) ==
    IF l \in listens
      THEN /\ listens' = listens \ {l}
           /\ stage' = IF l = "http" THEN "drainingHttp" ELSE "drainingSocks5"
           /\ UNCHANGED exit
      ELSE exit' = "zero" /\ UNCHANGED <<listens, stage>>

\* Mutant: shutdown runs again at a second signal.
SignalAgain ==
    /\ Alive
    /\ stage \in {"up", "drainingSocks5", "drainingHttp"}
    /\ IF socks5 THEN Close("socks5") ELSE Close("http")
    /\ UNCHANGED <<socks5, via>>

\* SIGINT or SIGTERM. The first begins shutdown; another finds its promise.
Signal ==
    /\ Alive
    /\ stage = "up"
    /\ IF socks5 THEN Close("socks5") ELSE Close("http")
    /\ UNCHANGED <<socks5, via>>

Socks5Drained ==
    /\ Alive
    /\ stage = "drainingSocks5"
    /\ Connected("socks5") = {}
    /\ Close("http")
    /\ UNCHANGED <<socks5, via>>

HttpDrained ==
    /\ Alive
    /\ stage = "drainingHttp"
    /\ Connected("http") = {}
    /\ exit' = "zero"
    /\ UNCHANGED <<socks5, stage, listens, via>>

\* Mutant: the timeout is set when the HTTP listener closes.
TimeoutOfHttpOnly ==
    /\ Alive
    /\ stage = "drainingHttp"
    /\ exit' = "forced"
    /\ UNCHANGED <<socks5, stage, listens, via>>

\* SHUTDOWN_TIMEOUT_MS after the signal.
Timeout ==
    /\ Alive
    /\ ShutsDown
    /\ exit' = "forced"
    /\ UNCHANGED <<socks5, stage, listens, via>>

\* A signal before the handlers are installed.
Kill ==
    /\ Alive
    /\ stage \in {"loading", "openingHttp", "openingSocks5"}
    /\ exit' = "killed"
    /\ UNCHANGED <<socks5, stage, listens, via>>

-----------------------------------------------------------------------------
(* Clients.                                                              *)

Join(c, l) ==
    /\ Alive
    /\ via[c] = "none"
    /\ l \in listens
    /\ via' = [via EXCEPT ![c] = l]
    /\ UNCHANGED <<socks5, stage, exit, listens>>

Disconnect(c) ==
    /\ Alive
    /\ via[c] # "none"
    /\ via' = [via EXCEPT ![c] = "none"]
    /\ UNCHANGED <<socks5, stage, exit, listens>>

-----------------------------------------------------------------------------

ProcessInit ==
    /\ socks5 \in BOOLEAN
    /\ stage = "loading"
    /\ exit = "none"
    /\ listens = {}
    /\ via = [c \in Peers |-> "none"]

ProcessNext ==
    \/ Fails
    \/ Load
    \/ OpenHttp
    \/ OpenSocks5
    \/ Signal
    \/ Socks5Drained
    \/ HttpDrained
    \/ Timeout
    \/ Kill
    \/ \E c \in Peers :
           (\E l \in Listeners : Join(c, l)) \/ Disconnect(c)

ProcessSpec == ProcessInit /\ [][ProcessNext]_processVars

\* A timer fires. Clients need not leave.
FairProcessSpec == ProcessSpec /\ WF_processVars(Timeout)

-----------------------------------------------------------------------------
(* Properties.                                                             *)

\* An exit with code 0 cuts nobody off: no error of a close led to it, and every
\* connection of either listener was over (index.ts, shutdown, whose finally
\* exits with 0 whether or not it failed).
ZeroIsClean ==
    exit = "zero" => /\ \A c \in Peers : via[c] = "none"
                     /\ listens = {}

\* A shutdown that has begun ends, also when clients never leave.
ShutdownEnds == ShutsDown ~> ~Alive

=============================================================================
