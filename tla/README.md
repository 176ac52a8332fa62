# A TLA+ model of relayrad

relayrad is a local proxy. It loads an inventory of relays from up to four
sources (Mullvad, Tor, NordVPN, GitHub lists), and serves HTTP requests, CONNECT
tunnels, WebSocket upgrades and SOCKS5 connections through one relay after the
other. This directory holds a model of what it keeps and decides, TLC runs on
small instances, and TLAPS proofs for instances of any size.

Paths below are those of the repository; `src/src/...` in `PROJECT.json` is
`src/...` here.

## The system

Everything runs on one Node (Bun) event loop. A callback runs to its next
`await` undisturbed; between two of them anything else may run. There are no
locks and nothing is persisted, so the hard part is state that was read before
an `await` and is used after it, and sequences of calls nobody thought of.

| Component | State | Operations | Hard behaviour | What makes it correct |
| --- | --- | --- | --- | --- |
| Relay selector (`relay/relay-selector.ts`, `relay-utils.ts`) | inventory, config, backoffs, a cursor, the sources' order, a shuffled cycle per source, three caches | `list`, `next`, `nextFromSource`, `markUnhealthy`, `update` | positions and caches that outlive what they index; rotation while relays fail | answers as a fresh look would give them; no relay is starved |
| Sticky sessions (`server/sticky-session-manager.ts`) | key → relay, expiry | `get`, `set`, `delete` | expiry, relays that leave, relays that fail | one relay per session, and a working one |
| Relay retries (`proxy/relay-retry.ts`, `http-proxy.ts`, `stats.ts`) | per request: relays tried, source, the binding found; counters | `createRetryDeps`, `tryRelays`, `handleRelayFailure` | requests interleave at every attempt | one source, termination, giving up only for a reason, counters that balance |
| Tunnels and HTTP exchange (`proxy/tunnel-handlers.ts`, `relay-http-request.ts`, `http-plain.ts`, `http-upstream.ts`) | sockets, a response that may be half sent | one attempt | clients and relays that leave at any point | blame, no leak, an answer to every client |
| Socket prewarming (`proxy/socket-prewarm.ts`, `relay-socket.ts`) | a Map of connected sockets with timers | take, prewarm, connect, timers, close events | late events, duplicates, eviction | no leak, no socket used twice or closed in use |
| Server and routes (`server/server.ts`, `routes.ts`, `selection-config.ts`) | inventory, list cache | GET `/relays`, POST `/rotate`, POST `/relays/refresh` | a refresh awaits its sources while all else goes on | cached lists that are current |
| Startup and sources (`runtime/startup.ts`, `relay/*/`, `index.ts`) | loads under way, the refresh timer, two runtimes, the listeners | load, timer, shutdown | sources fail one by one; refreshes overlap; signals at any time, clients that stay | never left without relays; the inventory follows the sources; shutdown ends, and code 0 means that nobody was cut off |
| SOCKS5 listener (`proxy/socks5-server.ts`) | handshake progress, buffered bytes | `handleClient` | chunks cut anywhere, over-reads | no byte lost, no handshake stuck |
| SOCKS5 client (`proxy/socks5.ts`) | the bytes of the relay's answer | `connectViaSocks5` | the same; relays that leave an answer out | the verdict is the relay's |
| Stream helpers (`proxy/socket-utils.ts`) | chunks read so far | `readUntilHeaderEnd`, `readExact`, drain, close | the same; a close that races a wait | the same |
| Statistics (`stats.ts`) | counters | increments, snapshot | counted once, by whichever end comes first | sums |
| Authentication, options, terminal setup, request logger | none, or output only | | | |

Calls between them: the server gives the runtime (selector and sticky sessions)
to the handlers; the handlers run attempts under `tryRelays`, which calls the
selector, the sticky sessions and the counters back; attempts open sockets
through the prewarm cache; refresh and rotate update the selector under all of
them. The SOCKS5 listener has a selector and sticky sessions of its own and
shares only the counters.

## The modules

| Module | Models |
| --- | --- |
| `RelayHealth` | inventory, config, backoffs; matching, sorting and the answers a selector may give. No behaviour of its own: the modules below extend it. |
| `RelayPool` | what a selector promises: each answer is about the inventory, the config and the backoffs of the moment. An abstract specification. |
| `RelaySelector` | `createRelaySelector` with its cursors, cycles and caches. Refines `RelayPool`. |
| `RelayRotation` | `RelaySelector` with a history of how long each relay was passed over. |
| `StickySessions` | `createStickySessionManager`, as operators over `sessions`. |
| `RelayRetry` | any number of requests running `tryRelays` at once, over `StickySessions` and the answers of `RelayPool`. |
| `SocketPrewarm` | the prewarm cache with its timers and events. |
| `Socks5Server` | the SOCKS5 listener's handshake over a stream that is cut anywhere, `readExact`, and `activeConnections`. |
| `RelayServer` | refreshes, rotates, the list cache, and the inventories of the two runtimes. |
| `ClientAnswer` | what a client is promised: one answer, by relayrad or by one relay. An abstract specification. |
| `ConnectTunnel` | one CONNECT or WebSocket upgrade with its sockets, over the relays it is tried on. Refines `ClientAnswer`. |
| `HttpExchange` | one HTTP request with its body and its response, over the relays it is tried on. Refines `ClientAnswer`. |
| `RelayHandshake` | what a relay answers to a handshake, cut anywhere: `connectViaSocks5`, `readUntilHeaderEnd`. |
| `Lifecycle` | the process: loading, listeners, signals, shutdown and its timeout. |
| `RelaySelectorProofs`, `RelayRetryProofs`, `RelayServerProofs`, `SocketPrewarmProofs`, `ListenerProofs`, `ConnectTunnelProofs`, `HttpExchangeProofs`, `RelayHandshakeProofs` | the theorems. `RelaySelectorProofs` is about `RelaySelector` and `RelayRotation`, `ListenerProofs` about `Socks5Server` and `Lifecycle`. |
| `MC*` | the instances TLC checks. |

A definition whose comment begins with "Mutant:" is a plausible bug, not the
code. No specification uses it: put in the place of the definition that follows
it (`PROJECT.json`, "mutants"), it makes TLC find the property it is listed with
violated.

### How state and actions correspond to the code

*Filters and sorts.* A filter is the set of hosts it admits, a sort a ranking of
the hosts. Both are constants of `RelayHealth`; nothing else in the program looks
at the fields behind them. No two hosts rank the same, as each sort ends in the
hostname.

*Time.* An instant is kept as the time left until it: `cooling[h]` is
`unhealthyUntil - now`, and `sessions[k].left` is `expiresAt - now`. `Tick` counts
them down. An entry that has run out and one that was deleted are the same, as
they are to `isUnhealthy` and `get`.

*Shuffles.* `Deal` keeps, of each source's shuffled cycle, the set of relays its
cursor has not passed, and draws the next when it is asked for; it allows exactly
the answers some permutation gives.

*Caches.* The selector's three structural caches are built from one another and
dropped together; `matchedCache` stands for them. `generation` changes only with
an update, which empties the order of sources as well, so the test on the latter
covers both.

*Requests.* In `RelayRetry` everything from the outcome of an attempt to the start
of the next is one action (`Fail`): `handleRelayFailure` and the next pick run
without an `await` between them. An attempt ends in `RelayFails`, `Establish`, or a
client that leaves (`TunnelClientLeaves`, `HttpClientLeaves`); an established one
in `Succeed`, or for HTTP in a failure that comes with the response half sent.
`committed` records that a response head went out: the second `writeHead` throws,
and the attempt counts as the relay's failure. Picks are any answer `RelayPool`
allows, which is more than one selector gives in one history: what holds in
`RelayRetry` holds for the code, and a counterexample is literal once a refresh or
a new cycle stands between two picks. An attempt over a relay of `Plain` takes no
body from the client and is over as soon as the head is out: neither a client that
leaves nor one that is gone makes it fail, and `Succeed` follows `Establish` with
no wait between them (`Streams` are the attempts of which this is not so).

*Sockets.* In `SocketPrewarm` each event callback is an action. A Map remembers
insertion: `newer[s]` is the set of cached sockets inserted after `s`. `closing` is
the sockets that were destroyed and whose close event has not been emitted, so that
close events arrive late and in any order. A socket object is used again once
nothing refers to it.

*Bytes.* In `Socks5Server` a client's messages are sequences of bytes and the network
delivers any number of those sent (`Deliver`). What `readExact` has received is the
bytes from `begun[c]` to `delivered[c]`; when they are `count[c]` or more they are all
handed to the code after that `await` (`ReadGreeting` to `ReadPort`), which runs up to
the next one in the same step. `overread` remembers that a read got more than its
count. A read of no bytes is resolved by the next chunk, as `readExact` looks at what
it has in its data handler alone. Clients wait for each answer before they send on, and leave by closing their
end; resets are not modelled (outside the reads nothing listens to the socket's error
event). `tryRelays` is its outcome here: `NoRelay`, `RelaysFail` or `TunnelUp`.

*Tunnels.* `RelayRetry` has an attempt as one step; `ConnectTunnel` has its sockets.
The connection to each relay is a value of `link`, our side of the client's is
`out`. `client` is `leaving` from when the client closes its end until its socket
tells so, and `ended` from then on: a tunnel that is piped only then ends the relay's
side at once (`Opens`), as the pipe of an ended stream does. What happens to a
connection after its attempt was given up is in the same actions (`Awaited` tells the
two apart). Which relays are tried is any choice among those not tried yet.

*Exchanges.* In `HttpExchange` the body is counted in chunks: `read` is how many were
taken from the client, `got[h]` which of them each relay was sent. `loops` are the
calls of `forwardRequestBody` that go on, those of attempts that are over among them:
such a loop writes to a destroyed socket, and either waits for a drain that does not
come, or rejects and destroys the client's request on its way out (`Forward`,
`DrainRejects`). A response is its head and whether it has ended. `amiss` is what is
wrong with a request that no relay can help: its target is `silent`, or `refuses` with
a status the code takes for the relay's, or its body is `slow` to come. With what a
relay was to send on and was not sent (`Withheld`) these make an attempt fail as the
relay does (`OthersFail`, beside `RelayFails`): `readUntilHeaderEnd` has one timer for
all, and `isProxyLevelError` one test. The code cannot tell the two apart; the history
`broke`, which has the connections that failed, can. A body the code does not forward
at all, as that of a DELETE, is a body of no chunks whose target is silent, if it waits
for it.

*Handshakes.* In `RelayHandshake` a relay's answer is one stream, and `Read(n)` is the
chunk that ends with its n-th byte. SOCKS5 answers have their real bytes. Of an HTTP
header only the status and the line ends matter, and a status line is one byte.
`trailing` is `t0`, `t1`, `t2` of `readUntilHeaderEnd`.

*The process.* In `Lifecycle` a listener that is closed accepts nobody, and its close
resolves when none of its clients (`via`) is left; closing one that does not listen
rejects, and shutdown then exits with 0 all the same.

*Refreshes.* In `RelayServer` a refresh waits for one source at a time
(`loading[f]`); the answer of the last and the change of inventory are one step,
as no I/O lies between them. The server's array, the handle's map and the
selector's list are assigned together and are one variable. A source that throws
and one that has no relays are both `{}`; which of them raises an error is
`Throwing` (the Mullvad, Tor and NordVPN loaders throw on an empty list, the GitHub
loader turns every failure into an empty list).

## What the runs check

| Run | Bounds | Shows |
| --- | --- | --- |
| `selector` | 4 relays of 2 sources, 3 inventories, 2 filters, 3 sorts, backoff 2 | `CacheCoherent`, `RotationCurrent`, `NoStarvation`, and `PoolSpec` (the refinement) |
| `retry` | 3 relays of 2 sources, one of them plain, an HTTP request and a tunnel of one session, backoffs 0 and 1, session of 2 ticks | `SingleSource`, `StatsBalance`, `BindingEarned`, `GiveUpJustified`, `RetriesEnd` |
| `prewarm` | 2 endpoints, 4 sockets, a cache of 1 | `NoOrphan`, `OneIdlePerEndpoint`, `TakenIsLeftAlone`, `IdleEnds` |
| `server` | 2 sources, 3 relays, 2 overlapping refreshes, 3 list keys over a list cache of 2 | `ListsCurrent`, `NeverEmptied`, `InventoryConverges` |
| `socks5` | 2 connections at a time, 9 conversations: each type of address, an empty domain, one that can be misread, two methods and none, and each refusal | `ActiveConnectionsCounted`, `TargetAsRequested`, `HandshakeEnds` |
| `handshake` | SOCKS5 answers of both lengths, with and without credentials, with each reply granted and refused, and Tor's; every HTTP answer of a status line and up to 6 bytes; a limit of 6 | `HeaderFound`, `VerdictIsTheRelays` |
| `tunnel` | 3 relays | `OneBlamedForALeaver`, `OneStray`, `AnswerSpec` (the refinement), `LeaverFreesTunnel` |
| `http` | 4 relays: two over SOCKS5, one over TLS, one plain; bodies of 0 to 2 chunks; a target that is silent or refuses, a slow body | `HealthyBlamed`, `BodyKept`, `AnswerSpec` (the refinement), `AnsweredInTheEnd` |
| `lifecycle` | 3 clients, with and without a SOCKS5 listener | `ZeroIsClean`, `ShutdownEnds` |

Each of them checks the type invariant of its module as well. In `NoStarvation` the
bound `Patience` is reached in random and in sorted order, so it is the best there is.

Why the bounds are enough for the cases that matter. *Selector*: one source has three
relays (a cycle with a relay passed, one dealt and one left) and the other one (a source
that is wholly on backoff); inventories lose a source, come back, and are empty, as after
a load that failed; sorts disagree about the first relay. *Retries*: two requests are
what every interleaving takes, and two relays of one source beside another leave a relay
to retry and a source to stay out of; a backoff of 0 is that of relays that fail and are
healthy at once. *Prewarming*: four sockets are one cached for each endpoint, a duplicate
and one handed out, and with a cache of one each second connection evicts. *SOCKS5
listener*: the conversations have every read of the handshake, with messages cut at every
place, and IPv6 addresses take the real 16 bytes; a read of no bytes occurs twice, for the
methods of a greeting without any and for an empty domain, and one domain has a byte that
is small enough to pass for its length. *Server*: two refreshes overlap, and
the first source may fail in one and not in the other. *Handshakes*: SOCKS5 answers have
their real lengths; six bytes hold a marker at each place of a chunk cut, bytes before it
and behind it, and go one beyond the limit of six, which counts the status line.
*Tunnels*: three relays are the one that a leaving client waited for and two that are
tried after it. *Exchanges*: the kinds of relay differ in what they are sent and when
their attempt ends; two chunks are one lost and one left; what is amiss comes singly and,
as far as two can come together without one hiding the other, in pairs. *Process*: a client on each
listener, and a late one. `MaxCount` bounds the counters at the number of requests, which
no counter of one relay can exceed (`StatsBalance` would fail). Time needs no bound: it
only counts down.

No run uses symmetry: it would not be sound for the liveness properties, which are
checked together with the others. Deadlock is checked where the program goes on for
ever, and not in `handshake`, `tunnel`, `http` and `lifecycle` (nor in `tunnel_clean`):
a handshake, a handler and the process stop when they are through.

Five properties allow for a case, as the code does not do without it. `GiveUpJustified`
excepts a backoff of 0 (below). `HealthyBlamed` names what puts a relay of an HTTP request
on backoff though its connection did not fail: the client's request was destroyed, a
response had broken off before, or it had no head to send on through no fault of its own
(`Helpless`). What it does rule out is blame for the attempt of another relay, and blame
before a relay has granted the connection (but for SOCKS5, where a relay that cannot reach
a silent target does not grant). `TargetAsRequested` leaves out a domain that lost bytes
and has a byte smaller than its length (below). `HandshakeEnds` names the two handshakes
that are left waiting: one of which a read lost bytes, and one whose greeting names no
methods, for which `readExact` waits (`socket-utils.ts`:195). `AnsweredInTheEnd` excepts a request for which
the first pick had no relay: `tryRelays` then returns no error and the handlers send
nothing, so that its client waits for ever (`empty`; `relay-retry.ts`:106).

### Where the code and its documentation differ

Three runs each check one sentence of the repository, and TLC finds a behaviour of the
code against it:

| Run | The sentence | What happens |
| --- | --- | --- |
| `retry_rebinding` | README:74, "automatically rebinds the session to the next working relay" | an old request's failure on the old relay unbinds the session from the new one |
| `socks5_answered` | README:62, "curl --socks5-hostname" | a greeting that arrives in one chunk is never answered: the first read swallows the methods, and the second waits for them |
| `tunnel_clean` | `test/http-proxy.test.ts`:381, "supports HTTPS CONNECT tunneling"; `socks5.ts`:39, "Others send method + auth + connect (14 bytes)" | what the chunk with the relay's answer brings behind it is lost to the tunnel, and what of a longer answer comes later is piped to the client |

Others are plain from the actions and have no run:

- With `unhealthyBackoffMs` 0 the relay that just failed may be picked again, and that
  ends the request (`Continue`; `test/http-proxy.test.ts`:408 says "retries the next
  relay"): it is the exception in `GiveUpJustified`.
- In random order a source that is wholly on backoff has its turn, and `next` answers
  undefined though another source is healthy (`NextAnswers`, `relay-selector.ts`:102;
  README:156 says that failed relays are "skipped").
- Two first requests of a session that overlap are on two relays, as the binding is made
  at the end of the first (`Begin`, `Succeed`, `relay-retry.ts`:118; README:157 says "on
  one relay"). `BindingEarned` is what does hold.
- A bound session's next request starts on its relay although another request put that on
  backoff (`Begin`; README:74 says the session is rebound when its "relay becomes
  unhealthy").
- A healthy plain relay that sends on an origin's own 403, 407 or 502 is put on backoff, and
  the request is tried on the next (`OthersFail`, `relay-http-request.ts`:105 and 288); so is
  any relay when the time for a response's head is used up by the upload of the body
  (`relay-http-request.ts`:231; README:156 says "Failed relays are marked unhealthy").
- A relay whose client disconnected, or that was tried after a response was half sent, is
  put on backoff (README:156 says "Failed relays are marked unhealthy").
  `OneBlamedForALeaver` and `HealthyBlamed` bound what that costs.
- A request's body is read once: a second relay that is asked after a first got part of
  it is sent the rest (`Forward`, `relay-http-request.ts`:213). `BodyKept` says how far
  retries leave a body whole.
- The inventory of the SOCKS5 listener is never refreshed (`Init` and `FinishRefresh` of
  `RelayServer`, `index.ts`:85; README:165 says "Relays auto-refresh").
- A rotate without a sort sets `hostname` (`NormalizeConfig`, `relay-utils.ts`:58;
  README:140 says "default: `random`").
- Connections that were started while the prewarm cache had room are all cached when they
  come up, beyond its capacity (`Connected`; the comment at `socket-prewarm.ts`:47 says
  "Evict oldest entry if at capacity").

A limit of `TargetAsRequested`: a domain can be misread rather than waited for, when the
chunk with its length is over-read, a byte of it is taken for the length, and that is
small enough for the rest of the request to be as long. Of a domain with a byte smaller
than its length the property therefore speaks only when no bytes were lost. The smallest
byte of a host name is "-" (45), so that the host names concerned are longer than 45 bytes
(`Unmistakable`).

## Fairness

Safety needs none. Liveness assumes the following, and no more:

- `RelayRetry`: an attempt that is being made ends (`AttemptEnds`). Connecting has
  a timeout (`relay-socket.ts`), and so have the SOCKS5 handshake, the CONNECT
  answer and the wait for a response head (`socks5.ts`, `http-upstream.ts`,
  `http-plain.ts`, `relay-http-request.ts`). Nothing is assumed of a tunnel that is
  up or a response whose body flows, and nothing of clients, refreshes or time.
- `SocketPrewarm`: a running timer fires, and a destroyed socket emits its close
  event. Nothing is assumed of relays and requests.
- `Socks5Server`: bytes that were sent arrive, a client that is answered sends its
  request, and `tryRelays` ends (`RetriesEnd`). Nothing is assumed of how the bytes are
  cut, of clients that leave, or of tunnels.
- `ConnectTunnel`: a request is handled when it comes; a connection to a relay opens or
  fails, each step of it under a timeout; and a tunnel reads, so that it comes to the end
  of what its client sent. Nothing is assumed of a client's end while relays are tried,
  as it may lie behind data that nobody reads, and nothing of relays.
- `HttpExchange`: a request is handled when it comes; a relay grants or refuses, and its
  head comes or does not, each under a timeout (the four actions, `Connects`, `RelayFails`,
`HeadArrives` and `OthersFail`, are one condition). Nothing is
  assumed of clients, bodies, loops and responses.
- `Lifecycle`: the timer of shutdown fires. Nothing is assumed of clients.
- `RelayServer`: the interval timer starts refreshes for ever
  (`--relay-refresh-interval` is not 0), and each source's load ends (every fetch
  has a timeout).

## What is proved

Every safety property and every refinement the passing runs check is also proved. The
theorems hold for every number of hosts, sources, filters, sorts, requests, sessions,
refreshes, sockets and clients, and every capacity, limit and stream, under the named
assumptions on the constants (`ASSUME` in the modules that declare them). These say what
the constants are: finitely many hosts, each of one source; rankings without ties;
backoffs that are natural numbers; finitely many requests, relays of a request and
clients; a `MaxCount` the requests cannot exceed; plain relays that are hosts (`Plain`);
what may be amiss with a request (`Troubles`); streams of bytes. Two say what the
other side of a connection is taken to be, and the theorems that need them say so below:
`WellFormedAssumption` (`Socks5Server`: a client's request is as long as RFC 1928 says)
and `RepliesAssumption` (`RelayHandshake`: a relay means what its reply says).

*`RelaySelectorProofs`.* The inductive invariant is `TypeOK`, `CacheCoherent` and
`RotationCurrent` together. None is inductive alone: the rotation is only advanced
within what the cache holds, so that a stale cache would put relays into the cycles
that have left, and cursors only make sense with their types. From it follow
`TypeCorrect`, `CachesAreCoherent`, `RotationIsCurrent` and, step by step,
`SelectorImplementsPool`: each step of the selector is the step of the same name of
`RelayPool`. The argument for the answers is `DealIsOfSource` (a deal returns a
healthy relay of its source, or nothing when there is none, thanks to the second
shuffle) and `TurnIsOfSource` (each turn is that of a source with a matching relay).

*No relay is starved* (`NobodyStarves`, in the same module). The invariant `RInv` adds to
this one a budget for each relay that can serve: what it has waited and what may still
come before it are within its `Patience`. Under a sort, what may come is what the scan
has ahead (`Ahead`); a scan that returns another relay goes on behind it, so that what
is ahead shrinks by one at least (`ScanGoesOn`, `SortedPasses`). In random order it is
the turns of the other sources until that of its own (`Until`), and a whole round for
each deal of its source that may leave it out (`LeftOf`: those left of the cycle, and
those of the next when it is out of this one). A turn of another source brings its own
nearer (`TurnPasses`); a deal of its own leaves one deal fewer, also when the cycle is
shuffled anew because its healthy relays are used up (`DealPasses`), which pays for the
round that follows (`FitsAfterDeal`). What retries draw from a cycle between the turns
only shortens it (`DrawPasses`). A relay that was returned, recovered or came with an
update has the whole budget ahead, wherever cursor, turns and cycles stand
(`FreshIsKept`).

*`RelayServerProofs`.* `NeverEmptied` is not inductive: that the last source's
answer decides between relays and an error depends on what the sources before it
answered. The invariant adds `Accounted`: a refresh with no error behind it has
relays of each throwing source it is done with. From it follow `TypeCorrect`,
`ListsAreCurrent` and `InventoryNeverEmptied`.

*`RelayRetryProofs`.* The invariant adds two facts to `TypeOK`, `SingleSource` and
`BindingEarned`: a request that has not begun has tried nothing and fixed no source
(`Fresh`; its first pick is free), and the relay an attempt is on is one it has tried
(`Held`; its failure, or its success, is then about a relay of its source). Every
failure goes through `FailStep`, every pick through `ContinueStep`. From it follow
`TypeCorrect`, `RequestsKeepTheirSource` and `BindingsAreEarned`, and for the steps
`GivesUpForAReason`: what nextFromSource answers is servable after the failure, and the
relay that failed is not, unless its backoff is 0 (`FailGivesUp`). `CountersAddUp` takes
`StatsBalance` along as an invariant of its own: a failure or a success adds one request
to those whose attempt on the relay is over (`FailOver`), and one to one of the relay's
counters (`CountedOnRelay`); that no relay is tried twice keeps the two equal.

*`ConnectTunnelProofs`.* `Told` ties what the client was told to the handler's state and
the piped connection; the type says besides that a tunnel is piped to the relay of its last attempt if it is up,
and to none before; `BlamedOnce` and `StrayOnce` are the two counts before and after the
client's end event. From them follow `TypeCorrect`, `LeaverCostsOneRelay`,
`LeaverLeavesOneStray` and, step by step, `TunnelImplementsAnswer`: each step of a tunnel
is a step of `ClientAnswer` or changes nothing of the answer.

*`HttpExchangeProofs`.* `Told` is the like of an exchange. `Blamed` adds to `HealthyBlamed`
that an attempt after a response was begun is excused already, and that the connection of a
relay that was blamed is over: what left it helpless then stays, as a chunk it was not sent
it never is. `Body` adds to `BodyKept`
that only relays that were sent the request's head have a loop over its body, and that
nothing was read before there was one. From them follow `TypeCorrect`, `BlameHasACause`,
`RetriesKeepTheBody` and `ExchangeImplementsAnswer`.

*`RelayHandshakeProofs`.* `HeaderFound` speaks of the bytes that came, and
`readUntilHeaderEnd` looks at a chunk and three bytes. `Scanned` says that the three are
the last that came, and that no marker was passed; `FoundIsMarker` that the chunk then
completes a marker if and only if one of the four comparisons finds it; `TrailingIsLast`
that the three are kept up. From it follow `TypeCorrect` and `HeaderIsFound`.
`RelayIsTakenAtItsWord` rests on `RepliesAssumption`, which states when a relay grants in
terms of the replies of RFC 1928 and RFC 1929, one after the other; the proof is that
`connectViaSocks5`, which looks at fixed places of what it reads and tells a left-out
reply by one byte, comes to the same (`Socks5Verdict`), and that it does not look before
the bytes are there.

*`SocketPrewarmProofs`.* `Attached` says who may still act on a socket: an entry or a
timer only on one that is idle or destroyed, a close event only on a destroyed one; and
`Keyed` that the cache is a map. With `NoOrphan` they are inductive. From them follow
`TypeCorrect`, `NothingIsLeaked`, `OneIsKept` (every idle socket is an entry, and there
is one entry for each endpoint) and, for the steps, `TakenStaysTaken`: what a timer, an
eviction, a duplicate or a late event acts on was never handed out.

*`ListenerProofs`.* The handshake of the SOCKS5 listener reads where its last read left
off, and a read may have lost what came with the bytes it wanted. The invariant `Parsed`
says, for each phase, where the read under way begins in the stream, or that it begins
too late. The greeting ends where its methods do, as the client then waits for the
answer. A read of an IPv4 or IPv6 address begins where it should or later, and if later
the port is short of bytes (`WellFormedAssumption`: the request ends with it), so that
the handshake never comes to a relay. Of a domain, what is taken for the length after a
loss is a byte of the domain or of the port. The former is no smaller than the length, as
the request is `Unmistakable`, and then more is waited for than is left; after the latter
no port is left. From it follow `TypeCorrect`, `ConnectionsAreCounted` and
`AsTheClientAsked`, which speaks of the requests `WellFormedAssumption` describes and, of
domains that lost bytes, of the unmistakable ones.

For the process, `ListensInStage` says which listeners are open in each stage, and
`HeldIsAwaited` that whoever is connected is on a listener that is open or being
drained. From them follow `ProcessTypeCorrect` and `ZeroCutsNobodyOff`: when the last
close has resolved, every listener was closed and then emptied.

Only model-checked is liveness under fairness, which is out of the prover's reach:
`RetriesEnd`, `IdleEnds`, `InventoryConverges`, `HandshakeEnds`, `LeaverFreesTunnel`,
`AnsweredInTheEnd` and `ShutdownEnds`. The three runs that expect a violation show a
disagreement by a behaviour, and there is nothing to prove about them.

## What is not modelled, and the plan

Option parsing, the terminal setup and the log's output keep no state that others read;
of the authentication there is its refusal (`Refuse`). Parsing of the sources' answers
and of requests is data, and so are the headers that are sent on and the framing of
bodies. Three places where such data matters are known and have no model: a GitHub
list's SOCKS4 entries become SOCKS5 relays (`github-lists.ts`:26); requests over
an HTTP relay are sent with the path alone; and a response's body is piped as it came,
chunk sizes and all. In `Lifecycle` the closing of the request logger and the refresh
timer are left out: the log is closed before the listeners in the same `try`
(`index.ts`:133), and the `close` of `bun:sqlite` does not throw unless it is asked to. Resets of a client's connection are not modelled anywhere.

What is left, in this order:

1. A composition of `RelayServer` and `RelayRetry`, with the hostnames the GitHub
   loader makes up anew at each refresh (`github-lists.ts`:74).
2. Proofs of that composition, and of what the liveness properties rest on: for each
   of them a measure that every fair step decreases and no other step increases.
