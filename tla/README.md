# cloud-chisel in TLA+

cloud-chisel tunnels TCP and UDP connections through SSH over a websocket. A
*client* keeps one websocket to a *server*, runs an SSH connection over it,
asks for a list of *remotes* and reconnects when the connection breaks. Either
end may be the *entry* (listens, opens an SSH channel per TCP connection or one
per UDP remote) or the *exit* (dials the destination) of a remote.

This directory models the parts of it that are hard to test, checks them with
TLC on small instances and proves their safety with TLAPS.

## 1. Inventory

| part | code | state | operations | interacts with | hard behaviour |
|---|---|---|---|---|---|
| Tunnel | `share/tunnel/tunnel.go`, `wg.go` | `activeConn`, `activatingConn` (`n`, inner wait group) | `BindSSH`, `getSSH`, `Close` | proxies call `getSSH`; client loop and server handler call `BindSSH` | reconnects against late cancellers, two counters updated apart, lost wakeups |
| UDP entry | `tunnel_in_proxy_udp.go`, `udp.go` | cached channel, mutex | `runInbound`, `runOutbound`, `getUDPChan`, `unsetUDPChan` | Tunnel, exit side through the channel | cached channel that is stale, three goroutines per channel, blocking reads |
| UDP exit | `tunnel_out_ssh_udp.go` | map from sources to sockets | `handleWrite`, `handleRead`, `dial`, `len`, `remove`, `closeAll` | entry side, destination | map shared by many readers, limit, one failure for all |
| Client loop | `client/client_connect.go`, `client.go` | backoff counter, errgroup, context | `Start`, `connectionLoop`, `connectionOnce`, `Close`, `Wait` | server, Tunnel, proxies | which errors are final, retry budget, ending everything |
| Users and authentication | `server/server.go`, `share/settings/users.go`, `user.go` | `users`, `sessions` | `authUser`, reload, `DeleteUser`, `ResetUsers` | SSH handshake, handler | maps that change between two looks |
| Server session | `server/server_handler.go`, `remote.go` (`CanListen`), `tunnel.go` (`BindRemotes`) | ports, errgroup, context | probe, reply, callbacks, bind, listen, close | other sessions through the ports | check-then-act on ports, partial failure, who ends whom |
| TCP and stdio proxy | `tunnel_in_proxy.go`, `share/cio/pipe.go` | listener, `count` | `listen`, `runTCP`, `runStdio`, `pipeRemote`, `Pipe` | Tunnel, callbacks | callbacks on error paths, half-closed streams, data in two directions |
| Exit dispatch | `tunnel_out_ssh.go`, `connstats.go` | connection counters | `handleSSHChannel`, `handleTCP`, requests | entry side | rejections, callbacks |
| Keep-alive | `tunnel.go` (`keepAliveLoop`, `KeepAliveChan`) | timer, ping goroutine | ping, close | SSH connection | a late answer, a goroutine nobody waits for |
| Remote strings | `share/settings/remote.go` | none | `DecodeRemote`, `Encode`, `UserAddr` | client, server, listeners, exit dispatch | defaults, round trip, one meaning in five places |
| Websocket connection | `share/cnet/conn_ws.go` | rest of a message | `Read`, `Write` | SSH | messages as a byte stream |
| HTTP server | `share/cnet/http_server.go`, `server_listen.go`, `server.go` | errgroup, listeners | `StartContext`, `GoServer`, `Close`, `Wait` | handler | restarts, cancellation, hijacked connections |
| the rest | keys, logger, signals, TLS, examples | | | | none that a model would show |

What makes each part correct:

- **Tunnel**: callers get the connection that is there at one instant of their
  call and otherwise wait; the gate is open while a connection is served; no
  wakeup is lost; the wait group is not misused; a cancelled context ends the bind.
- **UDP entry**: what is cached is the channel of the current connection, a
  stale channel is a dead one, `run` ends, a reconnect gets a new channel.
- **UDP exit**: replies go to their source, readers are bounded and end, an
  entry is removed only by its own reader.
- **Client loop**: the retry budget, and that each of `Close`, a proxy error and
  giving up ends the whole client.
- **Authentication**: the addresses that are checked are those of the user whose
  password was checked.
- **Session**: an accepted session has its ports, a lost one gives them back, the
  end of one half ends the other, and OnClose is told last.
- **Forwarding**: nothing that was sent is lost without a cause, an end on either
  side reaches the other, callbacks pair up.
- **Keep-alive**: a silent peer is found in time, and no other is dropped.
- **Remotes**: a string means what the documentation says, to every part that
  reads it.
- **Websocket**: messages are read as one byte stream.
- **HTTP server**: a stop ends what was started, `Wait` tells the truth, a failed
  start leaves nothing behind.

## 2. Plan

| step | modules | state |
|---|---|---|
| 1 | `SshSlot`, `Tunnel`, `TunnelProofs` | done, with proofs |
| 2 | `UdpExit`, `UdpEntry` (over `SshSlot`'s slot), `UdpProofs` | done, with proofs |
| 3 | `ClientLoop`, `ClientLoopProofs` | done, with proofs |
| 4 | `ServerAuth`, `ServerSession`, and their proof modules | done, with proofs |
| 5 | `Forward` (`pipeRemote`, `runStdio`, `Pipe`, channel dispatch, callbacks), `KeepAlive`, `ForwardProofs` | done, with proofs |
| 6 | `ByteStream`, `WsConn`, `HttpServer`, `CnetProofs` | done, with proofs |
| 7 | `RemotePath`, `RemotePathProofs` | done, with proofs |
| 8 | `Reconnect` (a client loop against a server with a stale session) | left; its two halves are `ClientLoop` and `ServerSession` |

Abstract specifications: `SshSlot` (a Tunnel without goroutines), refined by
`Tunnel`, over whose slot `UdpEntry` is written; and `ByteStream`, refined by
`WsConn`.

## 3. Modules

Every property is stated, with a comment, at the end of the module it belongs to.
Two specifications that one proof module extends have names of their own: those of
`UdpExit`, `KeepAlive` and `WsConn` are `ExitSpec`, `KeepAliveSpec` and `WsSpec`.
Definitions whose comment begins with "Slip:" are plausible mistakes in the
code; no specification uses them. `PROJECT.json` lists for each property the
slip that breaks it, and for each definition the lines it stands for.

### SshSlot and Tunnel

`SshSlot` has a slot for one connection. A connection enters it once
(`Publish`), leaves it once (`Retract`); a call is answered with what the slot
holds or with nothing.

`Tunnel` is `BindSSH`, `getSSH` and `waitGroup`, one action per atomic
operation: `DoneLoad`, `DoneCas`, `InnerDone` and `InnerRelease` are `Done`,
which BindSSH and every `DoneAll` run; `AddN` and `InnerAdd` are `Add`.
Goroutines are the binder, one canceller per connection (`CancelClose`, then
`DoneAllCheck`), and for each call the caller (`Get...`) and the goroutine of
`activatingConnWait` (`WaitEnter`, `WaitExit`). The inner `sync.WaitGroup` is its
counter, its waiter count and its three panics. `sharedCtx`, chosen once, tells the server
(proxies share BindSSH's context) from the client (BindSSH has a child context).
The refinement mapping takes the slot to be `activeConn` and a connection to be
spent once BindSSH has published it.

### UdpEntry

`pc` has one entry for each of `runInbound` ("in") and `runOutbound` ("out"). The
mutex is `mut`; `Lock`, `GetSSH`, `OpenChannel` are `getUDPChan`, which holds it
until it returns. `unset[h]` is the goroutine of `unsetUDPChan` for channel `h`.
The tunnel is the slot of `SshSlot` (`Connect`, `ConnEnds`, `Withdraw`), and
`HangUp` is the exit side closing one channel. `GetSSHNil` is always possible: a
timeout, a cancellation, or the open gate described under Differences.

### UdpExit

`hpc` is `handleUDP`: decode and `dial` (`DialCached`, `DialNew`, `DialFails`),
count and start a reader (`CountConns`), `Write`, and the deferred `CloseAll` and
`CloseStream`. `reader[k]` is the goroutine of socket `k`. Each critical section
of `udpConns` is one step. `replies` is history: which socket answered whom.

### ClientLoop

`pc` walks through `connectionOnce` (dial, handshake, config, serve) and
`connectionLoop` (judge, sleep, giveUp). The kind of an error is a
nondeterministic choice where the code has both outcomes. `proxies` is
`BindRemotes`, the other goroutine of the errgroup: `Bind` and `ListenFails` are
`NewProxy` and the start of the proxies, `ProxyFails` the first failure of one that
listens, `ProxiesEnd` its return. A stdio remote has a goroutine that no listener's
end concerns, `stdio`: it looks at its context (`StdioLooks`), waits for a connection
and a channel (`StdioGivesUp`, `StdioPipes`), and stays in its pipe until the channel
has ended and the reading of standard input, too (`StdioPipeEnds`), which only
`input` ending makes sure of. `config` is chosen once; `retries` is history.

### ServerAuth

A `User` is a record with the set of remotes its patterns match. `AuthLen` and
`AuthGet` are the two critical sections of `authUser`; `HandlerLen`, `TakeEntry`
and `Config` are the handler; `Reload`, `ResetUsers` and `DeleteUser` replace the
map at any time. Auth files in which two entries have one name behave like one
with either entry, since the later one wins in an unspecified order. `wasOpen` is
history: a server without users asks for no password, which is documented, and
the properties exclude it.

### ServerSession

`Probe`/`ProbeEnds` are the two halves of `CanListen`; `Accept` the reply and the
errgroup; `Listen`, `ListenFails`, `RunProxies`, `ProxyFails`, `ProxyCloses`,
`ProxiesEnd`, `ProxiesFail` are `BindRemotes` and its proxies; `BindSSHEnds` and
`CtxCloses` are BindSSH seen from the handler. `connect` and `close` are the
goroutines that `Accept` and `Return` start for OnConnect and OnClose, and
`first` is what the first remote has for a local port, which is their key.
`orphans` are listeners that no
goroutine will close: those of the remotes before one that failed, and, in one
order of `runTCP`'s two goroutines, the listener whose `Accept` failed. The
garbage collector closes them (`Collect`).

### Forward

One connection at a time, from the user's socket to the target's and back.
`pc["entry"]` is `pipeRemote` inside `runTCP` or `runStdio`, `pc["exit"]` is
`handleSSHChannel`; `copy[s]` are the goroutines of `Pipe` on side `s`, which end
by `CopyFails` or `CopyReadsEof` and then close both ends (`EndCopy`). The
sockets and the SSH channel are bounded buffers of chunks (`Window`) with the
orders in which TCP and SSH may close, reset or lose them. `calls` counts the
callbacks of each side and, as history, the channels its handler got. `config` tells TCP
from stdio, a channel the exit denies, and one for SOCKS or UDP.

### KeepAlive

The loop sleeps, asks and waits (`loop`, `timer`), the goroutine of
`KeepAliveChan` is `ping`, whose unbuffered channel is ready in "sending" and
"closed". Time is discrete: `Tick` only happens when no goroutine can run, since
its periods are minutes. `quiet` and `asking` measure how long the peer has been
silent, and how long it has had the ping.

### ByteStream and WsConn

`ByteStream` is what a reader may expect of a `net.Conn`: bytes in order, and the
end after them unless the connection broke. Bytes are numbered, so a message is
the slice from one number to another. `WsConn` has the messages on the `wire` and
the kept rest in `buff`; `Read` is `ReadBuffer` or `ReadMessage`, both of
which `Return` as much as fits.

### HttpServer

`Start` is `StartContext`: the settings are refused (`SettingsRefused`), the port
is not free (`ListenFails`), or `GoServer` starts the two goroutines `Serve` and
`CtxCloses`. `shut`, and what `ServerClose` does to listeners and connections, is
net/http. Several starts and waits of one server interleave. `closed` and `told`
are history.

### RemotePath

A string is its parts, a part a word and a protocol. The regular expression of
`DecodeRemote` drops empty parts, so no part is empty, but nothing needs to stand
before a protocol (`Parts`). Which words are ports, which are no hosts, and what
`strings.ToLower` makes of a word are constants; the assumption on them is that
the words the code compares with or puts in as defaults are none of them by
accident. The loop over the parts is unrolled (`TakeParts`): five or more are
refused. A string that begins with a colon is left out. `Decode` is `NewClient`'s loop
over `DecodeRemote`, `Check` and `Agree` the server's, `Open` names a channel as
the listener of the remote does, and `Serve` reads the name as `handleSSHChannel`
does. `Shape` and `Meaning` are the reference: a table of the forms in the
comment of `remote.go`, written without regard to how they are parsed, with no
word for a host that is left out: the two comments that give one disagree, and
`Means` accepts either (`DefaultHosts`). An address is compared as it is dialled:
`L4Proto` puts the whole name of a UDP channel in lower case (`Word`, `Dialled`).
`Encode` and its inverse are the package's: the client sends the decoded fields.

## 4. Runs

| run | instance | shows |
|---|---|---|
| `tunnel` | 2 connections, 1 call, on the client and on the server, fair | `CounterAccounting`, `WaitersWakeUp`, `CancelEndsBind`, `LossReleasesCalls` hold; `Tunnel` implements `SshSlot` (`SlotSpec`) |
| `exit` | 2 sources, 3 sockets, limit of 1 reader, fair | `ReaderOwnsEntry`, `ReaderCap`, `RepliesReturnToSource`, `ReadersEnd` hold |
| `entry` | 2 connections, 2 channels, fair | `UnsetOwnsCache`, `StaleOnlyWhenDead`, `ReconnectRebinds`, `CancelEndsRun` hold |
| `client` | retry limits 0, 3 and none, with and without listening and stdio remotes, a server that answers, fair | `BudgetSpent`, `AnyEndEndsClient` hold |
| `auth` | 2 sessions, 3 User objects of 2 names | `AccessChecked`, `EntryFound` hold |
| `session` | 2 sessions, a TCP and a UDP port, configurations that name none, one, both or one twice, fair | `HeldWhileServing`, `CloseCalledLast`, `LossFreesPorts`, `ErrorEndsSession`, `EndIsTold` hold |
| `forward` | 1 connection at a time, up to 2 chunks each way, TCP, stdio, denied, and SOCKS or UDP, fair | `LossHasCause`, `CallsPaired`, `EndReachesBoth`, `CancelEndsStdio` hold |
| `keepalive` | periods of 1 to 5 ticks | `SilenceBounded`, `OnlySilenceTimesOut` hold |
| `stream` | messages and buffers of 0 to 4 bytes, 8 bytes in all, fair | `WsConn` implements `ByteStream` (`StreamSpec`); `AllRead` holds |
| `http` | 2 starts, 2 waits, 1 client, 3 settings, fair | `FailedStartFreesPort`, `WaitTellsTruth`, `NoServiceAfterClose`, `StopEndsService` hold |
| `remote` | every string of up to 4 of 12 parts, some of 5, pairs of remotes; about 500,000 states | `FollowsDocs`, `RoundTrip`, `ServedAsChecked` hold |
| `tunnel_panic` | 2 connections, 1 call | **violated**: "negative WaitGroup counter" |

`TypeOK` is checked by the runs `forward`, `http` and `remote`, and proved for
every module. The violated property states what a comment
of the code says; `PROJECT.json` quotes it under "findings" with the lines that
break it.

### Differences between the comments and the code

These are steps of the models. The properties that hold are stated to leave
them out.

- `tunnel.go:106,114` say that `getSSH` blocks until there is a connection. The
  `DoneAll` of a connection that is gone may run after BindSSH's `Add` and open the
  gate, and `getSSH` then returns nil at once (`GetReread`). Callers take the nil
  for a failure: a TCP connection is closed, a UDP proxy ends and with it the client.
- `tunnel_out_ssh_udp.go:55` says that up to max-conns goroutines wait for
  replies. `len` counts entries, and one without a reader is never removed: once
  the map has exceeded the limit, a new source gets no reader although none is
  running (`CountConns`).
- `tunnel_in_proxy_udp.go:130` says that an EOF gets a new connection. The
  cache is reset only with the SSH connection: when the exit closes the channel
  alone, `decode` returns EOF for ever (`UseEof`).
- `client.go:337` says that `Close` closes the client. Neither the handshake nor the
  config request looks at the context, so it does not with a silent server
  (`AnyEndEndsClient` is checked under `AnsweredSpec`). Nor does it with a stdio
  remote in its pipe: `runStdio` looks at its context between two pipes only, and
  the reading of standard input is not interrupted, so `Wait` hangs until the input
  ends; giving up has the same effect (`StdioPipeEnds`, which `AnyEndEndsClient`
  excepts).
- `tunnel.go:161` says that BindRemotes blocks until a proxy fails. It goes on
  waiting for a UDP proxy beside the failed one that is blocked in `decode`, and
  the session stays half dead until its connection ends (`ProxiesFail`).
- `tunnel_in_proxy.go:73` says that a proxy is closed by cancelling its context;
  the outbound loop of a UDP proxy stays in `decode` until its connection ends
  (`CancelEndsRun` asks for both), and `runStdio` in a pipe until its input ends
  (`CancelEndsStdio`, `AnyEndEndsClient`).
- `client.go:44` says that a `MaxRetryCount` of -1 is no limit; a `net.Error` that
  is not temporary ends such a client too (`ServeEnds`, `Judge`).
- `server_handler.go:76` asserts that a session always has an entry; without
  users at the handshake and with one at the handler, it panics (`EntryFound`
  holds as long as there always were users).
- `server.go:33` likens `Config.Auth` to an entry of the auth file; a reload of
  the file drops it (`Reload`).
- `server_handler.go:131` confirms that a port is available; another session may
  take or probe it before `BindRemotes` listens (`ListenFails`).
- `client.go:59` requires a remote port. `stdio` alone is accepted without one, and
  since its `LocalPort` is empty too, the server never calls OnClose for it
  (`EndIsTold` and `FollowsDocs` except it).
- `remote.go:12-33` give 127.0.0.1 for a host left out on either side,
  `client.go:57-60` 0.0.0.0. The code takes 0.0.0.0 for the local host, against the
  first, and 127.0.0.1 for the remote one, against the second (`Defaults`).
  `FollowsDocs` asks that every part named is in its place and that a host left
  out is one of these two; it does not decide which.
- For `H:53/udp` access is asked for `H:53` and the exit dials `h:53`, since
  `remote.go:177` lower-cases the name with its protocol. A user whose addresses
  tell cases apart is checked for another string than the one dialled.
  `ServedAsChecked` compares UDP addresses in lower case (`Serve`, `Dialled`).
- The protocol of a part is matched in either case, but an upper-case one is known
  to no listener and is dropped by `Encode` (`CanListen`, `RoundTrip`). `stdio` with
  `/udp` is accepted and served as TCP (`Name`). Strings
  of no documented form are accepted too: `80:h:g:90` is read as `h:80:g:90`, and of
  three ports the middle one is dropped (`TakePort`, `TakeHost`).
- `server_listen.go:18-19` say that key and certificate must both be set. One
  without the other is not refused, and the server speaks plain HTTP
  (`HasKeyCert`). A CA is ignored unless they are set. The warning of line 52 is
  unreachable, since both kinds of certificates are refused in line 38.
- A `Start` after a `Close` returns nil and serves nothing, and its `Wait` returns
  nil (`ServeRefused`). If one of two starts fails, it closes the other, whose
  `Wait` then returns nil (`ServeFails`). A start with a nil context leaves its
  listener open (`GoServerNil`). Sessions survive `Close`: their connections are
  hijacked (`ServerClose`).
- Every ping that times out leaves its goroutine blocked for ever, on the request
  or on the channel that nobody reads any more (`Timeout`).
- `pipeRemote` calls OnForwardingConnect before it has a connection, and returns
  without OnForwardingClose if it gets none (`EntryFails`). `CallsPaired` asks at the
  entry for one OnForwardingClose exactly if there was a channel.

**Bounds.** Two connections are enough for every interleaving of an old and a new
connection, since a connection has one canceller, and whatever the old one
does the next bind can meet; the proofs cover any number. Three sockets and two
sources exceed a `MaxConns` of 1 and let a source be dialled twice. Two channels
are one on each connection, or two on one, so an old `unsetUDPChan` meets a newer
channel. The retry limit of 3 is below `AttemptCap` (5), where the counts
saturate, so saturation never decides anything. Two sessions and two versions of
one user give every order of a reload with both. Two sessions on two ports give a
holder and a prober on each. In `Forward` two chunks through buffers of one
keep one on the way while another is sent or lost, and `Accept` starts again
from whatever state the last connection left. Periods up to five ticks let an
answer come before, with and after the timer. Eight bytes in messages and
buffers of up to four give a message that is read in several steps, one that
fits, an empty one, and an empty buffer. Two starts and two waits give a wait on
either side of a restart. `MaxInbox` (1) only has to tell an empty socket from
one with a reply. Deadlock is not checked: each of these systems really stops,
when its finite connections, sockets or sessions are used up or the client has
exited.

**Fairness.** Goroutines that can run do run (weak fairness of their steps).
Taking a mutex has strong fairness, because `sync.Mutex` hands itself over to a
waiter that has waited for 1 ms. The runtime collects garbage at least every two
minutes, so `Collect` is fair. Read deadlines of one second are fair; nothing is
assumed of peers, destinations, the network, packets, the 35 s and 15 s timers
or failures. `AnsweredSpec` adds that the server answers the handshake and the
configuration. In `ClientLoop` what waits on a channel goes on, fairly, only without a
connection, and a pipe of stdio only when its input has ended. In `Forward` the applications receive what is sent to them, the
dial and `getSSH` have time limits, both sides notice the end of a connection
(keep-alive sees to that), and the handlers of SOCKS and UDP end with their
channel; no application has to send, or to end. In `WsConn` the reader goes on
reading into buffers that are not empty, as the SSH transport does. In
`HttpServer` nobody has to start, wait, close or cancel.

## 5. Proofs

Eight modules hold proofs: `TunnelProofs`, `UdpProofs` (`UdpEntry` and `UdpExit`),
`ClientLoopProofs`, `ServerAuthProofs`, `ServerSessionProofs`, `ForwardProofs`
(`Forward` and `KeepAlive`), `CnetProofs` (`HttpServer` and `WsConn`) and
`RemotePathProofs`. `tlapm` checks them for every value of the constants, under
the named assumption of each module (nil is no element of a set, sets whose
members are counted are finite, bounds are natural numbers above the limits,
what is said of words under RemotePath). Every invariant and every action
property that a passing run checks is proved, and both refinements. Where two
components share a module, its first half is about one and its second about the
other; neither half uses the other.

**Tunnel.** `IInv` is `CoreInv` and `CounterAccounting`. `CoreInv` adds to the
type invariant: which goroutine may be at which label (`ControlOK`); whoever has
passed the load has loaded 1 (`LoadedOne`), so that a successful compare-and-swap
takes `n` from 1 to 0; `n` is 0 from BindSSH's Done to its Add (`CountTaken`);
the slot holds the bound connection exactly from publishing to clearing
(`SlotHeld`); a bound connection was started (`BoundStarted`); a call that got a
connection has one (`GotConn`). `CounterAccounting` relates the inner counter to
the number of goroutines between their two updates; its step needs how that
number changes when one goroutine moves (`DecsEnter`, `DecsLeave`, `DecsSame`).
From it follow `TypeCorrect`, `SingleBind`, `Accounting` and `GateOpen`.
`ImplementsSlot` maps each step to a step of `SshSlot` or a stutter.

**UdpExit.** `MapInv` relates the map to the sockets: an entry of a source is a
socket dialled for it; a reader's socket is the entry of its source while the
handler runs; and the packet a reader holds is its socket's source. `CapStep` adds
that readers are injectively entries, so that their number is bounded by the
count the handler compared with the limit. From it follow `ExitTypeCorrect`,
`ReaderOwns`, `ReadersBounded` and `RepliesReturn`.

**UdpEntry.** `UnsetOwnsCache` is not inductive alone: it needs that the mutex is
held exactly inside `getUDPChan` and over an empty cache (`MutexHeld`), that a
channel and its `unsetUDPChan` start together (`UnsetStarted`), and that the
latter asks for the mutex only after the end of the connection
(`UnsetAfterEnd`), which also makes what it clears a dead channel and so gives
`StaleOnlyWhenDead`. `SlotUsed` types the environment.

**ClientLoop.** `AttemptCounts` ties `backoff.attempt` to the retries really made
(one ahead while sleeping), `WithinLimit` bounds it; `BudgetSpent` follows where
the loop compares.

**ServerAuth.** `PassedOn`: what stands in `Server.sessions`, and then in the
handler, is the User that was accepted or nothing; `Guarded`: with users all along
no session gets to the handler without one; `GrantedByUser`: what was granted
is within the handler's user. Together they are `AccessChecked` and `EntryFound`.

**ServerSession.** `ProbesOwn` (the port `CanListen` closes is the session's own),
`ListensSoFar` (the listeners made by the loop of `BindRemotes` stay) and `Stages`
(which goroutine runs when, orphans only after a failure) strengthen
`HeldWhileServing` and `ServesAll`. `CallStages` (what was started of the
callbacks at each stage of the handler) gives `CloseCalledLast`.

**Forward.** `CallsPaired` follows from which calls were made, and which channels
got, at each place of the two handlers (`CallsMade`). `LossHasCause` is about a
sender that has ended and a peer that has read to the end, so it is not
inductive: data goes missing much earlier. `Missing` counts the chunks that
were sent and are in no buffer and not received; `FlowBounded` says that it is
never negative. `LossExcused` says of every chunk that is missing, or is stuck in
a closed socket, and of every socket that closes on an unfinished stream, that the
loss is `Excused`: the connection is down, the receiver has ended, or
it lost chunks, or has some stuck, itself; a channel that the exit rejected or
hands to a library (`Ignored`) is the other way out. `ChansEnded` ties each closed
channel to a side that has `Ended`. Excuses last until the next connection:
every step but `Accept` makes `Progress` (nothing that is missing comes back, an end
stays an end), so of a step only what it loses itself has to be shown
(`LossesShown`). With stdio a new round of `runStdio` finds the old round's input,
and `LossHasCause` is claimed of TCP only. `TypeOK` gives the limits of the buffers.

**KeepAlive.** The clocks are tied to the timer: the ping has waited for what is
gone of its period, and the peer has been silent for at most one period more.
From that follow `SilenceIsBounded` and `OnlySilence`.

**HttpServer.** `Started`: who waits for a start knows one, and it ended as he was
told; `Listeners`: a listener is open from `net.Listen` to the end of its `Serve` or
the `Close` of the server, and `Serve` ends without failing only by that; `Causes`: a
server is closed by the user or through a context, which the user or a failed
start has cancelled. From them follow `FailedStart` and `WaitIsTrue`. `CloseIsFinal`
is an action property, proved from `Listeners`: only a serving start with an open
listener accepts, and a closed server has none.

**WsConn.** The rest in `buff` and the messages on the `wire` are a chain of slices,
each beginning where the one before ends, from `read` to `written`. It is kept by
`Append` and `Tail`, and makes each `Read` one of `ByteStream`'s (`Implements`).

**RemotePath.** Since a string that is accepted has one to four parts, decoding it
is at most four applications of `TakePart` (`Unrolled`), and no induction over
strings is needed. Each application keeps ports ports and hosts hosts
(`TakeShaped`) and finds a port unless the string is SOCKS or `stdio` alone
(`TakePorted`); the defaults fill in the rest (`Completes`). That is `Decoded`, which
holds of every remote accepted, however odd its string (`DecodesTo`). A remote that is
`Decoded` has few encodings, each decoded again part by part (`ReadBack`): this is
`ReadsBack`. For each documented form, the fields are computed the same way
(`Forms`, `Documented`): this is `DocsFollowed`. `PathInv` says that the remotes
agreed on are the decoded ones, that the server asked for the access of each, and
that the name of a channel is that of its remote; with it `ServesAsChecked` is what
`Serve` reads from such a name, in lower case if it ends in `/udp`.

**Only model-checked**: the liveness properties (TLAPS 1.4.5 does not reason about
fairness and ENABLED) and the violation.

## 6. Not modelled

The composition `Reconnect` of the plan. Besides that: payloads, byte counts and
logging; the SSH, websocket, gob and SOCKS libraries, which are taken to do what
their documentation says; TLS and certificates; key generation (a hash chain);
the command line, which is empty, and the examples. Remotes that are not
reverse need nothing of a server session, and a server with `Reverse` off
refuses the others before any port is touched.
