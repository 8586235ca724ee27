# Verification of the OddSockets Go SDK

TLA+ models of the SDK in `src/oddsockets`, the TLC configurations that check
them, and TLAPS proofs of the properties that matter most. `PROJECT.json` maps
each definition to the lines it models and lists runs, mutants, findings,
hazards and theorems.

## 1. Inventory

| Component | State | Operations | What makes it correct |
|---|---|---|---|
| Connection lifecycle (`client.go`) | `state`, `socket`, `reconnectCount`, `heartbeatTicker`, `ctx` | `NewClient`, `Connect`, `scheduleReconnect` and its goroutine, `Disconnect`, `Close` | state, socket and heartbeat agree; retries are bounded and end; `Close` leaves nothing running |
| Socket.IO transport (`socket.go`) | connection, `writeMu`, `connectedCh`, `closeCh`, `closeOnce`, `connected` | `connect`, `readLoop`, `Emit`/`writeRaw`, `close` | one writer; `closeCh` closed once; teardown completes; `connect` returns |
| Request/response calls (`socket.go`, `channel.go`) | the handler table, two Go channels per call | `request`, `add`, `Off`, `dispatch`; `Subscribe`, `Unsubscribe`, `Publish`, `GetHistory`, `GetPresence` | the right answer to the right call; every call returns and cleans up |
| Enhanced features (`enhanced_features.go`) | the same table | 16 queries, 29 notices | the same, without the matcher and the cleanup |
| Channel subscription and delivery (`channel.go`) | `subscribed`, `messageChan`, options, history, presence | `Subscribe`, `Unsubscribe`, `handleIncoming`, `deliverMessage` | client and worker agree on the subscription; what is delivered passed its own filter; history is the latest |
| Token refresh (`client.go`) | `token`, `tokenExpiresAt`, `tokenRefreshTimer` | `resolveToken`, `scheduleTokenRefresh` and its callback, `updateAuth` | a connected client's token is renewed, ahead of its expiry; a disconnected one's is not |
| Heartbeat goroutine (`client.go`) | `heartbeatTicker`, `heartbeatDone` | `startHeartbeat`, `stopHeartbeat`, the goroutine | a ticker has its goroutine; a stop releases who waits for it; Close ends all |
| Manager discovery (`manager_discovery.go`) | none | `ResolveManagerURL`, `NewClient` | a configured manager is never replaced |
| Bulk publish (`client.go`) | none | `PublishBulk`, `Publish` | each message is reported on, at its place |
| Event listeners (`client.go`) | `eventHandlers` | `On`, `Off`, `emitEvent` | - |
| Message and presence parsing (`channel.go`) | none | `envelopeToMessage`, `parseMessages`, `parsePresence` | entries are read one by one, however the worker spells them |
| Types, re-exports, demos, examples | none of their own | | |

How they interact. `Connect` asks the manager for a worker over HTTP, builds a
`socketIO`, calls its `connect`, stores it in `Client.socket` and attaches the
receive path. `Channel` methods and `EnhancedFeatures` check
`Client.IsConnected` and then use `Client.socket`: they add handlers to its
table, emit, and wait on Go channels the handlers fill. The read loop dispatches
each event to matching handlers, each on a goroutine of its own. `Disconnect`
unsubscribes the channels through the same socket, closes it and sets it to nil.

What is hard here:

- `Client` has no lock over its connection state, and `AutoConnect`,
  reconnection timers and the application all run `Connect`;
- a socket is closed by up to three goroutines, and written by many;
- responses carry no call identifier: answers can be late, shared or a
  broadcast's, and errors are taken by whoever listens;
- every wait has a timer racing the answer;
- a channel's `subscribed` is tested in one critical section and set in another,
  after the worker's answer, and outlives the connection;
- the heartbeat goroutine and `stopHeartbeat` share two unguarded fields;
- the refresh timer runs beside `Connect`, `Disconnect` and older callbacks.

## 2. Modules

| Module | Models | Proofs |
|---|---|---|
| `ConnectionSession` | what the lifecycle promises: phase, retries, link (abstract) | |
| `SocketSession` | what a socket promises the client: stage, wire, release (abstract) | |
| `RequestReply` | what a call promises the application: phase, request, reply (abstract) | |
| `ClientLifecycle` | `client.go`: connection lifecycle | `ClientLifecycleProofs` |
| `SocketTransport` | `socket.go`: one socket's life | `SocketTransportProofs` |
| `SocketRequests` | `request` and the table, as the `Channel` methods use them | `SocketRequestsProofs` |
| `EnhancedCalls` | `enhanced_features.go`, over the table and a replaceable `Client.socket` | `EnhancedCallsProofs` |
| `ChannelSubscription` | one `Channel`: subscription, delivery, local history, across connections | `ChannelSubscriptionProofs` |
| `Heartbeat` | `startHeartbeat`, `stopHeartbeat` and the goroutines between them | `HeartbeatProofs` |
| `TokenRefresh` | minted tokens: resolving, arming, firing, renewing | `TokenRefreshProofs` |
| `SdkFunctions` | the functions without state: manager URL, expiry and delay, bulk publish, answers | `SdkFunctionsProofs` |
| `MC...` | values and symmetry for TLC | |

Common conventions. `pc[p]` is where a goroutine is in the code; `Goto(p, from,
to)` moves it. Each action is what the goroutine does between two accesses
another goroutine could come between; a critical section under a Go mutex is
one action. A Go `select` with several ready cases takes any of them, and a
timer may fire at any time. Definitions marked `(mutant)` stand before the
definition they distort and are used by nothing: each is a plausible bug that
some property must catch.

**ClientLifecycle.** A goroutine is a caller or a timer (the goroutine
`scheduleReconnect` spawns). `Connect` is `CheckConnected`, `CheckConnecting`,
`Begin`, `Assign`, `Dial`, `Install`, `StartHeartbeat`, `Commit`, or `Fail` and
`Decide`. The three copies of the failure path in `Connect` are one. The two
halves of `reconnectCount++` are two steps (`SchedSet`, `SchedSpawn`), and so
are the test and the use of `c.socket` in `Disconnect`: the compiler may load
the field once or twice, hence the choice in `CloseSocket`. Goroutines are
scheduled freely. Two history variables restrict nothing: `mixed` becomes TRUE
when a goroutine enters while another is inside, and `overlapped` when both are
callers. The client has no lock, and some of its properties hold only until
`mixed`. That is a statement about executions and no discipline an application
could keep: it can make its calls one at a time, and still a backoff timer may
wake up during any of them. `lifecycle_close` shows what comes of it. The length
of the backoff, the worker's identity, and the channels that `Disconnect`
unsubscribes are abstracted. Failing to get a token, in token mode, is one more
way to reach `Fail`.

**The abstract specifications** say what a component promises without its
goroutines. `ConnectionSession` is implemented by `ClientLifecycle`, whose
promise ends (`Contend`) where two goroutines are inside the client at once;
`SocketSession` by `SocketTransport`, and `RequestReply` by both paths a call
can take, `SocketRequests` and `EnhancedCalls`: a call is opened, asked of the
worker at most once, and returns once, with a reply that fits it, caused by a
request already made, or with none. What fits differs (`CallFitting`): in
`SocketRequests` an answer to the same method on the same channel, or any error;
in `EnhancedCalls` a response to, or an error about, the query's own method,
and it is an object.

**SocketTransport.** Goroutines: the one in `connect`, the read loop, one in
`Disconnect`, and writers. Frames are an Engine.IO packet type with no payload.
The network may break at any time, and the worker may send any frame, an ack
only after the CONNECT. Once an Emit has gone out, it may also stop reading
(`Stall`; the handshake alone fills no buffer): then a write blocks until the
connection breaks. `Stage` is what `connect` has said so far: with the
connection, the flag, `closes` and `wire` it is the state of `SocketSession`.

**SocketRequests.** A call is a `Channel` method on a channel; a message is
`[event, chan, query, of]`, where only the worker knows `of`. The worker answers
each request at most once, after any delay, with a result or an error, and sends
a subscriber a history snapshot. The socket may close at any time.

**EnhancedCalls.** The eight tables list each method's event and the event a
query waits for, in the order of the file. The methods differ in nothing else,
so `Begin` ... `Timeout` are mapped to one of them, `GetThread`. `live` stands
for a socket's `connected` flag and the client's state together. A nil
dereference sets `pc` to `"panic"` and stops everything. Handlers are never
removed by the call that added them, as in the code. A payload that is no object
uses up the one-shot handler and sends nothing (`RunResult`); `spoiled` and
`crossed` record the calls that met such a payload, or another socket between
their fetches of `Client.socket`.

**ChannelSubscription.** Callers run `Subscribe`, `Unsubscribe`, or the
`Unsubscribe` inside `Disconnect`, which then closes the socket. `request` is
what `SocketRequests` shows of it: the worker takes the requests of a
connection in order, its acks go to whoever waits for that event
(`DispatchAck`), and a call may fail at any time while it waits, its ack still
to come. Each message has a goroutine (`Look`, `Keep`, `Load`, `Send`: one per
critical section). A Go channel and the options that came with it are one
value, a target; a filter is the set of messages it lets through. `overlapped`,
`clean` and `retained` are history variables. `link` is `Client.socket`, nil,
open or dead, and `IsConnected` holds when it is open. Another socket may only
follow a `Disconnect`, since nothing else ever leaves the state Connected.

**Heartbeat.** Tickers and done channels are numbered as they are made.
`stopHeartbeat` is a step per access (`StopTest`, `Halt`, `Forget`, `CloseDone`,
`Renew`), and a turn of the goroutine evaluates `c.heartbeatTicker.C` and then
`c.heartbeatDone` before it waits on what it found (`EvalTicker`, `EvalDone`),
as a Go `select` does. A stopped ticker may still hold one tick.

**TokenRefresh.** An actor is the application, which connects and disconnects
one call at a time (`ClientLifecycle` has the rest), or a timer, armed or in
its callback. A timer may fire as soon as `AfterFunc` has armed it (a token's
life may be shorter than the lead). `resolveToken` and `scheduleTokenRefresh`
are shared by both kinds. A callback tests `c.socket` and loads it again for
`updateAuth`; a nil there sets `pc` to `"panic"`. Which token the socket has is
not in the model, since a socket sends its token once, when it connects. A
failed Connect leaves Disconnected or, while it may retry, Reconnecting
(`Failed`), from where both calls may follow. `due` is the token for whose
expiry each timer was armed. `lost` records why the renewals of this connection
ended, `mixed` that a callback has run beside a call or another callback.

**SdkFunctions.** One action per entry point, each one evaluation on one input.
Texts are taken apart as far as the code looks: a URL has blanks, trailing
slashes and a core; an `ExpiresAt` is a number, an ISO-8601 time, or neither; a
worker's envelope is a function on the field names it has, and `Selected` is the
append loop of the two parsers. A message has the time at which it is read, as
in the code, and the metadata of its envelope if those are an object. Products
and differences wrap as `int64` does.

## 3. Runs

| Run | Instance | Shows |
|---|---|---|
| `lifecycle_calls` | 2 callers, 3 timers, 2 sockets, 1 retry, 3 calls | `PanicTakesOverlap`, `PendingIsBacked` and `RetriesTerminate` in any interleaving; `NoOrphanSocket`, `StateAgrees` and refinement of `ConnectionSession` (`ImplementsSession`), its bound on retries and its liveness included, until two goroutines are inside at once |
| `transport_teardown` | 2 writers, 3 frames after OPEN, 2 emits | `FailedConnectTearsDown`, refinement of `SocketSession` (`ImplementsSocket`), `ConnectReturns`, and `TeardownCompletes` unless a write blocks for ever |
| `requests_calls` | 2 `GetHistory` and a `Subscribe` on one channel | `NoHandlerLeak`, `WaitingIsArmed`, and refinement of `RequestReply` (`ImplementsCalls`) |
| `enhanced_calls` | `SubscribeThread` twice, 2 sockets in turn, a stray error or a broadcast, payloads of either kind | `SendNeverBlocks`, `ResultIsArmed`, and refinement of `RequestReply` (`ImplementsCalls`) |
| `channel_calls` | 2 callers, 4 calls, 2 targets, 2 messages, 2 connections | `SubscribedIsJoined`, `PresenceAgrees`, `FilterHonoured`, `HistoryIsLatest`, `PanicTakesOverlap`, `SubscriptionIsStable` |
| `heartbeat_calls` | 2 callers, 2 starts, any number of stops, Close | `StopReleasesWaiters`, `TickerIsServed`, `StopPanicTakesOverlap`, `CloseEndsHeartbeats`, `BeatsGoOn` |
| `token_calls` | 3 timers, 2 connections, 2 tokens and an opaque one | `RenewalIsBacked`, `ArmedIsStored`, `RenewalGoesOn`, `DisconnectStopsRenewal` |
| `sdk_functions` | every input of small domains | `ManagerIsNeverReplaced`, `RefreshIsAhead`, `BulkReportsEach`, `AnswersAreRead` |

Several properties hold only while calls do not overlap (`overlapped`), or no
goroutine has run beside another (`mixed`). The code promises no more: these
fields are not locked, and TLC finds each of the properties violated once its
premise is dropped.

The following runs end in a counterexample. Each checks one sentence of the
repository.

| Run | Sentence | What happens |
|---|---|---|
| `lifecycle_drop` | `README.md:336` "automatic failover" | a dropped connection leaves the state Connected for ever |
| `lifecycle_close` | `client.go:284` "Close closes the client and releases all resources" | a backoff timer passes `client.go:678` while Close is at work, finds the client Disconnected once Close has returned, and connects it; one caller is enough |
| `requests_ack` | `channel.go:158` "returns the worker ack" | one ack answers two publishes |
| `token_promise` | `README.md:128-130` "refreshes itself with no restart" | a timer that fires before the state is Connected gives up, and nothing renews the token again |

More disagreements between the code and what is said of it, without a run.
Each can be read off the code, or off an action of a model:

- `types.go:94` "Timestamp is when the message was sent": `envelopeToMessage`
  sets it to the time of reading (`channel.go:373`), for a message out of the
  history too, and takes no time from the envelope (`timestamp`).
- `types.go:168` "Connected indicates the client is connected": a Disconnect
  that overlaps the end of Connect leaves Connected with no socket, and later
  Connects answer "Already connected" (`Commit`).
- `client.go:312` "returns true if the client is connected": `connect` may set
  the flag after the read loop has closed the socket (`StoreConnected`).
- `socket.go:391` "close tears down the socket": it waits for `writeMu`, which a
  blocked write holds (`CloseLock`, `Stall`).
- `README.md:229` "with the worker response": a stray error uses up the one-shot
  error handler of an Enhanced query (`Remaining`, `Concerns`), a payload that
  is no object its response handler (`RunResult`), and one response answers two
  queries for the same event.
- `client.go:427` "stopHeartbeat stops the heartbeat goroutine": one that is
  between two turns finds a nil ticker and panics, or finds the new done channel
  and waits for the stop of a later start, or for Close (`EvalTicker`,
  `EvalDone`). Calls in strict sequence do not prevent it.
- `docs/index.html:764` "Thread-safe operations": a Disconnect between
  `IsConnected` and the use of `Client.socket` is a nil dereference (`Panic`,
  `Emit`), and overlapping Subscribe and Unsubscribe leave `subscribed` and the
  worker apart.
- `socket.go:94-96`: refreshed credentials are "carried by the next transport
  (re)connect", but every connect builds a new socket from the current token,
  so what `updateAuth` stores is never sent.
- `README.md:281` filters by `user.premium == true`, which `evaluateFilter`
  looks for as a piece of text; `README.md:337` "Unlimited message size"
  against the 32 KB of `validateMessageSize`.
- `Config.ReconnectAttempts` (`types.go:60`) and `HistoryOptions.Reverse`
  (`types.go:154`) are never read; `EventReconnected`, `EventMessage` and
  `EventPresence` (`types.go:206-216`) are never emitted; `Off` with a handler
  removes all handlers (`client.go:350`); `Publish`, `Subscribe` and
  `PublishBulk` ignore the context they are given.
- `types.go:19` has `Exp` in seconds: one given in milliseconds overflows the
  Duration of the refresh timer. `EraAssumption` leaves such tokens out.

**Bounds.** `MaxCalls` bounds the application's calls, `MaxFrames` and
`MaxEmits` the frames and emits; `Sockets` bounds the connections that can be
opened. Two callers and a timer are what the races of the lifecycle take; three
timers let one sleep while another runs and a third is spawned, so that
`SchedSpawn` never waits for a free one within the call bound. One retry
reaches both branches of `Decide` and both outcomes of the session's budget. A
second one, and with it a timer that wakes up in a later wait than its own,
takes a fourth timer and is left to the proofs, which have any number of each.
`lifecycle_close` and `lifecycle_drop` need one caller and two calls.
Three frames allow an ack, and an event, ping
or close behind it; two writers and the reader contend for `writeMu` in pairs.
In `requests_calls` two calls share a key, and the third, on the same channel,
has its history snapshot under the event the other two wait for: the least in
which an answer meets the handlers of its own call, of a twin and of another
method. In `enhanced_calls` the two calls share their event, and the broadcast
has its name too; `MaxNoise` bounds the messages that answer no call to one. One
spare socket lets a call start on one socket and go on with another. The worker has no bound but its rule to send each message once.
In `channel_calls` four calls are a Subscribe and an Unsubscribe on either side
of a reconnection, or any two of them overlapping twice; one target retains and
filters a message out, the other has presence; Go channels and history hold one
message, so that both overflow. In `heartbeat_calls` two starts make two
goroutines, of which the first may outlive its stop; stops have no bound, since
each takes a ticker. In `token_calls` a callback of each of two connections may
still run when the third timer is armed; arming waits for a free timer, which
the callbacks, all of which end, provide. `sdk_functions` has an `int64` of 13
bits, a second of ten milliseconds and a threshold of 100, in the same
proportions to its instants as the real ones; bulks and answers have up to two
entries, one beside another. The proofs lift the safety properties to all
sizes. Deadlock checking is off in all runs: the application may stop calling,
and then everything rests.

**Fairness.** In the lifecycle and the transport, a goroutine that can run is
run (the Go scheduler), a timer fires, and the network calls of an attempt
return (HTTP has `Config.Timeout`, the handshake fifteen seconds). Nothing
forces the worker to answer or send, the application to call, or the network to
break. In `Heartbeat` the goroutines inside a call and those of the heartbeat
are run and tickers tick; a `select` picks among its ready cases at random, so
a case that is ready again and again is taken (strong fairness of
`EndCancelled`, and of that alone: a goroutine that always has a tick to take
would otherwise never see the cancelled context). In `TokenRefresh` calls and
callbacks go on, timers fire, and the provider returns, with a token or an
error. Nothing makes the application start, stop or connect. `SocketRequests`,
`EnhancedCalls` and `ChannelSubscription` state no fairness: a call ends by its
timer whatever else happens, so that it returns says nothing worth a run, and
their properties are safety properties.

## 4. Proofs

Each proof module extends its specification and holds for every value of the
constants that meets the named assumptions of that specification (`NoSocket` is
not a socket, a method name is one of those of the code, and the like).

**ClientLifecycleProofs.** All theorems are about `Spec`, with any number of
callers, timers, sockets and retries. `PendingIsBacked` is inductive with the
types, since every step that takes the last backing goroutine away also writes
the state. `PanicsTakeOverlap` rests on `HeldInv`: while the application's calls
have not overlapped, the socket a Disconnect has tested is still there at its
second load, since a timer installs sockets and takes none away. Two callers do
reach the panic. The other theorems rest on `SerialInv`: the types and, until
`mixed`, `Discipline`, which says that at most one goroutine is busy, that
state, socket and heartbeat agree while none is, and what each program point
fixes of them in between (`InsideConnect`, `InsideDisconnect`). Any number of
timers may sleep. No property is inductive alone: that `Install` overwrites no
open socket follows from what `CheckConnected` saw and from nobody having
entered since. From `SerialInv` follow `NoOrphanSocket`, `StateAgrees`,
`RetryBudget` (which no run repeats, as the refinement bounds the retries), and
that each step is one of `ConnectionSession` or a stutter (`LifecycleIsSession`:
the safety part, `Session!SessionSafety`).

**SocketTransportProofs.** `TransportInv` is the types, `LockInv` (whoever is
at a write holds `writeMu`), `OnceInv` (one goroutine is inside the once
function while it runs, and `closes` counts its progress) and `ConnectInv`
(when the flag can be up and when the socket is untouched). `ByeInv` is kept
beside it: the DISCONNECT is the last frame, and the connection is closed or
its writer is about to close it. `NothingAfterBye` is not inductive without
that last clause. `NothingAfterBye`, `ClosedOnce` and `OneWriter` are proved
and have no run of their own.

`TransportIsSession` is the refinement of `SocketSession`. It adds `UpInv` (who
is at which write, and that connect is up only after the ack) and `AuthInv`: the
reader finds OPEN before anything else and answers it before it reads on, so on
an open connection every other frame it reads, every PONG and, through the ack,
every event finds the credentials on the wire. They may be missing where the
connection broke first, which is why its parts speak of an open connection.
`LocksNeverDeadlock` is the safety part of `TeardownCompletes`, with guards in
place of `ENABLED`: while writes do not block, some goroutine inside `writeRaw`
or `close` can go on, because a lock that is held, or a once that runs, has its
holder inside (`HolderInv`).

**SocketRequestsProofs.** `RequestInv` is the types, `TableInv` (which handlers
a call no longer has), `ArmedInv` (`WaitingIsArmed`, from the moment each
handler is added) and `DeliveryInv`: every message on its way answers a call
that was emitted, and has the event and channel of the handler it runs.
`DistinctCallsGetTheirOwn` assumes that no two calls share method and channel,
and concludes `OwnAnswer`: the condition under which the correlation
`socket.go:329` speaks of does work. `RequestsAreCalls` is the refinement of
`RequestReply`. It is what makes `DeliveryInv` speak of refusals too (`Refusal`):
that a reply fits has to be known of errors as of answers, from the moment they
are sent until a handler has put them in a channel. A late reply finds its call
returned and changes nothing: the channel keeps it, and nobody reads it.

**EnhancedCallsProofs.** `DistinctReplies` is read off the table of methods.
`CallsInv` is the types, `QueryInv` (only queries wait), `OneShot` (each of a
call's two handlers is in the table, or running, or its channel is full, but
never two of these: the reason why no handler blocks although nobody drains the
channels of a call that timed out), `ArmedInv` (on which socket the response
handler of a call is, from the moment it is added, unless the call is `crossed`
or `spoiled`) and `DeliveryInv`.
`MethodsAreCalls` is the refinement of `RequestReply`, for any number of
sockets: a query may add its handlers on one socket and emit on another.
`DistinctQueriesGetTheirOwn` assumes that no two calls have the same event and
concludes `OwnOutcome`: what a call returns answers it or is an error about it,
or, for `subscribe_thread`, is the broadcast of that name.

**ChannelSubscriptionProofs.** The types, with the bound on each Go channel.
`FiltersHold` needs `TargetInv`: target and options were set together, so a
handler about to send holds a target whose filter the message passed, whichever
subscription it had looked at. `LoneInv` is what each program point of a lone
caller fixes of the channel: that its Subscribe found the channel not
subscribed, that its own target and options are in place, that the socket is
not nil at its second load. From it follow `PresenceAgrees`,
`PanicTakesOverlap` and `SubscriptionIsStable`. `SubscribedMeansJoined` adds
`JoinInv`: while no request of the connection has failed, at most one request
or ack is on its way, it is the lone caller's, and `joined` is what the worker
made of it. `HistoryHolds` is `CutStep`: appending and cutting keeps the
history a suffix of everything retained.

**HeartbeatProofs.** `StopsReleaseWaiters` rests on `WaitInv`: a done channel is
closed before it is replaced (`RenewInv`), so one that a goroutine has evaluated
is either the present one or closed (`ReachInv`), and the present one is closed
when another takes its place. `SerialInv` (while calls do not overlap) has
`Alone`, `OpenInv` (the present done channel is open except between close and
renewal) and `PointInv` (what each program point knows of the ticker).
`ServedInv` says where the goroutine of the present ticker is, and carries it
through startHeartbeat and stopHeartbeat.

**TokenRefreshProofs.** `RenewalsAreBacked` is about `Spec` with all its
interleavings: `ConnInv` says what Connect has done at each of its points, and
`TimedInv` that the token held has, at every step, a timer armed for its expiry
or an actor on its way to arming one (`Carries`), or `lost` says why not. It
cannot be about the stored timer: an older callback may have overwritten that
one, which is then armed all the same. `SoloInv` (`Solo`, `ArmedInv`,
`CallbackInv`) is the state while callbacks run alone: at most one actor is at
work, an armed timer is stored or about to be, and none is armed when one is
about to be. `EndInv` adds that a callback finds the client connecting, or the
socket it tested gone, only where a call or another callback ran beside it. So
the counterexample of `token_promise` takes what it shows: a timer that fires
inside Connect.

**SdkFunctionsProofs.** `WrapIsIdentity` and `EraIsScaled` bound the arithmetic
from `EraAssumption`; `ExpiryIsFound` and `DelayIsAhead` then read a token's
instant from any field and unit. `PublishReports` is the case analysis of one
message; bulks have any length. `EnvelopeIsRead` has each field of an envelope
come out under whichever name it went in. `AnswersReadThroughout` is about `Selected`, a
recursive function of the entries gone through. `NatMin` and `NatInduct` give
induction over Nat from the well-founded minimum of a set, so that no operator
has to be passed to a library theorem; `LoopIsDefined` shows that the function
has a value everywhere, `SelectedIsLoop` that it obeys its equation, and the
lemmas after it that the entry kept at place i comes out at the place counted by
the kept ones up to i.

No run checks the types of the variables: they are proved, in every module.

Only model-checked: the liveness properties (`RetriesTerminate`,
`TeardownCompletes`, `ConnectReturns`, `CloseEndsHeartbeats`, `BeatsGoOn`,
`RenewalGoesOn`, `DisconnectStopsRenewal`, and the fairness part of
`ImplementsSession`). The prover handles neither fairness nor `ENABLED`. Every
invariant and action property a run checks is also a theorem.

## 5. Plan

Done: the modules above, in that order, because each rests on the one before:
the client on a socket, calls on its table, a channel on its calls, then what
runs beside the lifecycle (heartbeat, tokens) and what keeps no state.

Left, if the project grows: requests and enhanced calls on one table (their
errors cross over); the lifecycle with its transports in place of `Dial` and
`WorkerDrop`; several channels in one Disconnect, of which one is created after
its snapshot (`client.go:257`).

## 6. Not modelled

- `On`, `Off` and `emitEvent`: a table behind its own mutex and a goroutine per
  listener that touches nothing of the SDK. `event` of `ClientLifecycle` is the
  event emitted last.
- `handleConnectionError` (`client.go:439`) and `validateAPIKey` (`client.go:390`)
  have no caller; `Channel.ctx` has no reader.
- `generateClientIdentifier` (a hash), the manager's HTTP exchange beyond its
  success or failure, the session fields it returns, and the length of the
  backoff: with five attempts the shift neither overflows nor reaches its cap.
- Types and re-exports have no behaviour; demos and examples use the SDK.
- The wording of payloads, errors and logs.
