# A TLA+ model of rpcframe

rpcframe is an RPC framework in C++11: a client library with synchronous,
asynchronous and one-way calls, and a server with event loops, a pool of worker
threads and methods that may answer at once or later. This directory models the
parts of it in which threads, sockets, timers and queues meet, checks them with
TLC on small instances and proves the most important results with TLAPS for all
instances. Paths below are relative to the root of the repository (`src/`).

## The system

| part | state | operations | who talks to it |
|---|---|---|---|
| `RpcClient` (`client/src/RpcClient.cpp`) | configuration, callback objects | `call`, `async_call`, `waitAllCBDone`, `reloadEndpoints`, destructor | user threads; calls `RpcEventLooper` |
| `RpcEventLooper` (`client/src/RpcEventLooper.cpp`) | `m_id_cb_map`, `m_cb_timer_map`, connections, `m_mutex` | `sendReq`, `getCb`, `removeCb`, `run`, `dealTimeoutCb`, `removeConnection`, `removeAllConnections` | its own loop thread, user threads, response workers |
| `RpcClientBlocker`, `RpcClientCallBack` (`client/include`) | done flag, status, condition variable | `wait`, `callback`, `callback_safe` | the waiting user thread; whoever runs the callback |
| `RpcClientWorker` | none | `run` | pool threads; looks callbacks up and runs them |
| `RpcClientConn` | descriptor, package being read | `connect`, `sendReq`, `getResponse` | the looper |
| `Queue`, `ThreadPool` (`common/include`) | a bounded queue, two condition variables, threads | `push`, `pop`, worker loop | both pools, response queues |
| `RpcServerConnWorker` (`server/src`) | connections, `m_resp_conn_q`, an eventfd, an epoll set, a read-write lock | `onAccept`, `onDataIn`, `onDataOut`, `onDataOutEvent`, `pushResp` | its loop thread, pool threads, user threads |
| `RpcServerConn`, `RpcServerRpcConn` | package being read, `m_response_q`, package being sent | `getRequest`, `sendResponse` | its loop |
| `RpcServerHttpConn`, `http_parser.c` | parser, URL, body, the "complete" flag | `getRequest`, the parser's callbacks | its loop |
| `RpcWorker`, `RpcRespBroker` | services; one response | `run`, `response`, `setReturnVal` | pool threads, user threads |
| `RpcServerImpl` | pool, loops, counters, averages | `start`, `stop`, statistics | everything in the server |

What is hard here: a callback can be reached by a response, its timer, a failed
send, a lost connection and the destructor, on four kinds of threads; a response
is handed from any thread to an event loop in three unlocked steps; sockets are
edge-triggered; condition variables wake spuriously or late; queues are bounded
and most results of `push` are ignored. `PROJECT.json` lists these hazards line
by line with the property that looks at each.

What makes each part correct:

* client: every accepted asynchronous call is called back, once if it owns its
  callback object, not before its deadline, and also at shutdown; every `call`
  returns, with a status somebody delivered or a timeout;
* queue: first in, first out, nothing lost, bounded, no consumer sleeping
  through an item;
* connections: what one end decodes is what the other sent, in order, however
  sends and reads split the bytes; a package half read is not used after it is
  freed; nobody waits for bytes that will not come;
* HTTP: what reaches a method does not depend on where reads cut the stream, is
  what the peer asked for; a request the README describes reaches the workers'
  queue, one that must be turned away costs its connection;
* life cycle: a stop ends, requests are accounted for until then, and what is
  deleted is out of use;
* server loop: no response stuck, lost, doubled or reordered on a live
  connection, no use of a deleted connection, an exact connection count.

## Modules

| module | what it is |
|---|---|
| `RpcEventLooper` | the client: `RpcClient`, looper, blocker, callbacks, response workers |
| `RpcEventLooperProofs` | theorems about it |
| `RpcQueue` | `Queue.h` with its threads and condition variables |
| `BoundedFifo` | what users of the queue rely on; `RpcQueue` implements it |
| `RpcQueueProofs` | theorems about the queue, refinement included |
| `RpcServerConnWorker` | the server from socket to method and back |
| `RpcServerConnWorkerProofs` | theorems about it |
| `RpcClientConn` | one endpoint's connection byte by byte: both ends, both formats |
| `RpcClientConnProofs` | lemmas about its operators, its types, the freed package, the packages of requests arrive intact |
| `RpcClientConnRespProofs` | the responses arrive intact |
| `HttpParser` | `http_parser.c` for requests, as operators |
| `HttpParserProofs` | the asserts of `http_parser_execute` hold, its lengths do not wrap around |
| `HttpCutsProofs` | where reads cut the stream does not matter |
| `RpcServerHttpConn` | an HTTP connection: network, edge-triggered reads, parser, callbacks |
| `RpcServerImpl` | construction, start, stop and destruction of a server; composes `RpcQueue` |
| `RpcServerImplProofs` | theorems about it |
| `MC*` | model values and small constant functions for TLC |

Definitions keep the names of the code; `PROJECT.json` maps each to its lines.
Definitions marked "mutant" are deliberate faults next to the definition they
stand in for; each property has one that it must catch.

### RpcEventLooper

A *call* is one invocation of `call` or `async_call`, the request id made for it
and the callback object it passes (`Kind`: `sync`, `async`, `shared`, `oneway`).
`pc` follows it through `sendReq`: `Register` (ids, callback map), `Arm` (timer
map), `SendStart`, `SendOk`, `SendFail` (the send, during which the caller keeps
`m_mutex`), `Fail` (clean-up after a failed send), and for `call` the blocker's
`WaitBegin`, `WaitWoken`, `WaitTimeout` and `Unregister` (`removeCb`). The loop
thread alternates `LoopWait`, `dealTimeoutCb` and the handling of the ready
connections (`Response`, `Partial`, `removeConnection`, `EpollError`), and ends
with `removeAllConnections`. A worker takes a package, looks the callback up
(`getCb`), runs it (`WorkerCall`) and removes it (`WorkerRemove`), in separate
steps as in the code. `fired` records the statuses each user callback was given.

Abstractions. A critical section of `m_mutex` is one step, except the send.
Statuses a server answers are one value, `SERVER`. Which connection is picked,
and how a read or a write on it ends, is open. Time is in seconds and saturates
at `MaxTime`, where every pending deadline has passed. `GARBAGE` is the
blocker's status read before it was stored. The user's callbacks return and do
not call the client. `reloadEndpoints` and the destructor do not overlap other
calls of the client (overlapping the former with calls is a data race on the
endpoint list).

### RpcQueue

Each thread is idle, inside a wait, or between unlock and `notify_one`. The wait
sets `waitPop`, `waitPush` hold the threads nobody notified, `wokenPop`,
`wokenPush` the notified ones that do not have the mutex yet. `Spurious` lets a
wait end by itself; `LateTimeout` lets `wait_for` report a timeout to a thread
that was notified, which the standard library does when the clock passes the
deadline first; the consumer is then `"late"` until it calls `pop` again, because
its notification is gone. `Spec` has every call; `UntimedSpec` leaves out the
pushes with a timeout, which the framework never makes, and adds the fairness.
`accepted` and `removed` are histories. `m_max_q_len` and
`m_dropOldOnFull` are chosen initially and then fixed, as in the framework;
`PushMs` and `PopMs` are the values of `ms_val` that the calls may pass.

### RpcServerConnWorker

A connection has a client end (`peer`), the server's object (`state`), its epoll
registration (`interest`: `in` is `EPOLLIN|EPOLLET`, `inout` is the
level-triggered `EPOLLIN|EPOLLOUT` of `onDataOutEvent`) and whether epoll holds
an edge of it. Requests arrive in two pieces, together or apart; `read` counts
what `getRequest` took. `Wait` is `epoll_wait` reporting a connection; its event
is then handled by `InFail`, `InPartial` or `InFull` (`onDataIn`: at most one
package) and `OutFull`, `OutPartial`, `OutNoData` or `OutFail` (`onDataOut`).
`onAccept` and `addConnection` are two steps, because another loop may change
the count between the test and the increment. A responder, a pool thread or a
user thread, goes through `pushResp` in three steps while it holds the read
lock, which `Readers` makes explicit: `addConnection` and `removeConnection`
wait until there is no reader.

Abstractions. Events of one `epoll_wait` are handled one at a time with the flags
taken at the wait; a descriptor is in such a batch once, and a handler removes
no connection but its own, so the batch itself adds nothing. A loop that waits
for the write lock is a handler that is not enabled yet. The length of a package
arrives whole. A partial send leaves one more part. A send fails only when the
peer is gone. What a method does is one of `Outcomes`; the texts, statuses and
statistics of a response are left out. Ids of connections are never reused, and
neither are descriptors: what becomes of the number that a connection over the
limit (`ghost`) gave back when it was closed is not modelled. `OutFull` and its
sisters make the test whether the queue is empty (`:69`) and the `Mod` that
follows one step: a response queued between the two is announced anyway.

### RpcClientConn

Client and server ends of one endpoint, a cell per byte. A package is a length of
`HdrLen` cells, the size of the protobuf message, the message, the data that is
not inside it and, in a response, the status. `sendReq`, `SendSome`,
`SendTimeout` and `SendError` are the caller inside `sendData`, who holds the
looper's mutex; `readPkgLen`, `readPkgData`, `getResponseFails` and `setInvalid`
are the client's loop; `SpinOnLen`, `ReadReqLen`, `ReadReqData`,
`getRequestFails` and `sendResponse` the server's, one thread for all links;
`Answer` and `Return` a method that calls `response()` and then returns. The
object outlives its connections: links are numbered, and nothing but the
descriptor is renewed by `connect`.

Abstractions. Misplaced cells give a length out of `Garbled` and a message that
does not parse (a protobuf decoder may accept garbage; that it does not is an
assumption). A use of the freed `m_rpk` is the absorbing value `undefined`.
`faults` is a history of what the properties except, per link: `cut` (a send
timed out half way), `slip` (an interrupted read of a length), `stale` (the
object still holds half a response of an earlier link). `got` records the package
a worker was given (`body`) and what it hands to the method (`data`). `sendReq`
needs no connection: `tryGetAvaliableConn` may return one that never was
connected, and the send then fails. A method responds once here; the second push
of a method that fails after it responded (`RpcWorker.cpp:127`) and an outcome
without a status (`:134`) are in `RpcServerConnWorker`.

### HttpParser and RpcServerHttpConn

`HttpParser` has one operator per state of `http_parser_execute`, with the names
of the code, over the record of the parser's fields and the locals of an
execution. A symbol is a character, or the rest of a word after its first
letter, so that a read can still cut every word that is matched; `index` keeps
only "matching" and "matched". `RpcServerHttpConn` puts the parser behind a
socket: `Arrive` delivers any number of symbols, `getRequest` handles one event
with one `recv`, `Callback` has the three callbacks, `SplitURL` the URL, and
`Answer` re-registers the socket as `onDataOut` does. `pushReqToWorkers` may
find the workers' queue full: the request is counted in `dropped` and never
answered. The requests, about fifty
of them, are in `MCRpcServerHttpConn`: those the repository's README describes,
those a server must refuse, and unusual ones (chunks, trailers, folded headers,
upgrade tokens, lengths at the limit).

Abstractions. Methods other than GET, POST, PUT and CONNECT, and the
characters no state tells apart, are left out. `ULLONG_MAX` and the limit on
headers are small constants, with the arithmetic of the code modulo the first.
No symbol fails `IS_HEADER_CHAR`, for no control character but the line ends is in
the alphabet. `recv` never returns `EINTR` (`RpcServerHttpConn.cpp:104`): the
socket is made non-blocking when it is accepted (`RpcServerConnWorker.cpp:133`),
and only a call that blocks is interrupted.

### RpcServerImpl

`main` is the thread that builds, starts and destroys the server. `SpawnWorker`
and `InitWorker` are the two halves of a pool worker's constructor, whose thread
runs in between; `Round`, `PopStep`, `PopTimesOut`, `PopReturns` and `RunTask`
are its loop over the queue of `RpcQueue`, which is instantiated here. An event
loop alternates `LoopTop`, `Batch` and `PushReq`. `stop` sets the loops' flags
and goes on to `StopPool`, `JoinWorker` and `PoolDeleted` without waiting for the
loops. It is called as `test/server_test.cpp` does, by a signal handler on the
thread that is inside `start()`, and again by the destructor; a stop from a third
thread, beside which the destructor could run, is not modelled. `Unset` are the
values of `m_q_timeout` before it is set; a batch that uses the pool after it was
deleted is the absorbing value `undefined`. A loop whose `start` fails
(`RpcServerConnWorker.cpp:199`, no epoll or eventfd) is not modelled: every loop
comes up.

## Runs

All bounds are constants of the `.cfg` files.

| run | question | result |
|---|---|---|
| `client_calls` | a synchronous and an asynchronous call with one deadline against responses, timers, failed sends, a lost connection and the destructor; do calls return what was delivered, do timed callbacks end | passes |
| `client_endpoints` | a shared callback object and a one-way call, endpoint reloads, `waitAllCBDone` | passes |
| `client_v_disconnect` | is a lost connection reported? | violated |
| `queue_pool` | order, bound, wakeups, refinement and progress, as the framework uses the queue: untimed pushes that are refused or drop, timed pops, late timeouts | passes |
| `queue_v_capacity` | is the bound kept with timed pushes? | violated |
| `server_responses` | two loops, two connections at the limit, three responding threads | passes |
| `server_liveness` | queued responses are sent, with queues of size one, an oversized request and methods that answer twice | passes |
| `server_v_pipeline` | is a request read that arrives behind a one-way request? | violated |
| `rpc_wire` | do packages arrive as they were sent, in both directions; are responses heard; does a loop wait for ever | passes |
| `wire_v_data` | is a method given the data of its request? | violated |
| `http_requests` | each HTTP request cut anywhere: asserts, cuts, delivery, progress | passes |
| `server_life` | a stop at any moment: accounting, deletion, termination, the mean | passes |

Why the bounds are enough for these questions. Client: two calls are what a
shared deadline, a shared object and a mutex held across a send need; one
connection is enough for a call to fail while the other is in flight; a clock of
one second separates "set" from "due". Spurious wakeups are off in
`client_calls`: `SyncStatusDelivered` needs them off (below), and under fairness
a wakeup that is always possible would end every wait by itself, which no system
promises; the theorems about the client hold with them. For the same reason
`queue_pool`, which checks progress, has late timeouts and no spurious wakeups;
the theorems about the queue cover spurious wakeups and, where they do not say
otherwise, the timed pushes, which TLC runs in `queue_v_capacity`.
Queue: two producers and two consumers with sizes one and two reach every
combination of full, empty, waiting and notified. Server: two loops race for
the count; three requests put a response behind one that is half sent; queues of
size one are full at once. Wire: two requests put a package behind one that was
cut short, two links let the object be used again, a header of two cells can be
split and shifted, and one cell of data moves when an offset is wrong. HTTP: one
request per connection, because the state that a connection keeps makes a second
one a different request (below); a limit of 45 header symbols and lengths up to
127 are crossed by requests of the set, one of them with a length that would
wrap around to the length of its body. Life cycle: two requests and a queue of
one give a refused request, one that is queued and one that is running; two
workers are built one after the other. `server_*`, `rpc_wire` and `http_requests`
do not check deadlock: a server whose clients are silent waits in `epoll_wait`,
and one that was destroyed has ended.

### Fairness

* Client: time passes, the loop, each call and each worker are scheduled (weak
  fairness). A send that spins ends: the server reads, or the timeout passes.
  Responses are not fair: a server may never answer.
* Queue: threads inside `push` or `pop` continue, and consumers pop in a loop,
  as `ThreadPool::Worker::run` does. Producers owe nothing.
* Server: handlers and responders continue (weak); `epoll_wait` returns every
  ready descriptor, so one that is ready again and again is handled (strong, per
  descriptor). Clients owe nothing, and a peer that stops reading is a peer
  whose socket is not writable: the model's sends always take a part.
* Wire: the caller inside `sendData`, each loop's reads and running methods
  continue (weak); `sendResponse` is strong per link, because reading one link
  can interrupt what is ready on another. Nobody has to connect, send or break.
* HTTP: what was sent arrives, the loop takes a pending event, a delivered
  request is answered (weak). Peers owe nothing.
* Life cycle: every thread is scheduled (weak); `epoll_wait` returns after two
  seconds at the latest, a timed `pop` after its time. Nobody has to stop the
  server, and events need not come.

### What the violated runs show

1. `client_v_disconnect`: `RpcEventLooper.cpp:74` looks up callbacks of a lost
   connection in a map that nothing fills, so requests in flight are not told.
2. `queue_v_capacity`: `Queue.h:60` does not test the size again after the wait.
3. `server_v_pipeline`: `RpcServerConnWorker.cpp:173` reads one package per edge:
   a request behind a one-way request waits until the client sends more.
4. `wire_v_data`: `RpcWorker.cpp:71` takes data outside the message to begin where
   the message begins. `RpcDefs.h:71` and `RpcClientConn.cpp:346` put it behind
   the message: the method sees the message's bytes and as many of its data are
   lost. The package itself arrives intact (`RequestsIntact`).

The models also contain these behaviours of the code, which the stated properties
except or leave open:

* `RpcEventLooper.cpp:208` erases timers by deadline: a failed send takes the
  timers of every call that is due in the same second (`SharesFailedDeadline`).
* `RpcEventLooper.cpp:231` never counts the timeout of `waitAllCBDone` down, so
  `WaitAllDone` needs an empty registry.
* `RpcClientBlocker.h:36` waits without a predicate: after a spurious wakeup
  `call` may return a status nobody stored (`GARBAGE`).
* `RpcClient.cpp:113` keeps the timeout in the callback object, which calls that
  share the object overwrite (`m_timeout`).
* `RpcServerConnWorker.cpp:122` closes a connection over the limit and then
  registers it; it is counted for ever (`ghost` connections).
* `RpcClientConn.cpp:362` leaves the rest of a package out when a send times out:
  the server takes the next package for it, and may spin in `readPkgLen`
  (`RpcServerRpcConn.cpp:50`) with all its connections waiting (`cut`).
* `RpcClientConn.cpp:234` adds the -1 of an interrupted `recv` to the bytes read
  (`slip`); `:48` deletes `m_rpk` and keeps the pointer and the size, so that a
  reconnected object writes into the freed package (`stale`, `undefined`);
  `:375` clears `is_connected`, which nothing sets again: the object then gives
  up every later connection at its first response. A send without a descriptor
  clears it too.
* `RpcServerHttpConn.cpp:161` never clears `m_url` and `m_body`, and `:163` does
  not read on after one buffer; a POST in chunks or without a length is never
  complete, and a GET with a body may be delivered twice.
* `http_parser.c:1343` counts a symbol twice when a buffer ends inside a header,
  so the limit on headers depends on the cuts (`CutsDoNotMatter` leaves `nread`
  out).
* `RpcServerImpl.cpp:191` deletes the pool while a loop may be in its last batch
  (`DeletedOutOfUse` allows it one); `:199` begins the mean anew whenever it is 0;
  `ThreadPool.h:34` lets a worker read `m_q_timeout` before it is set, and the
  stop then waits as long (`StopEnds` excepts both).
* `RpcServerRpcConn.cpp:126` treats a short read as "nothing left": if the end of
  file is next, the connection is never removed.

## Proofs

`RpcEventLooperProofs` is about any set of calls of any kinds and timeouts, any
connections, workers and bounds, from `ConstantsAssumption` alone. The argument
is in layers, each an inductive invariant that uses the one before:

1. `CallbackInv`: types, the status a call has at each point (`PcRet`), workers
   that hold a package (`WorkerHasTask`), and `DoneMatches`: `m_is_done` is set
   exactly when an owned callback has run. `CallbackAtMostOnce` alone is not
   inductive, because `callback_safe` decides by the flag; with `DoneMatches` the
   flag says what the history says. It gives `TypeCorrect` and `AtMostOnce`.
2. `RegistryInv`: a call that is not registered yet is not in the map, a worker
   about to remove an id has run its callback (`WorkerHolds`), and the order in
   which the loop and the pool stop (`StopOrder`). It gives `NothingForgotten`
   and `ShutdownComplete`.
3. `TimersKept`: every step either leaves the timers alone or is `Arm`, `Fail`,
   `dealTimeoutCb` or the shutdown. `TimedCallArmed` excepts calls that share the
   deadline of a failed one, because of `RpcEventLooper.cpp:208`.
4. `QuietShutdown` is an action property: after the shutdown every owned callback
   has run, so `callback_safe` runs none.
5. `FailureInv`: a registered call was told no failure yet, one that may still
   fail to be sent none but a timeout. It gives `FailuresOfShared`.
6. `TimersMatch`: a timer carries the deadline of its own call, which is computed
   once. It gives `TimeoutsNotEarly`, an action property.
7. `DeliveredInv`: a status of the server that `call` returns is the one its
   callback was given. `SyncStatus` assumes `Spurious = FALSE`: the blocker waits
   without a predicate, and with a spurious wakeup the property is false.

`RpcQueueProofs` proves, from `QueueAssumption`, the order of the queue for any
mix of calls (`FifoInv`: types, a waiting producer has an item, `FifoOrder`), and
for queues without timed pushes the bound (`CapacityInv`: nobody is inside the
wait of `push`) and that the queue implements `BoundedFifo`. The run
`queue_v_capacity` shows why the hypothesis is needed. `WakeupsKept` counts, while
a consumer sleeps, the items against the woken consumers, the producers that
will still notify and the late consumers (`WakeupInv`, which also keeps the three
sets finite and the blocked consumers in one wait set each). It allows timed
pushes, spurious wakeups and late timeouts.

`RpcServerConnWorkerProofs` is about any loops, connections, threads, requests
and limits, from `ServerAssumption`:

1. `BaseInv`: types, what a busy thread holds, the life of a connection
   (`ConnLife`, `AcceptedOnce`, `EventOwned`), and that a thread inside `pushResp`
   holds a live connection, which is the read-write lock's doing. The counter is
   compared with the cardinality of the registered connections (`CountInv`).
   It gives `TypeCorrect`, `NeverDeletedInUse` and `CountExact`.
2. `SendingArmed`, `OrderKept` and `EventsMatch` (`EventInv`) are inductive over
   `BaseInv`.
3. `NotStuckWithRoom` rests on `SendingArmed`. Its hypothesis `[]ConnQRoom` says
   that `m_resp_conn_q` always has room for an id: `pushResp` ignores the result
   of the push, so a full queue loses the id and the response waits until the
   next one. The instance of `server_responses` satisfies it.
4. `AnsweredOnceEach`: `OnceInv` says that a request is in one place only, the
   task queue, a thread, the methods that answer later, or the responses queued.
   Its hypothesis `ProperMethods` leaves out methods that respond and then fail,
   which `RpcWorker` answers a second time.

`RpcServerImplProofs`, from `LifeAssumption`: `ControlInv`
(types, those of the instantiated queue included, a worker is inside `pop` only
while it lives, the pool goes last, loops
run from `start`, one batch after the flag) gives `TypeCorrect` and
`DeletedUnused`; `MeanInv` adds that no request means no time and gives
`MeanStaysInRange` by the arithmetic of the rounded division; `AccountInv` gives
`RequestsAreAccounted`.

The wire, from `ConnAssumption`, for any sizes of header, message and data and
any cut of sends and reads:

1. `RpcClientConnProofs`: lemmas about the package operators, `BaseInv` (types
   with the positions inside packages; the type of a length read from misplaced
   cells is that of `Garbled`) and `FreedInv`, which gives
   `UseAfterFreeNeedsStale`: a package that exists has a size, and when a link is
   lost inside one every later link is stale.
2. There too, `ReqInv`. On a link without a cut send, the cells the
   server has read of a package, those on the way and those the caller has still
   to send are the packages of the requests laid end to end, from the place of
   the reader. Every step moves cells from one part to the next, so what is read
   off at a package's end is that package, byte for byte. It gives
   `RequestsArriveIntact`. What a worker then makes of the package is not part of
   the theorem, and wrong when data lies behind the message (`wire_v_data`).
3. `RpcClientConnRespProofs`: the same for responses, `RespInv`, with one thing
   more: `setReturnVal` may rewrite the status of a package that is being sent.
   The status is the last cell, and a package whose last cell was sent is no
   longer the one being sent, so the client sees one of the two statuses, never
   a mixture. It gives `ResponsesArriveIntact`.

`HttpParserProofs`, from `ParserBounds` and `HttpConnBounds` (the texts of the
requests are sequences of `Symbols`), for any requests, buffer size, header limit
and width of `content_length`:

1. `LengthsDoNotWrap` says that a digit is refused or read exactly, because what
   `LengthOverflow` lets pass leaves room for one more digit below `ULLONG_MAX`.
2. `ExecuteOK`: an execution over any buffer ends in a parser that an execution
   can start from. The invariant of the parser between two reads, `ParserOK`, says
   what each state takes for granted (`StateInv`, `ChunkCountInv`): a body being
   read has a length left and a chunk that was read has none, a state of a chunk
   is met with `F_CHUNKED` only, a name is matched in the states of names only, a
   chunk size is not
   the mark for "no length", the byte count is 0 where a chunk starts, a value is
   not matched in the state of its name. Inside an execution there is one thing
   more, `MarkInv`: a mark is set in the states that read what it marks only, so
   two are never set at once. One lemma per macro says what it does to an
   execution, one per state that a turn keeps the invariant (`DispatchGood` puts
   them together), and the loops, which are recursive functions over the
   positions of the buffer, are unfolded by an induction along them
   (`FieldCharsDef`, `ValueCharsDef`, `TurnsDef`, all from `UpTo`, the induction
   principle that the least element of a set of naturals gives).
3. `ParserAssertsAlwaysHold`: `ParserAssertsHold`, from `ParserInv`. These are all
   the asserts of `http_parser_execute` but the two of its callback macros
   (`http_parser.c:82`, `:107`), which say that no error is set: an error ends the
   execution at once, and no callback of the server sets one. The other asserts
   of the file (`:2104`, `:2110`, `:2203`, `:2337`, `:2397`) are in functions that
   nobody calls. The run `http_requests` checks it for fifty requests and lengths
   up to 127.

`HttpCutsProofs`, from the same assumptions: `CutsNeverMatter`, the invariant
`CutsDoNotMatter` for any requests and any cuts.

1. Two executions cannot be compared turn by turn, for a turn takes as much of a
   body or of a header as its buffer holds. Both are compared with a third thing:
   the stream parsed one symbol at a time (`Step`, `Steps`), which collects the URL
   and the body as it goes.
2. `Follows` says that an execution, n symbols into its buffer, is beside the
   stream: the parsers are alike, what the callbacks told and what is marked and
   untold is the text the stream collected, and the execution has counted at least
   as many header symbols, exactly as many when the buffer is all there is
   (`"whole"`). `EveryTurnFollows` shows that a turn keeps it or ends in an error or
   an upgrade, one lemma per group of states: `SilentTurnFollows`,
   `UrlTurnFollows`, `BodyTurnFollows` and `LoopTurnFollows`, the last two with an
   induction along the symbols the turn takes. It also shows that a `"whole"`
   execution does not fail where the stream does not.
3. So an execution arrives at the end of the stream of its buffer
   (`ExecuteArrives`, by induction along `Turns`), and the stream of u and then v is
   that of u going on with v (`StreamGoesOn`).
4. `CutsInv`: all that was sent is what was read, then `sock`, then `wire`, and
   parser and connection have arrived at the end of the stream of what was read.
   One execution over what was read arrives there too (`WholeArrives`): because the
   connection counts no fewer header symbols than the stream, the limit that it
   kept is kept by that execution as well. The converse does not hold:
   cuts may make a request fail that fits in one buffer.

A few leaves name their prover and a longer time (`SMTT(60)`, `ZenonT(60)`): they
are the ones only that prover finds, or finds late.

Only model-checked: liveness (the prover has no rule for fairness here), and
`DeliveredAsSent`, whose `want` is given request by request by the constants.

## Not modelled

Left out: `HashThreadPool` (unused), response parsing and `parse_url` of
`http_parser.c` (unused), the non-blocking connect and host look-up, services and
methods (a table filled before the start; user code), per-method statistics and
the status page, logging, configuration values, the protobuf classes, and
`reloadEndpoints` beside running calls (a data race on the endpoint list).
