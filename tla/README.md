# Formal models of the Socker HTTP/WebSocket server

This directory holds TLA+ models of the embedded HTTP/WebSocket server in
`src/Depends/Asula/Include/Asula/HttpServer.hpp` and of the library's
clients, multicast receiver and keyed registry beside it, TLC configurations that
model-check them on small instances, and TLAPS proofs. `PROJECT.json` maps
every definition that models code to the source lines it translates. It also
lists the runs, the mutants that show each checked property can catch a bug,
the findings, and the hazards.

## 1. The system

The server (spec §2) is one `boost::asio::io_context` run by `threadCount`
threads. Each task is a stackful coroutine (`net::spawn`, `yield_context`).
A coroutine suspends only at `async_accept`, `async_read` and `async_write`.
Everything between two such awaits runs without interruption. A
`lock_guard` section contains no await, so it is one atomic step.

| Part | Code | State | Operations |
|---|---|---|---|
| Listener | `Server::listen`, `doListen`, `stop` (826-932) | acceptor, io_context, `registrar_` | accept loop, spawn a connection, stop |
| Connection loop | `Server::doConnection`, `doProcessRequest` (935-992) | tcp_stream with its expiry, `close` flag | arm the deadline, read a request, upgrade or dispatch, close |
| Session | `Session` (495-762), `SendLambda` (332-360) | `replied_`, args, the request | `handleRequest` validates then routes, `reply` and its wrappers, static fallback `replyLocalFile` |
| Route registry | `HandlerRegistrar` (165-323), `add`/`process` (1005-1044) | `hooks_`: verb → `std::set<HookFunctor>` | `add` (set insertion), `match` (weighted scan), `process` |
| WebSocket group hub | `WebSocketGroupHandler` (365-489) | `clients_`: group → set of streams, under `mutex_` | `handle` (handshake, join, read loop), `multicastMessage` (snapshot, sequential writes, prune), destructor |
| Keyed registry | `AbstractManager` (AbstractManager.hpp) | list of pointers, id and code indexes, one mutex | `add`, `rmv`, `clear`, `list` |
| Outbound clients | `ws::Client` (WebSocketClient.hpp), `TcpClientSync`, `http::Client` (HttpClient.hpp) | stream, receiver thread and coroutines; socket and `err_`; per-request coroutines, io threads | open, onMessage, send, close; bind, connectTo, send, receive; get/post/..., syncSend, drop |
| Multicast receiver | `MulticastReceiver` | socket, io_context, worker thread, receive chain | setters, start, stop, destructor |
| Other collaborators | `AbstractFactory`, `ServerContext`, `Prometheus`, Logger, mocks | — | outside the spec's core (spec §1); see §6 |

How the parts interact:
- A request flows Listener → Connection loop → Session → Route registry →
  handler, or → static fallback.
- An upgrade request moves the stream from the connection loop into the hub
  for good.
- The hub's `clients_` map is the only state that connection coroutines
  share.
- The route registry is shared too. In the code it is filled before serving
  starts.

The behaviours that make this code hard:
- Concurrent multicast rounds write to the same peers.
- A peer can close between the snapshot and the write.
- A prune can run concurrently with a join.
- Read errors other than a close frame.
- A handler can reply zero, one or many times, and can throw after replying.
- The HTTP deadline persists after the WebSocket handoff.
- The template set uses a comparator that is not a strict weak ordering.
- Ties and prefixes in the weighted match.

## 2. Modules

### WsHub — the WebSocket group hub
Each connection `c` of the constant set `Conns` has a program counter
`pc[c]`. Its values match the awaits of `handle` and `multicastMessage`:

| `pc` | Position in the code |
|---|---|
| `http` | not yet upgraded |
| `handshake` | in `async_accept` |
| `loop` | top of `for(;;)` |
| `reading` | in `async_read` |
| `mcast` | walking the snapshot |
| `writing` | in `async_write` to peer `cur[c]` |
| `done` | `handle` has returned |

The other state, and where it comes from in the code:
- `clients[g]` is `clients_`. `known` holds the groups that have an entry in
  the unordered_map.
- `open[c]` is `is_open()` of the stream.
- `snap[c]` is the part of the round's snapshot not yet visited. `closedL[c]`
  is the local list `closed`.
- `buf[c]` is the frame being multicast: `data`, or `empty` after a failed
  read.
- `got[d]` holds the frames delivered to `d`.

There is one action per step between awaits:
- `Upgrade`.
- `AcceptOk` (the join is done under the lock) and `AcceptFail`.
- `LoopTop`.
- `ReadFrame`, `ReadClosed` and `ReadFail`. `ReadFrame` and `ReadFail` run the
  start of `multicastMessage` (`StartMulticast`).
- `McVisit` (one iteration of the walk) and `McPrune` (the locked erase).
- `WriteOk` and `WriteFail` (the `break`).
- `Shutdown`: `Server::stop` together with the hub's destructor.

### HttpConnection — one connection's HTTP loop and its sessions
A request is abstracted to the facts dispatch branches on: verb, legal
target, keep-alive, upgrade, whether a route matches, and the outcome of
opening its file. A response is its status code; `wire` is the sequence
written. The variables:
- `replied` is `Session::replied_`; `close` is doConnection's flag.
- `armed` and `expired` are the tcp_stream's expiry.
- `dupAssert` records that the `Duplicate reply` assertion was reached.

The actions:
- `LoopTop` arms the deadline when `timeout_ > 0`.
- `ReadOk` and `ReadFail`.
- `Validate` is handleRequest's checks and its routing decision.
- `HandlerReply` is any reply wrapper a handler calls; `HandlerReturn` and
  `HandlerThrow` follow it.
- `StaticReply` is `replyLocalFile`.
- `Finish` is doProcessRequest's `No reply` fallback and the loop's `close`
  test.
- `TimerExpire` lets time pass.

`Reply` is `Session::reply`, and `SendLambda` the lambda it calls.

### HttpExchange — what a connection promises its client
An abstract specification with three variables: requests received,
responses answered, and whether the connection still carries HTTP. Its
actions:
- `Receive` takes a request once every earlier one is answered.
- `Respond` answers the one outstanding request and may end the
  connection.
- `Close` ends the connection, or hands it to another protocol, only
  between exchanges.

`HttpConnection` instantiates it as `Exchange`, with this mapping:
- received is `served`, less the upgrade request when the connection went
  to the WebSocket hub;
- answered is `Len(wire)`;
- open is `phase \notin {"closed", "ws"}`.

`ImplementsExchange == Exchange!Spec` is the refinement property.

### GroupMembership — what the hub promises about its groups
An abstract specification with two variables: the member set of each
group, and whether each stream is open. Its actions:
- `Join(c, g)` adds a connection to a group.
- `Close(S)` closes the streams of a set.
- `Prune(g, S)` removes connections from a group, and only closed ones.

`WsHub` instantiates it as `Membership`, with `members <- clients`:
- `AcceptOk` is a join;
- `AcceptFail`, `ReadClosed`, `ReadFail`, `WriteFail` and `Shutdown` are
  closes;
- `McPrune` is the prune of the round's `closedL`;
- every other step leaves both variables alone.

`ImplementsMembership == Membership!Spec` is the refinement property.

### Router — the route registry
A pattern or path is its token sequence. The constants give the tokens in
`std::string` byte order (`TokenOrder`) and say which tokens are fuzzy.

`hooks[v]` is a binary search tree:
- the templates in insertion order (`ins`);
- child links (`lc`, `rc`);
- the in-order sequence (`ord`).

`Add` performs libstdc++'s `_M_get_insert_unique_pos`: one descent
(`Descent`), then a comparison with the in-order predecessor only
(`Inserts`). `InsertAt` links the new node.

Red-black rebalancing first rotates when a third node is inserted. Sets are
bounded by `MaxSetSize ≤ 3`, so every descent the model makes is the one the
real tree makes, and the in-order sequence is exact.

`Match` is `HandlerRegistrar::match`. It scans `ord` with strict `>`, using
`Weight` (100 per equal token, 10 per fuzzy one, stop at the first literal
mismatch, 1 for the empty template). It fails on a path holding a marker
character.

### Listener — the server's life cycle
`Server` constructor, `listen`, `stop`, `doListen` and the request path of
`doConnection`/`doProcessRequest`, at the grain that matters to `stop`.
- State: the accept loop (`lst`), `running`/`returned` for `listen`, the
  io_context's `stopped()`, where `stop` is (`stopPc`: reset done, io
  stopped), whether `registrar_` was reset, each connection's place
  (reading, dispatch into `handleRequest`, inside `process`, writing).
- `stop` is two actions, `StopReset` (line 852) and `StopIo` (853-856):
  another thread runs between them. A request already past `async_read`
  runs on: `io_.stop()` does not interrupt a running handler.
- `Dispatch` dereferences `registrar_` (985); `ProcessEnd` finishes
  `HandlerRegistrar::process`, which holds no `shared_ptr` copy. Either
  after the reset is a fault.
- `Threads` io threads: a request occupies one while dispatching and
  processing.

### RequestArgs — decodeUri and parseArguments
The Session constructor's `href_ = decodeUri(target)` and
`parseArguments`, one character per step, in the code's order: `%`
appends the byte `ch` (never assigned: 0, shown as `"NUL"`) and skips two
characters; `+` is a space; the whole result is lower-cased (only `B` has
a lower case in the alphabet); the text after the first `?` is scanned,
`&` stores a non-empty pair under the lower-cased key, `=` switches to
the value every time, `#` is skipped, and the last pair is stored after
the loop. `Arguments(q)` is a declarative reference: the pairs between
`&`s, each split on its first `=`. The targets are a `/` and up to
`MaxLen` characters of any kind, or `/?` and a longer query of up to
`QueryLen` characters over `QueryChars`.

### WsClient — the WebSocket client
`UrlFromString` and `Url::isValid` as operators (0-based `find_first_of`,
`substr` with npos, `lexical_cast<uint16_t>` over the digits `0` and `8`).
These helpers use only the standard modules: the port's value is a
recursive function over the digits, not a fold. This keeps the module
within the provers' reach.
The client's state: the stream, `handler_`, `interrupted_`, the receiver
thread, every `doReceive` coroutine (at the loop test or in `async_read`)
and every `doSend`/`doClose` coroutine. `onMessage` is the whole of
`startReceiver`/`stopReceiver`'s first part; `StopJoin` is the join;
`~Client` stops the receiver and then the io_context, after which no
coroutine runs. The strand runs one coroutine at a time, but a coroutine
suspended in `async_read`, `async_write` or `async_close` lets the others
run.

### TcpClient — the blocking TCP client
`TcpClientSync`: `bind`, `connectTo`, `disconnect` and the three I/O calls,
with `isConnected()` as `is_open()`. The socket is closed, open, bound or
connected; `err_` is empty or not; `last` records each call's result
(true, false, or an exception from `address::from_string`).

### MReceiver — the multicast receiver
`MulticastReceiver`: the setters, `start` with its four outcomes (refused
settings, "Duplicate socket open", an exception after or before
`socket_.open`, started), the receive chain on the worker thread (a
datagram runs the handler and only then posts the next receive; an error
posts none), `stop` (stop the io_context, then join) and the destructor.

### Manager — the keyed registry
`AbstractManager<T>` for the three shapes of `T` (`HasId`, `HasCode`), a
debug build (`assert` aborts) or not. `ptrs_` is a sequence of list nodes,
`nodes[n]` the pointer node `n` holds, so that a thread walking the
reference `list()` returned can be left on a removed node. `rmv` erases
the entries under `t`'s keys whatever they hold, as the code does.

### HttpClientModel — the asynchronous HTTP client
`makeRequest` as an operator over url strings (`boost::split` on `:/`,
`find_first_of` from index 9, the defaults). One `doSend` coroutine per
request, through resolve, connect, write and read, each of which may fail;
the stream's timer (armed when the effective timeout is positive) fails
the pending step; every path ends in one call of the reply handler. The
caller's handler may call `syncSend` (`SyncInHandler`), which blocks its io
thread until the nested request is answered. The handler of that nested
request is `syncSend`'s own lambda, which only sets the promise, so it
never nests again (`Nested`). `drop` stops the io_context. `doSend`'s
first early return, for a null handler, is left out: such a request has
no handler to answer, and the request calls always pass one.
The string helpers (`FindFrom`, `StartsWith`, `Token`) use only Sequences
and FiniteSets. `Token` finds the k-th separator by counting the separators
before it, instead of using SequencesExt's `SetToSortSeq`. TLC showed the
two forms equal on every string of up to five characters over `h : /`.
Keeping SequencesExt out leaves the module open to TLAPS.

### WsHubProofs, MReceiverProofs, HttpConnectionProofs, WsClientProofs, HttpClientProofs
TLAPS proofs about these modules (§5):
- `WsHub`, with its refinement of `GroupMembership`;
- `MReceiver`;
- `HttpConnection`, with its refinement of `HttpExchange`;
- `WsClient`;
- `HttpClientModel`.

### MC modules
`MCWsHub`, `MCRouter`, `MCListener`, `MCRequestArgs`, `MCWsClient`,
`MCManager` and `MCHttpClient` give model values, small sets and url
strings to the constants. `HttpConnection`, `MReceiver` and `TcpClient`
have no set-valued constants and are checked directly.

## 3. Runs

Passing runs. Each property has a mutant in `PROJECT.json` that TLC catches.

| Run | Config | Checks | Shows |
|---|---|---|---|
| hub | `MCWsHub.cfg` | `LiveMembersJoined`, `ClosedConnectionFinishes`, `ImplementsMembership` | No live member is missing from its group, whatever the interleaving of joins, rounds, prunes, closes, write failures and shutdown. With fair coroutines, a connection whose stream closed leaves `handle`. The hub implements `GroupMembership`: a prune removes only closed streams (2 connections, 2 groups, 1 frame each; about 14k states). |
| http_connection | `MCHttpConnection.cfg` | `OneResponsePerRequest`, `KeepAliveHonoured`, `ConnectionEnds`, `ImplementsExchange` | One response per request in order, even when the handler replies never, twice, or throws. The connection stays open exactly for keep-alive requests. With a timeout, every connection ends. The connection implements the request/response alternation of `HttpExchange` (2 requests, 2 replies per handler; 21k states). |
| router | `MCRouter.cfg` | `SpecificityOrder`, `MatchAgreesWithPath` | For every registry of up to three of eleven patterns, and every path of up to two segments: a more specific exact route beats a less specific one, and a route is chosen only if it agrees with the path's first segment or is the catch-all. |
| listener_stop | `MCListener.cfg` | `ListenReturnsAfterStop` | Once `stop` is called while `listen` runs, `listen` returns: with two connections at any stage and an accept error, under fairness of running code only (359 states). |
| query_arguments | `MCRequestArgs.cfg` | `ArgsAsSpecified` | For every target of up to four characters over `a B % + ? & = #`, and every query of up to seven characters over `a B & =`, the decoded and parsed arguments equal the reference `Arguments` of the decoded query, whenever no pair holds two `=`: split on `&`, keys lower-cased, the last occurrence wins, and `&` clears the value (460k states). Queries with a second `=` are the finding of `MCRequestArgs_SplitOnFirstEquals.cfg`. |
| wsclient | `MCWsClient.cfg` | `ReceiverEndsAfterClose` | With handlers set and reset by `onMessage`, once the stream is closed every `doReceive` ends, the second one a restarted receiver spawns included (2 coroutines of each kind, five urls; 24k states). |
| mreceiver_stop | `MReceiver.cfg` | `StopQuiescent`, `StopReturns` | `stop` and the destructor return, and no handler runs once they have, for every order of settings, starts, datagrams, errors and stops (356 states). |
| manager_index | `MCManager.cfg` | `IndexOnlyListed` | With three objects, two sharing an id and two sharing a code, a debug build never indexes an object that is not listed, across adds, removals, clears and a walk (6.9k states). |
| httpclient_replies | `MCHttpClient.cfg` | `OneReplyPerRequest`, `AnsweredUnlessThreadsHeld` | Four requests on two io threads with a timeout and a valid url, where a caller's handler may call `syncSend`. Each request is answered at most once. Every issued request is answered unless the client is dropped or both threads are held by handlers blocked in `syncSend`, which this instance reaches; this holds whatever the server does, under fairness of the io threads and the timer (21k states). |

Runs expected to find a violation. Each one is a finding in `PROJECT.json`.

| Run | Property | Trace |
|---|---|---|
| listener_stop_vs_request | `NoDanglingRegistrar` | `stop` resets `registrar_` (852) while another io thread has read a request: `doProcessRequest` then dereferences a null `registrar_`, or `process` runs in a registry that was destroyed under it. |
| hub_concurrent_writes | `AtMostOneWriter` | Two senders' rounds have `async_write` outstanding on the same peer; Beast allows one. |
| httpclient_default_timeout | `AllAnswered` | `Client(threadCount, timeout = 0)` overwrites `timeout_{30}` with 0, so no timer is armed and a server that never answers leaves the request unanswered. |

Further counterexample configurations. Each reproduces a finding of
`PROJECT.json` with `tlc -config <cfg> <module>`. They check one property
each, which TLC finds violated.

| Config | Property | Trace |
|---|---|---|
| `MCWsHub_NoSpuriousFrame.cfg` | `NoSpuriousFrame` | A read error other than `error::closed` multicasts the empty buffer (line 412). |
| `MCHttpConnection_NoDuplicateReply.cfg` | `NoDuplicateReply` | A handler replies twice, or replies then throws, and reaches `BOOST_ASSERT_MSG(!replied_)`. The spec says later replies are no-ops. |
| `MCHttpConnection_HttpTimerOffInWs.cfg` | `HttpTimerOffInWs` | The HTTP expiry armed at line 946 is still armed after the WebSocket handoff. |
| `MCRouter_NoEquivalentDuplicates.cfg` | `NoEquivalentDuplicates` | `/<id>`, `/@me`, `/[n]`: the second fuzzy template is compared only with `/@me` and is stored. |
| `MCRouter_ExactMatchWins.cfg` | `ExactMatchWins` | `/@me` (a prefix, weight 100) wins `/@me/42` over `/<id>/[n]` (exact, weight 20). |
| `MCRouter_TieKeepsEarlierRegistered.cfg` | `TieKeepsEarlierRegistered` | Equal weights are resolved by byte order, not registration order. |
| `MCRequestArgs_SplitOnFirstEquals.cfg` | `SplitOnFirstEquals` | `?a=b=c` gives `a -> bc`: every `=` is dropped. |
| `MCRequestArgs_ValuesAsSent.cfg` | `ValuesAsSent` | `?a=B` gives `a -> b`: decodeUri lower-cases the values too. |
| `MCRequestArgs_NoNulInHref.cfg` | `NoNulInHref` | Every `%XX` becomes a NUL byte. |
| `MCWsClient_AtMostOneReader.cfg` | `AtMostOneReader` | `onMessage(nullptr)` then `onMessage(h)`: the first `doReceive` still waits in `async_read` when the second starts one. |
| `MCWsClient_AtMostOneWriter.cfg` | `AtMostOneWriter` | Two `send` calls: the first is suspended in `async_write` when the strand starts the second. |
| `MCWsClient_OpenRejectsOnlyMalformed.cfg` | `OpenRejectsOnlyMalformed` | `ws://h:8/s` is rejected: the port string is `8/`. |
| `MReceiver_ReceiverNotSilentlyDead.cfg` | `ReceiverNotSilentlyDead` | One receive error ends reception while `isRunning()` stays true. |
| `MReceiver_StartRefusedOnlyWhileRunning.cfg` | `StartRefusedOnlyWhileRunning` | `stop` leaves the socket open: a later `start` is a "Duplicate socket open". |
| `MCManager_ListedObjectsFindable.cfg` | `ListedObjectsFindable` | `add(a1)`, `rmv(a2)` with equal ids: `a1` is listed and `get(id)` misses it. |
| `MCManager_NoDanglingIterator.cfg` | `NoDanglingIterator` | A walk of `list()` is left on the node a concurrent `rmv` freed. |
| `TcpClient_ConnectedWhenReported.cfg` | `ConnectedWhenReported` | `bind` then `connectTo`: "Duplicate connect", true, and no connection. |
| `TcpClient_ErrorReported.cfg` | `ErrorReported` | A failed `send` returns 0 with `error()` empty. |
| `MCHttpClient_SyncInHandler.cfg` | `AllAnswered` | Two caller handlers call `syncSend` on a two-thread client: both threads block and the two nested requests never run. |
| `MCHttpClient_UrlsParsedAsWritten.cfg` | `UrlsParsedAsWritten` | `http://h:8` gets port 80; `http://h/x` gets resource `/`. |

Why the bounds are enough:
- Hub: two connections let a round hold a stale snapshot while the other
  member closes, and let both send and receive. Two groups exercise the
  group map. The concurrent-writes violation needs a third connection and
  uses it.
- HttpConnection: two requests cover a keep-alive continuation after each
  kind of first response. Two replies per handler cover the duplicate reply.
- Router: three templates per set is the most the unbalanced-tree model
  represents exactly. It also suffices for the comparator anomaly, which
  needs three templates.
- Listener: one io thread already lets `stop` interleave between reading
  and processing; two connections put one in each stage. The dangling
  registrar run uses two threads.
- RequestArgs: four characters hold every separator after `?` and a pair
  with two `=`, an escape, and both cases of a letter. Seven query
  characters hold the specification's `a=1&a=2` (as `a=a&a=B`), a value
  cleared at `&` (`a=B&a`) and three pairs; a mutant that keeps the value
  at `&` survives four characters and is caught with seven.
- WsClient: two receive and two send/close coroutines are what a restart
  and two concurrent writes need. The handlers include `nullptr`, the only
  way to a restarted receiver.
- Manager: three objects give both an id collision and a code collision;
  four list nodes let an object be re-added after removal.
- HttpClient: four requests on two threads let two caller handlers block
  in `syncSend` at once, holding both threads while the two requests they
  wait on are posted; with fewer, the hang `AnsweredUnlessThreadsHeld`
  allows is out of reach, and a nested request always gets a free thread.
  The run issues the valid url only: an invalid one goes straight to its
  reply, `RepliesAtMostOnce` covers that path for every url, and four
  requests with both urls exceed TLC's time budget. The deadlock
  configuration uses the same instance.

## 4. Fairness

Every `FairSpec` assumes weak fairness only of what the code does by
itself, never of a peer, a user or the network.
- WsHub and HttpConnection: the io_context resumes every ready coroutine:
  `LoopTop`, `McVisit`, `McPrune`, the completion of a write, `Validate`,
  `StaticReply`, `Finish`, and the handler's end. An operation on a stream
  that is already closed completes at once (`ReadFail` when `~open`). An
  armed expiry eventually fires (`TimerExpire`), and a read on an expired
  stream then fails. The client's sending and closing are never forced.
- Listener: a thread running synchronous code finishes it: `Setup` (the
  acceptor's prologue), `Dispatch` and `ProcessEnd` (a request's handling),
  the second half of `stop` (`StopIo`), and `ListenReturn` (the io threads
  leave `run` once the context is stopped and their handler returned, and
  `listen` joins them). Accepts, reads and writes wait on peers and get no
  fairness.
- WsClient: the receiver thread spawns `doReceive` (`Spawn`), the strand
  runs ready coroutines (`LoopTest`, `OpStart`), `async_close` completes
  (`CloseDone`), a read on a stream that is no longer open fails
  (`ReadFail` when `~IsOpen`), and the join returns (`StopJoin`).
- MReceiver: a running handler returns (`HandlerDone`), the worker leaves
  `io_.run` once it is stopped (`WorkerExit`), and the join returns.
  Datagrams get none.
- HttpClientModel: the io threads run ready coroutines (`Begin`, `Reply`,
  `Unblock`), the resolver answers (`Resolved`), and an armed timer fires
  (`Expire`). These are stated as one weak fairness condition per request
  on their disjunction (`Progress`): each is enabled only in its own state
  of `st[r]`, which only r's steps change once r is issued, so this is the
  same as one condition on each. Connect, write and read completions
  depend on the server and get none, which is why
  `AnsweredUnlessThreadsHeld` needs the timer.

## 5. Proofs (TLAPS)

`WsHubProofs.tla` proves, for every finite set of connections, every
non-empty set of groups and every frame bound (`HubAssumption`):

- `TypeCorrect`: `Spec => []TypeOK`. It rests on `TypeInit` and `TypeStep`,
  one case per action.
- `MembershipSafe`: `Spec => []LiveMembersJoined`, the property the
  hub run checks.

`LiveMembersJoined` alone is not inductive: a prune removes `closedL[e]`, and
nothing in it says that list holds only closed streams. The inductive
invariant is `IInv == TypeOK /\ LiveMembersJoined /\ ClosedListClosed`,
where `ClosedListClosed` says every stream in a round's prune list is
closed. `IInv` was first checked with TLC as an invariant of the
hub instance (with three connections when it was written).

The argument:
- Streams only close (lemma `OpenOnlyFalls`).
- A stream enters a prune list only when `McVisit` finds it closed.
- So a prune erases only closed streams, and an open, active connection
  stays in its group.

- `MembershipRefinement`: `Spec => ImplementsMembership`, the hub's
  refinement of `GroupMembership`. The mapped initial state is the
  abstract one (`MembershipInit`). `MembershipStep` shows that, under `IInv`,
  every hub step is an abstract step or leaves `clients` and `open` alone.
  The lemmas `CloseStep` and `CloseOne` turn a closing step into `Close(S)`,
  with `S` the stream itself or, for `Shutdown`, every tracked stream. The
  prune step is the only one that needs the invariant: `ClosedListClosed`
  gives `Prune`'s guard.

`MReceiverProofs.tla` proves, for every behaviour of the receiver:

- `TypeCorrect`: `Spec => []TypeOK`.
- `StopIsQuiescent`: `Spec => []StopQuiescent`, the first property of the
  mreceiver_stop run.

`StopQuiescent` alone is not inductive: `StopJoin` lets `stop` return when
the worker is not running, and nothing in it ties a running handler to a
running worker. The inductive invariant adds two facts:
- `HandlerOnWorker`: a handler runs only while the worker is in `io_.run`;
- `ChainOnOpenSocket`: a receive is live only on an open socket. This is
  what keeps a failed `start`, which needs a closed socket, away from a
  live receive chain.

TLC checked this `IInv` on the mreceiver_stop instance before the proof.
`IInvStep` has one case per action, and both theorems follow from
`IInvInit`, `IInvStep` and `PTL`.

`HttpConnectionProofs.tla` proves, for every request bound, every reply
bound and either timeout setting (`ConnAssumption`):

- `TypeCorrect`: `Spec => []TypeOK`.
- `ResponsesMatchRequests`: `Spec => []OneResponsePerRequest`.
- `KeepAliveIsHonoured`: `Spec => KeepAliveHonoured`, the action property.
- `ExchangeRefinement`: `Spec => ImplementsExchange`, that is,
  HttpConnection implements `HttpExchange`.

The last three are properties of the http_connection run.

The inductive invariant adds three facts to `TypeOK` and
`OneResponsePerRequest`:
- `ValidationFirst`: while an illegal request is served, no handler ran
  and the file system was not opened for it.
- `PastValidationLegal`: the handler and static phases are entered only
  with a legal request. Without it, `ValidationFirst` breaks at
  `StaticReply`, which opens the file system.
- `CloseFromReply`: once a reply has been sent, the close flag is the
  request's `~keepAlive`. Without it, `Finish` could leave the loop against
  the request.

`OneResponsePerRequest` is nearly inductive by itself. A first reply
appends exactly one status (lemma `ReplyEffect`), a later one changes
nothing, and `Finish` supplies the missing one. TLC checked the invariant
on the run's instance (21k states) before the proof.

Lemmas about `Session::reply`:
- `ReplyType`: a reply keeps the type.
- `ReplyEffect`: what a reply writes.
- `ReplyKeepsClose`: a reply leaves `close` as the request asks.

`IInvStep` has one case per action and one step per conjunct. Zenon takes
the Boolean-only leaves; SMT takes those with lengths and counters.

The refinement argument:
- The mapped initial state is `HttpExchange`'s.
- `RefinementStep` maps every step to a `Receive` (`ReadOk`), a `Respond`
  (the first reply of a request, lemma `FirstReplyResponds`), a `Close`
  (`ReadFail`, an upgrade, or `Finish` on a closing request already
  answered) or a stutter (lemmas `QuietStep` and `ReplyStep`).
- `OneResponsePerRequest` from the invariant supplies the abstract guards
  `answered = received` and `received = answered + 1`.

`WsClientProofs.tla` proves `TypeCorrect`, `Spec => []TypeOK`, for any
reader and operation identities, handlers and urls. The wsclient run
checks no safety invariant: the one the code should keep,
`AtMostOneReader`, fails after `onMessage(nullptr)`
(`MCWsClient_AtMostOneReader.cfg`).

`HttpClientProofs.tla` proves, for every set of requests and urls, every
thread count and every timeout (`HttpClientAssumption`):

- `TypeCorrect`: `Spec => []TypeOK`.
- `RepliesAtMostOnce`: `Spec => []OneReplyPerRequest`, the first property of
  the httpclient_replies run.

`OneReplyPerRequest` alone is not inductive: it does not say that a
coroutine about to reply has not replied yet. The inductive invariant
`IInv == TypeOK /\ RepliedIffFinished` says more: a request's handler has
been called exactly once if its coroutine is `blocked` or `done`, and
never otherwise. TLC checked `IInv` on the httpclient_replies instance
before the proof.

The argument:
- Every step of `doSend` before the reply moves between pending states,
  and `replies` stays at 0 (lemma `PendingStep`; `Branch` splits an await
  that may fail).
- `Reply` finds `replies[r] = 0` and makes it 1, moving to `done` or
  `blocked`.
- A nested request spawned by `syncSend` starts from `none`, so it has
  no reply yet.

Only TLC checks the following:
- Liveness: `ClosedConnectionFinishes`, `ConnectionEnds`,
  `ListenReturnsAfterStop`, `StopReturns`, `ReceiverEndsAfterClose` and
  `AnsweredUnlessThreadsHeld`. TLAPS cannot reason about fairness or ENABLED here.
- RequestArgs's `ArgsAsSpecified`. The module uses SequencesExt
  (`SelectInSeq`, `FoldLeft`), which reaches RECURSIVE operators. The
  property is also the equality of two recursive computations on every
  target, which is an induction over data.
- Manager's `IndexOnlyListed`. Its argument needs the range of the list
  `rmv` leaves, `SelectSeq`, which is defined by a recursive function over
  the list's positions. What that function returns for every list is an
  induction over data, which the installed provers cannot do.
- Router's properties. Its operators are defined by recursive functions
  over the tree, whose results the provers cannot establish for all
  inputs.

## 6. Not modelled, and the plan

Not modelled:
- `ServerContext`, `Prometheus` and `AbstractFactory`: the service
  loader. `loadServices` runs once on the main thread before `exec`;
  `registerService` calls `init`, stores the service by name
  (`addService` overwrites a duplicate), prefixes each route's url and
  calls `Server::hook`. Every step is a single-threaded map insertion
  whose outcome the Router model already covers (a duplicate route is
  refused and the first one kept); the loading of dynamic libraries
  (`DllLoader`) is outside `src/`.
- The Logger: log sinks and formatting, pure I/O with no state the
  server's correctness depends on.
- The mocks under `src/Code`: incomplete test stubs.
- `splitUrl`, used only for the static file path, and the merge of route
  arguments with query arguments in `process`.
- `AbstractManager::get`, `empty` and `size`: read-only, one locked map or
  list lookup each; they appear as the index and the list state.
- TcpClient has no passing run: its two properties are violated by the
  code (the counterexample configurations above), and what it does right
  is a single synchronous call at a time.

Below the model's granularity:
- The data race of `clients_.count` (line 445) against a join on another
  thread. Each lock-free section is one atomic step here.
- Hooking routes while the server runs: `HandlerRegistrar::add` and
  `process` take no lock (1013, the lock at 1024 is commented out). In the
  code every route is hooked before `listen`, so the Listener model starts
  with a filled registry.

Not planned for proof: the properties listed at the end of §5, for the
reasons given there.
