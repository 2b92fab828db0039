# rpc-framework: a TLA+ verification project

Specifications of the concurrent parts of the RPC framework, model-checked with
TLC and, for the parts that matter most, proved with TLAPS. Everything is
translated from the C++ source; line numbers refer to the files of the
repository (`rpc_channel.cpp` is `src/rpc/rpc_channel.cpp`, and so on).

## The system

A client makes a call through a protobuf stub on a `ServiceProxy`, which owns an
`RpcChannel`. `CallMethod` gives the call a request id, enters it into
`pending_calls_` and writes one frame; a detached reader thread, one per
`connect()`, reads frames, matches them by id, fills in the response and wakes
the caller (or runs its closure). On the server, a `TcpServer` accepts
connections on an `EventLoop` (epoll with an eventfd for wakeups); every
`TcpConnection` hands its input to a `Codec`, which cuts it into frames;
`RpcServer` submits each request to a `ThreadPool`, whose worker runs the service
method and sends the response back through the loop. A provider announces itself
in ZooKeeper through `ServiceRegistry`; a client finds it there through a cache
that a watcher refreshes, and picks an endpoint with a `LoadBalancer`.

| Part | Source | Module | State |
|---|---|---|---|
| RpcChannel, RpcController, ServiceProxy | `rpc_channel.*`, `rpc_controller.h`, `service_proxy.h` | `RpcChannel`, contract in `RpcCall` | modelled, proved |
| ThreadPool | `thread_pool.*` | `ThreadPool` | modelled, proved |
| EventLoop | `event_loop.*` | `EventLoop` | modelled, proved |
| ServiceRegistry, ZooKeeperClient (both builds) | `service_registry.*`, `zookeeper_client.*` | `ServiceRegistry` | modelled, proved |
| LoadBalancer | `load_balancer.*` | `LoadBalancer` | modelled, proved |
| Buffer, Codec, data path of TcpConnection | `buffer.*`, `codec.*`, `tcp_connection.cpp` | `Buffer`, `Codec` | modelled, proved |
| Channel, EpollPoller | `channel.*`, `epoll_poller.*` | `Channel`, used by `TcpServer` | modelled, proved |
| TcpServer, TcpConnection | `tcp_server.*`, `tcp_connection.*` | `TcpServer` | modelled up to operations nobody calls, proved |
| RpcServer | `rpc_server.*` | `RpcServer`, composed of `ThreadPool` and `EventLoop` | modelled, proved |
| examples | `example/` | | not modelled: straight-line use of the library |

## The modules

### RpcChannel and RpcCall

`RpcChannel` is one channel object with the threads that call `CallMethod` on
it, the reader thread of each connection, the thread that owns the channel, and
the peer as far as the channel can see it. A step is the code between two
accesses to state that another thread can change: an atomic load or store, a
critical section of `mu_`, a system call.

* `CallMethod` → `TakeId` → `Register` → `WriteWhole` / `WriteShort` /
  `WriteError`, `WriteFailed` → `Wake`: the test of `connected_`, `fetch_add` on
  the id, the insertion, `::write`, the error path and the wait.
* `ReaderCheck`, `ReaderRead`, `ReaderData`, `ReaderEnd`, `ReaderSweep`,
  `ReaderDrained`, `ReaderBadMagic`, `OnMessage`, `ReaderDeliver`, `ReaderFlag`,
  `ReaderRunDone`: the lambda of `connect()` with `on_message()` cut where it
  releases `mu_`.
* `Connect`, `ConnectFails`, `Connected`, `Disconnect`, `DisconnectShutdown`,
  `DisconnectClose`, `Destroy`: the owner. `PeerAnswer`, `PeerNoise`,
  `PeerClose`: the other end (external).

Frames stand for bytes, so a read returns whole frames; a `write()` the kernel
cuts short, which the code takes for success, makes the stream useless from
there on (`torn`). The id counter has `RequestIdSpace` values and wraps. The
model is of a process that ignores `SIGPIPE`, which the library does not do
itself. `on_connection` (221-224) has no caller and is left out.

`RpcCall` is the contract of a call, without connections, threads or ids: it
settles at most once, with the answer to its own request or a failure; a
synchronous call returns only when settled; a closure runs at most once and only
then. `RpcChannel` instantiates it with a refinement mapping (`Outcome`,
`Answer`, `Returned`), and `CallContract` says that the channel implements it.

### ThreadPool

Workers, submitting threads and the destructor. `submit()` is `Submit` (under
`mu_`) and `Notify` (after it is released); a worker is `WorkerIdle` (the wait
predicate is false, `mu_` still held), `WorkerBlock` (`cv_.wait` releases it),
`WorkerSpurious`, `WorkerExit`, `WorkerTake`, `WorkerFinish`; the destructor is
`Stop`, `NotifyAll`, `Join` and does not lock `mu_`, so its steps may fall
between `WorkerIdle` and `WorkerBlock`.

### EventLoop

The loop thread (`Start`, `Check`, `PollWoken`, `PollOther`, `HandleRead`,
`Handled`, `Swap`, `RunFunctor`, `RunDone`), other threads (`Queue` and `Wakeup`
for `run_in_loop` and `queue_in_loop`, `Quit` and `QuitWakeup`), and what
handlers and functors call on the loop thread itself (`QueueInLoop`,
`RunInLoop`, `QuitInLoop`). `PollOther` is `epoll_wait` returning for a socket or
at its 10 ms timeout.

### ServiceRegistry

One service name, its providers (`register_service`, `unregister_service`), the
threads in `discover()`, and the thread that delivers watch events. `refresh()`
is cut at every ZooKeeper call: `RefreshWatch`, `RefreshChildren`,
`RefreshWeights` / `RefreshGarbage`, `RefreshStore`, with a variant that fails
(`...Lost`) for each call that can lose its connection. The variable `build`
chooses between the C client (one-shot watches, an event thread) and the
in-memory stub (watchers called from `create()`, with the stub's mutex held).
`get()` returns an uninitialised buffer for a node that has gone, and
`std::stoi` on it may throw; on the event thread that ends the process
(`aborted`). `overlap` is a history variable: two refreshes have been between
reading the children and storing them at the same time. The ensemble itself is
external.

### LoadBalancer

The four `select()` functions as pure operators on the endpoint list
(`RoundRobinIndex`, `WeightedIndex`, `ConsistentHash`), checked against what the
class comments of `load_balancer.h` promise. `hash()` is an arbitrary function,
chosen in the initial state, so collisions on the ring are covered. With a total
weight of zero the random distribution is undefined and any index may come out.

### Buffer and Codec

`Buffer` has the methods of the class as operators on a record of `buf_` and the
two indices; `Content(b)` is the byte queue that a buffer stands for. `Codec` is
one direction of an established connection: `SendRaw` is `send_raw()` with
`send_in_loop()`, which writes what the socket takes and buffers the rest;
`HandleWrite` and `HandleRead` are the handlers of the two loops, a write or read
taking any number of bytes that socket and buffer allow; `OnMessageFrame`,
`OnMessageWait` and `OnMessageBad` are the rounds of the loop in `on_message()`.
A header field takes one cell instead of four bytes: the code looks at a header
only when all of it is there, so cuts within a field differ in nothing from cuts
before it. The sender is a Codec or, with `peer = "raw"`, anything that writes
bytes, among them magic numbers inside bodies and lengths that are too large.
Failing reads and writes close the connection and belong to `TcpServer`.

### Channel and TcpServer

`Channel` has the methods of `Channel` and `EpollPoller` as operators on a record
of `events_`, `index_` and what the kernel has registered. An `epoll_ctl` that
fails changes nothing, as in the code, which ignores it.

`TcpServer` is the life of connections. The loop thread is `Poll`, then for each
active channel `HandleAccept` or `HandleEvent`, the callbacks in the order of
`handle_event_with_guard` (`CloseCallback`, `ReadCallback`, `WriteCallback`) and
`EventHandled`, then `Swap`, `RunFunctor`, `FunctorsDone`. `msg_cb_` is the user's
code: it may send, shut down, force a close or hand the pointer to another thread
(`MsgSend`, `MsgShutdown`, `MsgForceClose`, `MsgHandOut`), any number of times,
and returns. `handle_close` includes `close_cb_`, that is `remove_connection` and
`connection_destroyed`, because `run_in_loop` on the loop thread calls at once.
Other threads look at `state_` (`UserLooks`) and store it and queue their functor
(`UserActs`) in two steps. `Destroy` and `DestroyLoop` are the destructors. Peers
send, close, reset and read (external).

`Alive(c)` says who keeps a connection: `connections_`, a thread, the guard of
`handle_event`, a functor that captured a `TcpConnectionPtr`. epoll,
`active_channels_` and the functor of `shutdown()` have raw pointers. Messages are
counted, not stored; how functors are handed over is the subject of `EventLoop`.
epoll is level-triggered, as the code registers it (`epoll_poller.h:11` calls it
edge-triggered). Two rules of use are assumed, which the code in `src/` keeps and
which `NoDangling` needs: a callback works on the connection it was called for,
and a thread that calls `shutdown()` keeps its pointer until the functor has run.

### RpcServer

The composition. `Pool` and `Loop` are instances of `ThreadPool` and `EventLoop`
whose tasks and functors are the requests, and every step of `RpcServer` is a step
of one of them, guarded by where its thread is, or leaves both alone:
`OnFrame` is `submit()` in a handler of the loop; a worker that runs a task calls
the service (`CallMethod`), waits for its closure (`ServiceDone`, in any thread),
queues the response (`Answer`, `AnswerWakeup`) and returns (`Finish`); the loop
runs the functor, which sends if the connection is still connected. `Quit`,
`DestroyPool`, `DestroyServer` and `DestroyLoop` are `quit()` and the members going
in the reverse of their order. Requests that are refused at once (`OnFrameError`)
never reach the pool. Services run their closure; one that does not blocks its
worker for good, as the code has it.

## The runs

| Run | Instance | What it checks |
|---|---|---|
| `channel_calls` | one synchronous and one asynchronous call, one connection, every kind of frame, one unsolicited frame | `NoTouchAfterReturn`: the reader never writes through the pointers of a call that is over; `CallContract`: refinement of `RpcCall`; `SweptCallsReturn`: a synchronous call the sweep finds returns; `CallsComplete`: on a connection that stays up and whole every call completes |
| `channel_reconnect` | the same calls, two connections | `IInv`, the inductive invariant of the proofs, type invariant included, with an old reader that reads the new socket and old calls that meet the new connection |
| `pool` | 3 workers, 3 tasks, a spurious wakeup, destructor | `PoolInv` (inductive), `ExactlyOnce`, `NoIdleWhileQueued`, `DrainedOnDestruction`, `TasksRun` |
| `loop` | 3 functors, `quit()` from anywhere | `EventLoopInv` (inductive), `NoLostWakeup`, `RunsInOrder`, `FunctorsRun`, `QuitEndsLoop` |
| `registry` | 2 providers, 2 discovering threads, both builds, one lost call | `RegistryInv` (inductive); `FreshWhileWatched`: arming before listing leaves no gap; `WatchesBounded`: events do not multiply watchers; `CallsReturn` |
| `balancer` | lists of up to 3 endpoints, weights 0, 1, 3, every hash of 6 virtual nodes into 4 points, a counter of 5 values | `RoundRobinFair`, `WeightedProportional`, `HashAffinity`, `HashNearestClockwise` |
| `codec` | bodies of up to 3 bytes (2 allowed), two of them sent, or any 6 bytes; buffers of 3 bytes and 2 on the stack, a socket that takes 4 | `CodecInv` (inductive): the indices of the buffers, EPOLLOUT asked for exactly while output is buffered, and no round of `on_message()` after a refusal; `StreamDecoded`: the frames passed on are those of the bytes read, by a recursive definition of the wire format, whatever the cuts; `BytesInOrder`; `SentDelivered` |
| `tcp` | one connection, one other thread that posts, shuts down and forces closes, two functors, two messages of output | `TcpInv` (inductive); `NoDangling`: no raw pointer to a destroyed connection; `EpollInSync`: `index_`, kernel and `events_` agree however often a connection is closed; `FlushedBeforeFin`; `LostIsDestroyed`: a connection whose peer is gone is closed and destroyed; `DisconnectEnds`: `shutdown()` and `force_close()` come to their end |
| `server` | two requests, one connection, two workers, `quit()` and destruction at any time | `ServerInv` (inductive); `PoolUsed`, `LoopUsed`: the server refines `ThreadPool` and `EventLoop`, fairness included; `AnsweredOnce`; `MembersOutliveWorkers`; `ServedOnShutdown`; `RequestsAnswered`: a request is answered unless its connection is lost or the server quits |

Three runs refute a sentence of the repository; TLC must find the violation:

| Run | Sentence | What happens |
|---|---|---|
| `channel_stranded` | `rpc_channel.cpp:82` "Wake up any pending calls with an error.", `:183` "closure will be called from the reader thread" | A call that tested `connected_` before the end of the connection and registers after the sweep waits for ever; so does every pending call when the reader leaves on a wrong magic number. The sweep runs no closure, so an asynchronous caller is never told. |
| `loop_quit_lost` | `rpc_server.h:21` "blocks until quit() is called" | `loop()` resets `quit_`, so a `quit()` just before it is forgotten. |
| `registry_stale_cache` | `service_registry.h:30` the cache "refreshes on ZK watcher events" | `refresh()` before the znode exists arms no watch and ignores that; a provider that appears just after is cached for good. |

Further statements are in the modules, in the sections after the properties.
TLC refutes them too, and no configuration is kept for them: to see one, put it
in place of the property of the run named.

* `WireOrder` (`channel_reconnect`, `rpc.proto:8`): ids are taken before the
  write lock, so requests go out in another order than their ids.
* `SocketsReleased`, `ReadersGone` (`channel_calls`, `README.md:106`): after the
  peer has closed, `disconnect()` does not close the socket, and the detached
  reader may outlive the channel.
* `DestructorReturns` (`pool`, `README.md:106`): `stop_` and `notify_all()` fall
  between a worker's look at the predicate and its sleep; `join()` waits for ever.
* `RegisterReturns` (`registry_stale_cache` with `Builds = {"stub"}`,
  `zookeeper_client.h:16`, the rest "tests cleanly" on the stub): the stub's
  `create()` calls the watcher with its mutex held, and `refresh()` locks it again.
* `RemovalsNoticed` (the same): the stub's `remove()` calls no watcher.
* `EventThreadSurvives` (`registry`): the uninitialised buffer of `get()`.
* `CacheFollowsRegistry` also fails for a second reason: two refreshes overlap
  and the one that read the older list stores it last.
* `NoTouchAfterReturn` fails with `MaxConnects = 2`: the sweep erases nothing, so
  the sweep of a second connection follows pointers of calls that returned.

`CHECK_DEADLOCK FALSE` stands where the system may stop: a channel or pool that
has been destroyed, a loop that has returned, providers and consumers that are
done, a stream that is read to its end or refused. The balancer never stops.

### Bounds

Two calls suffice for every pairwise race on a channel (both ends of the id
counter, the map, the write lock); the third party in each race is the reader,
the owner or the peer. `RequestIdSpace = 3` lets each call have an id of its own
and the counter wrap after the last, the closest that `NoIdReuse` allows;
with fewer ids than calls `CallContract` is violated, a call taking over the map
entry of another. `MaxNoise` and `MaxLosses` bound failures that could
otherwise repeat for ever, one being enough to meet every step. Three workers
and three tasks allow a sleeping, a waking and a running worker at once. Three
functors allow one running, one in the batch behind it and one newly queued. In
the balancer, three endpoints are the least number for which removing one leaves
a choice, and five counter values are not a multiple of two or three, so the wrap
is uneven, as 2^64 is for three. The buffers of `codec` are smaller than a frame,
so that reads end before, at and behind `buf_` and `grow()` both moves and
resizes; six raw bytes hold two frames or a frame and a bad header.

In `tcp` one connection suffices for the races on it, which are between the loop,
another thread and the peer; connections meet only in `active_channels_`, the
functors and the destructor, and the proofs are for any number of them. Two
functors let `shutdown()` and `force_close()` be under way at once; two messages
of output let a write leave some. In `server` two requests and two workers let a
request be queued behind a worker that waits for a service, and two responses be
under way to the loop. `MaxIn`, `MaxOut` and `MaxFunctors` bound what a peer or a
user could repeat for ever.

### Fairness

Weak fairness only, of threads inside a call: the operating system keeps
scheduling them. Nothing makes a user call `CallMethod`, `submit`, `quit`,
`disconnect` or the destructor. `FairPeerSpec` adds a peer that answers what it
receives, which `CallsComplete` is about; `channel_stranded` does without. In
`TcpServer` callbacks return, peers read what they are sent, and threads let go of
their pointers sooner or later: that is strong fairness of `UserReleases`, because
a thread may make call after call in between. In `RpcServer` services run their
closures and the owner destroys the server after `start()`. `epoll_wait` is assumed to return when the eventfd
is readable and not otherwise: `FunctorsRun` does not lean on the 10 ms timeout.

## The proofs

Each theorem holds for every value of the constants.

* `ThreadPoolProofs`: `PoolInvariant`, and from it `TasksExactlyOnce`,
  `WakeupsNotLost`, `DestructorDrains`. `NoIdleWhileQueued` counts queued tasks
  against notifications under way and awake workers. It is inductive only
  together with `ControlInv`: a worker that goes to sleep holds `mu_` and has
  seen an empty queue, so it cannot unbalance the count. Assumes finite sets of
  workers and tasks.
* `EventLoopProofs`: `EventLoopInvariant`, `LoopNeverSleepsOn`,
  `FunctorsInOrder`. The strengthening is `WakeupInv`: it speaks of the places
  between the swap and the poll, where a functor may be pending before the loop
  sleeps.
* `RpcChannelProofs`: `TypeCorrect`, among it that the counter stays within its
  width, `Invariance`, `ChannelKeepsContract`, `CallersCanCount`,
  `PointersValidUntilEnd` and `PointersStayValid`. `IInv` follows a
  call through its stations: its id is its own (`IdsInv`); requests and answers on
  the wire carry the id of their call (`WireInv`); a map entry is a call nobody
  has answered (`PendingInv`); between taking an entry and running its closure one
  reader alone works on the call (`DeliveryInv`); what a caller sees is settled
  (`SettledInv`). Each action is shown to keep it, then
  each step is shown to be a step of `RpcCall` under the mapping. `CallersCanCount`
  draws from the contract what a caller sees: `CallersView` in every state, and an
  outcome that no later step changes (`Final`). Two more parts
  are for `NoTouchAfterReturn`: connections start their readers in turn, so a
  reader that has ended stays so (`StartInv`), and until one has ended no entry and
  no delivery points to a synchronous call that is over (`OverInv`); for
  asynchronous calls `PendingInv` and `DeliveryInv` say it already. Hence
  `PointersValidUntilEnd` for any number of connections, and `PointersStayValid`,
  that is `NoTouchAfterReturn` itself, for `MaxConnects <= 1`, the one case in
  which it is true. All but `TypeCorrect` assume `NoIdReuse`: finitely many calls,
  fewer than ids. It is needed: see Bounds.
* `CodecProofs`: `AppendEnqueues`, `RetrieveDequeues`, `ReadFdEnqueues` (a buffer
  is a byte queue, whatever its sizes), and from them `CodecInvariant`,
  `BytesStayInOrder` and `StreamIsDecoded`. In `CodecInv` `TypeOK` with
  `WriteInterest` is inductive: that nothing is buffered while write interest is
  off is what lets a direct write not overtake. `StreamDecoded` compares the frames
  passed on with the recursive function `Decode`. That `Decode` satisfies its own
  equation for every stream is proved first, then `DecodeConcat`: what a stream
  decodes to, followed by what its rest decodes to together with further bytes, is
  what all of it decodes to. So a read may come at any cut. Assumes that the length
  of a body fits the length field.
* `TcpServerProofs`: `TcpInvariant`, and from it `NeverDangles`, `PollerAgrees`,
  `ShutdownFlushes` and, of steps, `ClosingIsFinal`: a connection that left
  `connections_` is never entered or registered again and its output stays as it is,
  although `shutdown()` and `force_close()` may still overwrite its `state_`.
  `EpollInSync` and `FlushedBeforeFin` are inductive only with
  `LoopInv` (a channel that is active is that of a connection in `connections_`,
  and callbacks are due only for it or the one in hand) and `OwnerInv` (state
  `connected` implies membership in `connections_` also while other threads
  overwrite `state_`; the functor of a `shutdown()` has a caller that keeps the
  pointer). The lemmas on the channel and on `handle_close`, `send` and
  `handle_write` come first; they hold wherever these are called from. No
  finiteness is assumed.
* `RpcServerProofs`: `ServerUsesPool` and `ServerUsesLoop` (refinement, without
  fairness), `ServerInvariant`, `ComponentsHold` (what is proved of the
  pool and the loop alone holds of them in the server), `AtMostOneAnswer`,
  `DestructionOrder`, `NothingDropped`. The step lemmas of `ThreadPoolProofs` and `EventLoopProofs` are
  used through INSTANCE for the components' part of `ServerInv`; what is added is
  `RequestInv`, which follows a request from the pool to the loop: it is in the
  loop's queues at most once, and only when its service is done and no response
  was sent. `ServerUsesLoop` needs it: a worker queues the functor of its request
  only once. Assumes finite sets of requests and workers.
* `RegistryProofs`: `RegistryInvariant`, `CacheIsFresh`, `WatchersDoNotMultiply`.
  `FreshWhileWatched` says nothing of the steps between arming a watch and storing
  the list. `ListInv` fills them in: without an overlap one list at most is on its
  way, and while a watch is armed that list, or the cache when there is none, is
  empty or current, because a change takes all watches with it. `CallbackInv` is
  needed for the stub, where `create()` runs `refresh()` itself. Assumes finitely
  many discovering threads.
* `BalancerProofs`: `BalancerTypes`, `RoundRobinTakesTurns`, `WeightsAreKept`,
  `KeysStay`, `RingIsClockwise`, for lists of any length, any weights, any hash
  function and any number of virtual nodes. The weighted draw is settled by partial
  sums: the draws that select the i-th endpoint are those between two of them.
  For the ring, the point chosen is least among the points at or above the key, or
  least of all; removing another endpoint takes away no point that was chosen. Assumes
  some hosts, finitely many, and at least one virtual node, point and counter value.

Induction over data (the sums, `Min` and `Max`, `Decode`) is done by a least
counterexample: a non-empty set of naturals has a least member (`LeastNat`, from
the well-foundedness of `<`), so a claim that fails somewhere fails first
somewhere.

Only model-checked: all liveness (`SweptCallsReturn`, `CallsComplete`,
`TasksRun`, `FunctorsRun`, `QuitEndsLoop`, `CallsReturn`, `SentDelivered`,
`LostIsDestroyed`, `DisconnectEnds`, `RequestsAnswered`, the fairness in `PoolUsed`
and `LoopUsed`), which the prover does not reach. Every safety property of the
passing runs is proved; `ClosingIsFinal` and `CallersCanCount` are only proved.

## Not modelled

* `TcpConnection::send()` from a thread other than the loop's. Nothing in `src/`
  calls it there: `RpcServer` posts a functor that owns the connection
  (`rpc_server.cpp:147`). Its lambda (`tcp_connection.cpp:54`, `:63`) captures
  `this`, so a caller has the duty that callers of `shutdown()` have; and as
  `kDisconnecting` may overwrite `kDisconnected` (`OwnerInv`), the test of `state_`
  in `send_in_loop()` alone would not keep it from enabling writing on a connection
  that is closed.
* `set_thread_num` and `IOLoopThread` (`tcp_server.cpp:40`, `:82`), `disable_reading`,
  `RpcChannel::on_connection`: no caller. `register_service` of `RpcServer` fills a
  map before `start()`.
* Re-entrant closures on a channel: on a failed write `done->Run()` is called
  with `conn_mu_` and `mu_` held, so a closure that makes a call locks them twice.
* Expiry of the consumer's ZooKeeper session: nothing in the code reacts to it.
* Left out for good: byte encodings by protobuf, error texts and logging, socket
  options and addresses, the examples, exceptions thrown by service code.
