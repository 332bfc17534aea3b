# CoroIOMultiplex: a TLA+ verification project

CoroIOMultiplex is a C++20 coroutine runtime (a thread pool with one queue per
thread, a task framework with symmetric transfer), two I/O multiplexers on top
of it (io_uring and epoll), a static-file HTTP server on each (`demo/uringhttp.cpp`,
`demo/httptest.cpp`) and an echo server on epoll (`demo/epolltest.cpp`).
This directory holds TLA+ models of it, the TLC configurations that check them
on small instances, and TLAPS proofs for instances of any size. Source paths
below are relative to the repository's root.

## 1. Inventory

| part | source | state it keeps | operations |
|---|---|---|---|
| thread pool | `include/async/Loop.hpp` | `queueList`, `currentQueue`, `taskBinding`, one deque + mutex + condition variable per worker, `cleanWorkMutex` (shared), `bindingMutex` | constructor and worker start-up, `addTask`, `runTasks`, `cleanTasks`/`enter`, the `scheduler` awaiter |
| coroutine tasks | `include/async/Tasks.hpp` | per frame: `prevHandle`, result or exception, `detach`ed or not | create (suspended), `co_await` a task (transfer to callee), `final_suspend` (transfer back to caller), `detach`, `getSelf` |
| io_uring instance | `include/async/Uring.hpp` | the ring, `uringAddMutex`, one `userData` per operation, inside the waiting frame | `prep_send`, `prep_recv`, multishot accept, `reapIOs` |
| uring sockets | `include/uring/Socket.hpp` | descriptor | send, recv and accept awaiters, `asyncAccept` |
| uring HTTP server | `demo/uringhttp.cpp` | one frame per connection, request and response | `clientHandle`, `readRequest`, `responseHandler`, `main` |
| epoll instance | `include/async/Epoll.hpp` | the interest list, an event buffer | `addEvent`, `epollWaitEvent` |
| reactor sockets | `include/http/Socket.hpp` | descriptors, registered handler | bind, listen, accept, `acceptAll`, read, write |
| epoll demos | `demo/epolltest.cpp`, `demo/httptest.cpp` | one frame per connection, writer and response | `echoHandle`, `writer`, `httpHandle`, `responseHandler`, `co_main` |
| HTTP messages | `include/http/Http.hpp`, `src/http/Http.cpp` | `uncompletedRequests` by descriptor | `readRequest`, parsing, response construction, `serialize` |
| LRU cache | `include/utils/Lru.hpp` | `cacheList`, `map`, `mtx` | `get`, `put`, `refresh` |
| file cache | `include/file/FileCache.hpp`, `include/file/File.hpp` | descriptor, size and mapping of one file, shared by reference count | `build`, destruction |
| buffer pool | `include/utils/BufferPool.hpp` | one flag per buffer | `getBuffer`, `returnBuffer` |
| timer, whenAll | `include/async/Timer.hpp`, `include/async/WhenAll.hpp` | none that is reached | unfinished in the source |

How they interact. Every coroutine that is not run directly by another one is
run by the pool: somebody calls `addTask(handle)`, a worker pops the handle and
calls `resume()`. The I/O instances are tasks themselves: `reapIOs` (or
`epollWaitEvent`) runs on a worker, collects completions and calls `addTask`
for the handles that wait for them; then it reschedules itself. A connection's
coroutine awaits `recv` and `send`, creates and detaches one coroutine per
response, and each of those gets its file from the cache. Frames that have run
to their end stay allocated until the main thread's `cleanTasks` destroys them.

What is hard:

* *Concurrency.* `addTask` can be called for a handle that is queued, running
  or done, by several threads at once, while the cleaner removes bindings and
  destroys frames whose addresses the allocator reuses. Three kinds of locks
  are nested, one of them recursively and in shared mode.
* *Completion before return.* An I/O completion can resume a coroutine on
  another worker before the `await_suspend` that submitted it has returned.
* *Lifetimes.* Kernel operations, epoll events and `userData` point into frames.
* *Ordering and partial effects.* Completions come in any order; sends are
  short; requests are pipelined and fragmented; descriptors are reused.

The full list, with the line each one bites at, is `hazards` in `PROJECT.json`.

What makes each part correct:

* thread pool: a handle is resumed by one thread at a time, on the queue it is
  bound to; no wake-up is lost; no task runs while the cleaner works; nothing
  refers to a destroyed frame; a queued handle is served; no deadlock;
* tasks and uring server: every completion resumes its waiter exactly once and
  never a destroyed frame; no descriptor is closed with an operation in flight;
  a response is sent whole and in order; a request is eventually answered;
* epoll: no event is forgotten before its handler has run, no resumption is lost,
  waiting connections are accepted, what is echoed is neither lost nor doubled;
  what still sends uses the descriptor of its own connection;
  an event never reaches a destroyed handler and a blocked `epoll_wait` keeps
  nobody from being served (neither holds, see section 3);
* caches: list and map agree, the cache never exceeds its capacity and evicts
  the least recently used entry, a file stays mapped while anyone uses it;
* HTTP: a request read in pieces is parsed as if it came whole, whatever
  connection used the descriptor before; the parser accepts the grammar it stands
  for; what is served lies below the root; a response is always made and ends;
* buffer pool: no buffer is given out twice or lost.

## 2. Modules

| module | models | role |
|---|---|---|
| `ThreadPool` | `Loop.hpp`, and frames as `Tasks.hpp` defines them | specification and properties |
| `PoolSpec` | nothing in particular: what the pool promises | abstract specification |
| `MCThreadPool` | | symmetry for TLC |
| `ThreadPoolProofs` | | inductive invariant, safety theorems, `ThreadPool` implements `PoolSpec` |
| `LruCache` | `Lru.hpp`, `FileCache.hpp`, and their use in `responseHandler` | specification and properties |
| `MCLruCache` | | module of the cache's runs |
| `LruCacheProofs` | | inductive invariant, safety theorems |
| `UringServer` | `Uring.hpp`, `uring/Socket.hpp`, `uringhttp.cpp`, caller chains of `Tasks.hpp` | specification and properties |
| `MCUringServer` | | symmetry for TLC |
| `UringServerProofs` | | inductive invariant, safety theorems |
| `EpollServer` | `Epoll.hpp`, `http/Socket.hpp`, the pool as they use it | what the two epoll servers share |
| `EchoServer` | `epolltest.cpp` | specification and properties |
| `HttpServer` | `httptest.cpp`, `readRequest` of `Http.cpp` | specification and properties |
| `MCEchoServer`, `MCHttpServer` | | symmetry for TLC |
| `EpollServerProofs` | | invariant of what the epoll servers share, kept by each of its actions |
| `EchoServerProofs`, `HttpServerProofs` | | inductive invariants, safety theorems |
| `HttpMessage` | parsing and responses of `Http.cpp` and `Http.hpp` | specification and properties |
| `MCHttpMessage` | | the messages TLC looks at |
| `HttpMessageProofs` | | inductive invariant, safety theorems |
| `BufferPool` | `BufferPool.hpp` | specification and properties |
| `BufferSpec` | what the buffer pool promises | abstract specification |
| `MCBufferPool` | | symmetry for TLC |
| `BufferPoolProofs` | | inductive invariant, safety theorems, `BufferPool` implements `BufferSpec` |

Definitions that end in a fault (`BoundNever`, `LockSharedUnchecked`, ...) stand
just before the definition they are a faulty variant of. They are used by no
specification; replacing the original by the variant makes TLC report the
property that `mutants` in `PROJECT.json` names, which shows that the property
can fail.

### ThreadPool

One variable per member of `threadPool`, one per local that lives across a lock
operation (`targetQueue`, `cur`, `doneTasks`, and the argument and return point
of `addTask`), and `pc` for the position of each thread. A step ends where the
code takes or releases a lock, so TLC interleaves threads at every point where
the code can be interleaved.

| action(s) | code |
|---|---|
| `Register`, `PassLatch` | a worker's start: append its queue, `threadLaunchLatch` |
| `Construct` | the constructor's last statement, `currentQueue = queueList.begin()` |
| `AddLockClean` ... `AddNotify` | `addTask`, called by `BodyAdd`, `BodySchedule`, `MainAdd` |
| `RunLockClean` ... `RunEnd`, `SpuriousWake` | `runTasks`, `condition_variable` included |
| `BodyFinish`, `BodySuspend`, `BodySchedule`, `BodyComplete`, `BodyAdd` | what a resumed coroutine may do, see below |
| `Enter`, `CleanLock` ... `CleanSleep` | `enter()` and `cleanTasks()` |

A coroutine is a frame at an address of `Tasks`, in state `free`, `suspended`,
`running` or `done`. Its own computation is left open: it may suspend, finish,
reschedule itself, end any frame that has started (what symmetric transfer to
the caller amounts to for the pool; also the frame it was popped for, and also
one whose own worker has not returned from `resume()` yet), or pass *any* frame to `addTask`, also one that
is queued, running or done, because that is what `reapIOs` and `epollWaitEvent`
can do. What is assumed of tasks is only that they pass handles of frames that
exist; `UringServer` checks that the io_uring server meets that.

Decisions worth knowing:

* `std::shared_mutex` is taken to be glibc's default rwlock, which prefers
  readers: the comment at `Loop.hpp:61` relies on it, and so does `addTask`
  when a task calls it under the shared lock `runTasks` already owns.
* The nested locks of a worker's start-up are one step: they are all released
  before the latch, and no other thread that runs then takes them in another
  order. Reading `begin()` in the constructor is not protected by them.
* Dereferencing `end()` is undefined behaviour. The model stops the thread in
  position `ub`. `end()++` gives the first node, as in libstdc++'s circular list.
* A handle whose frame exists but which is bound to `end()` is possible (it is
  what the start-up race produces), so all safety properties are also checked
  there.
* Memory exhaustion and exceptions that leave a detached coroutine
  (`std::terminate`) are not modelled.

### PoolSpec

The pool without locks: `Create`, `Bind`, `Push`, `Take`, `Resume`, `Yield`,
`Complete`, `Release`, `Drop`, `Collect`. Its content is in the guards: a handle
is pushed only to the worker it is bound to, a frame is resumed only when
suspended, and freed only when it is done, unqueued and held by nobody.
`ThreadPool!ImplementsPoolSpec` maps `holder` to `cur` and `binding` to
`taskBinding`, except that a handle the cleaner has unbound but not destroyed
yet still counts as bound. Models of the I/O layers are built on what
`PoolSpec` promises, not on the locks.

### LruCache

`get` and `refresh` hold `mtx` from beginning to end, so each is one step:
`GetHit` (splice to the front), `GetMiss` (build, evict if full, put), `GetFails`
(the file cannot be opened or is a directory: nothing changes) and `refresh`.
State: `cacheList` and `map` as in the code; for each address of a file object
`mPath` and, in `memory`, whether the object exists and its file is mapped;
`held` and `want`, the
reference each response handler got and the path it asked for; `recent`, a
history of the order of use. An object is destroyed, and its address free for
the next one, when neither the cache nor a handler refers to it: with
`Capacity` entries and one object per handler there is always an address left.
`build` ignores the result of `map()`, and so does the model: a file may get
into the cache unmapped. The capacity is at least 1 (the server's is 1024).

### UringServer

Frames are `free`, `live` or `done`; `code` holds what is in a frame: the kind
of coroutine, its place in the code, the connection, the awaiting coroutine and
the last result. `exec` is the coroutine that executes on a worker, `holder`
the handle the worker has popped: the two differ after a symmetric transfer,
and `exec` is empty while `await_suspend` of a coroutine already submitted is
returning. `sq`, `ops` and `cq` are the submission queue, the kernel's
operations and the completion queue; `peer` is the socket of each connection.

| action(s) | code |
|---|---|
| `RunTask`, `ReturnTask`, `addTask`, `CleanTask` | the pool, as `PoolSpec` promises it |
| `Submit`, `SubmitBusy` | the awaiters and `prep_*`; the ring full |
| `AcceptAgain` | `asyncAccept` after the last completion: again, or throw and end the process |
| `ClientRead`, `ClientRespond`, `ClientEnd` | `clientHandle` |
| `ReadMore`, `ReadEnd` | `readRequest`; its end transfers to `clientHandle` on the same worker |
| `SendRetry`, `SendRest`, `SendBody`, `ResponseEnd` | `responseHandler` |
| `ReapNone`, `ReapOne`, `ReapConn`, `ReapConnFails`, `ReapMore` | `reapIOs` |
| `Kernel...` | external: what the kernel may do with an operation |

Decisions worth knowing:

* `addTask` is one step here. The handle added is suspended and nobody else can
  resume it meanwhile (`ResumedOnce`), and the steps inside are `ThreadPool`'s
  subject.
* `cqe_seen` is part of the step that deals with the entry: only `reapIOs` looks
  at the head of the queue.
* A request is what `readRequest` can tell: a part, a whole one, one that is too
  long, end of file or reset, another error. What parsing and
  `httpResponse` make of a whole one is a choice: body or not, close or not.
  Their exceptions are not modelled.
* The socket of a connection is shared by `clientHandle` (a local variable, gone
  when it returns) and its response handlers (a parameter, gone with the frame);
  the last one closes it (`Owners`, `Disown`).
* A response is a header of one unit and a body of `BodyLen`.

### EpollServer, EchoServer, HttpServer

`EpollServer` has no specification of its own: it is the state and the actions
the two servers share, and each of them adds its coroutines and its `Next`. As
in `UringServer` the pool is what `PoolSpec` promises; a round of `cleanTasks` is
one step and happens while no worker is inside a coroutine, because a worker
owns `cleanWorkMutex` in shared mode all that time. A coroutine that is resumed
goes on step by step (one system call or one `addTask` each) until it yields,
suspends or returns.

State: `binding`, `queue`, `holder`, `frame`, `code` as before; `events`, what
`epoll_wait` has returned and is not dispatched yet; `ready`, the connections
with an edge not reported yet; `sock`, both ends of each connection, with the
descriptor and the registered address (`ptr`); `ended`, why the process ended.
`HttpServer` adds `uncompletedRequests`, the table by descriptor, and the history
`requests`. Other histories: `code[t].wakes`, the `addTask` calls others made for
a coroutine; `sock[c].put`, `out` and `short`.

| action(s) | code |
|---|---|
| `RunTask`, `addTask`, `Yield`, `Return`, `Clean` | the pool; `co_await pool.scheduler`; `co_return` |
| `TouchFreed` | `resume()`, `done()` or `destroy()` of freed memory: ends the model's run |
| `EpollWait`, `Dispatch` | `epollWaitEvent` |
| `Accept`, `AcceptSuspend`, `AcceptThrow` | `acceptAll`: a connection; no connection or no descriptor; another error |
| `EchoRecv`, `EchoAgain`, `EchoEof`, `EchoError` | `echoHandle` |
| `WriterSend`, `WriterAgain`, `WriterError`, `WriterSignal` | `writer` |
| `ReadMore`, `ReadAgain`, `ReadEnd` | `readRequest`, called by `httpHandle` |
| `StartResponse` | `httpHandle` after a message or an error |
| `ResponseThrow`, `SendHead`, `SendBody`, `SendAgain`, `SendError`, `SendSignal` | `responseHandler` and its sends |
| `OpenFile`, `OpenFail`, `OpenThrow` | its `file.open` and `file_size` |
| `Peer...` | external: the other end of a connection |

Decisions worth knowing:

* `epoll_wait` reports a connection once for each edge (edge-triggered) and the
  listener as long as someone waits (level-triggered). An address in an event
  may be that of a frame that is gone; `addTask` does not look behind it.
* Of a frame that was destroyed, `done()` may say done (`RunTask` drops it) or
  not (`TouchFreed`). The allocator may give the address to a new coroutine,
  which then inherits binding and entries (`Fresh`).
* A reset is reported by the first operation that meets it; after that a read
  finds the end and a send raises SIGPIPE, since `send` has no `MSG_NOSIGNAL`.
  A signal and an exception that leaves a detached coroutine end the process.
  Read errors other than a reset are treated alike by the code and left out.
* In `EchoServer` sends may be short, and the loop of `writer` then does what the
  code does: `written` starts again, so the buffer is sent from its first unit.
  In `HttpServer` short sends are left out; the same loops are the subject of
  `UringServer!ResponseWhole`.
* `file.open` is never tried again: `regularFile::open` returns errors of
  `system_category` (`File.hpp:22-23`), `responseHandler` compares them with those of
  `generic_category` (`httptest.cpp:79-82`), and error codes of different categories
  are not equal. So `OpenFail` is the response's end whatever the error. (The
  comparisons of socket errors agree: `checkError` uses `generic_category`.)
* A unit is what one `read` returns, at most 1024 bytes, and a request has at most
  4096. So the first unit fits and any later one may or may not (`fits` in `ReadMore`).
* The demos were written against a slightly different interface of the headers
  (an argument more of `acceptAll`, a shared instead of a unique pointer).

### HttpMessage

One message at a time: `ParseFirstLine`, `ParseHeader` (one iteration of the
loop), `Respond` (the constructor of `httpResponse`) and `Serialize`. A path is a
sequence of components, a component a sequence of the characters `.`, `?` and
`w`, which stands for any other; `w` is also the extension whose type is known. A
header line is what the code tells apart: empty, without a colon, starting with
one, or key and value. What `parseResquest` returns for `Connection:close` no
caller uses. `Outcome` follows the constructor's order: `..` is looked for, then
the index is appended, then the extension tested, then the arguments cut off,
then the extension used; `substr(1)` of an empty one throws.

### BufferPool

One step looks at one flag, so that scans interleave flag by flag. No code of
the repository instantiates the pool; the model lets any number of users call it
at any time and assumes of them that they return only what they were given. The
history `full` says whether no buffer was free at some moment of a `getBuffer`.
`BufferSpec` is an allocator whose two operations are atomic; `Owner` maps to it:
a buffer belongs to a user from `test_and_set` to `clear`.

## 3. Runs

| run | instance | checks |
|---|---|---|
| `pool_safety` | 2 workers, 3 frames, cleaning from 2 bindings on, 3 `addTask` calls plus any number of reschedulings, construction at any time | `TypeOK`, `QueueAffinity`, `ResumeExclusive`, `CleanExcludesResume`, `NoDanglingHandle`, `NoLostWakeup`, `NoCircularWait`; `ImplementsPoolSpec`, `BindingStable`; absence of deadlock |
| `pool_liveness` | 2 workers, 2 frames, cleaning from 1 binding on, 2 calls, construction at any time, `FairSpec` | `TaskServed`, `CleanerReleases` |
| `pool_startup` | 2 workers, 2 frames, 1 call, construction at any time | expected violation of `AddFindsQueue` |
| `lru_cache` | 4 files, capacity 2, 2 handlers | `MapListAgree`, `LruOrder`, `ServesRequested` |
| `uring_requests` | 2 workers, 1 connection with 1 request, 4 frames, ring of 1 entry, body of 2 units, short sends | `TypeOK`, `CallerWaits`, `ResumedOnce`, `OpsOnOpenSocket`, `EndedIsBound`, `SocketOwned` |
| `uring_responses` | 1 worker, 1 connection with 1 request, 5 frames, ring of 1 entry, `FairSpec` | `ResponseEnds` |
| `uring_rearm` | 2 workers, 3 frames, 1 connection that closes at once, accepts that end, `FairSpec` | `AcceptRearmed`, `ResumedOnce` |
| `echo_units` | 2 workers, 1 connection that sends 2 units, 5 frames, cleaning from 4 bindings on, no timeout, short sends, resets, failing accepts | `WakesKept`, `EachUnitOnce`, `FirstEventComes` |
| `http_requests` | 1 worker, 2 connections that send 1 unit each, 1 descriptor, cleaning from 3 bindings on, `ClosingSpec` | `RequestsFromOwnPeer`, `OpsOnOwnDescriptor`, `PartialHasReader`; `ConnectionAccepted`, `ResponseEnds` |
| `http_responses` | 2 workers, 1 connection that sends 2 units, 4 frames, 2 descriptors, files, exceptions, resets | `TypeOK`, `OpsOnOwnDescriptor`, `RequestsFromOwnPeer` |
| `http_messages` | the messages of `MCHttpMessage` | `ParsedAsWritten`, `ServedBelowRoot`, `ThrowsOnlyForArgs` |
| `buffer_pool` | 3 users, 2 buffers | `FlagsExact`, `NoSharing`; `ImplementsBufferSpec` |

Bounds. Two workers are the least that can compete for a handle or hold one
another's locks; three frames let one be destroyed and its address be used
again while two others are queued and running. `MaxAdds` bounds calls of
`addTask` other than rescheduling, which is unbounded; three calls are enough
for one to meet a handle that is queued, running, done or being cleaned.
`CleanThreshold` stands for the code's 10000: 2 has the cleaner skip and work in
one run, 1 makes it work as often as possible. The proofs need none of these
bounds; `RunningIsHeld`, `PopNonEmpty` and the type invariants of `LruCache`, `HttpMessage`
and `BufferPool` are proved and not repeated in the runs. Symmetry over workers and
frames is used only where no liveness is checked.

For the cache, four files over two entries give misses with and without
eviction, hits at either end of the list, and files that come back after
eviction while a handler still has the old object.

For the server, a request and the end of file after it already give two
`readRequest`s and two response handlers next to each other on one socket; with
fewer frames than the five a connection may need, addresses are reused while
operations are in flight. A ring of one entry makes `sqeBusy` happen to every
operation. `MaxReqs`, one part per request and `AcceptEnds` are bounds: the
endless cycle of ending and arming accepts is independent of what a connection
does, so it has a run of its own. Five frames in `uring_responses` mean that no
coroutine waits for an address, that is, for the cleaner.

For the epoll servers: `MaxSends` bounds what a peer sends and `MaxLen` of how many
units a request may consist, so one unit is a whole request or a part, and two, in
`http_responses`, are a request in pieces, two requests together, two one after the
other, or one that is too long. `MaxFds` is the limit of descriptors: 1 makes the
second connection wait for `EMFILE` and then use the first one's descriptor, 2 lets one
file be open next to the connection, so that a second response finds no descriptor.
In `OpsOnOwnDescriptor` the descriptors of files matter in `http_responses`, and
those of a later connection in `http_requests`, where a descriptor is used again.
`CleanThreshold` is such that frames are destroyed, and their addresses used
again, while late events for them are possible. `MaxEvents` is `epoll_wait`'s 128.
Some bounds leave out what would make queues grow without limit and change
nothing else: `MaxEntries`, entries of `acceptAll` beyond the first (the
level-triggered listener adds one on every round of `epoll_wait`), and
`IdleWriters`, writers of empty buffers beyond the first (`echoHandle` creates one
on every poll). `Resets`, `AcceptFails`, `Files` and `Throws` switch kinds of
faults on; `http_requests` has them off, the safety runs on. These models stop
when all peers have closed, so their configurations do not check deadlock.

For messages: all combinations of two, three or another number of spaces, a
known or unknown method and version and every sequence of up to two header lines
of eight kinds before the empty one; and all addresses of up to two components
of up to three characters with every kind of `Accept`. For the buffer pool, three
users and two buffers are the least with which a scan can miss a free buffer.

`pool_startup` is a finding. The constructor starts the threads and reads
`queueList.begin()` without waiting for any of them (`Loop.hpp:119-124`; the
latch is only among the workers). If no worker has run `emplace_back` by then,
`currentQueue` is `end()` and the first `addTask` uses it. `BeginSeesQueue`
is the scheduling assumption under which `AddFindsQueue` holds: theorem `QueueFound`
proves that it suffices. The other runs and theorems do not need it.

Fairness. `FairSpec` assumes strong fairness of each worker's own steps: a
runnable thread is scheduled, a mutex that is free again and again is obtained
some time (the waiting thread is not passed over for ever), and a resumed task
returns to its worker. The last one is an assumption on tasks which a blocking
`epoll_wait` does not meet. Spurious wake-ups carry no fairness. The main thread
gets weak fairness only: it may starve at the write lock, since the lock prefers
readers, so nothing is claimed about the cleaner ever getting it; what is
claimed is that it gives it back.

`UringServer!FairSpec` assumes weak fairness of each worker and of the kernel
taking submissions (its polling thread, or the wake-up in `io_uring_submit`),
and strong fairness of two things: whoever finds the ring full again and again
gets an entry some time, and sends that end with EAGAIN again and again succeed
some time (the sockets are blocking). The cleaner and the peers carry no
fairness. Termination by an exception is excluded from the liveness properties.

`EchoServer!FairSpec` and `HttpServer!FairSpec` assume weak fairness of each worker,
and strong fairness of the sends that are tried again and again (the peer reads,
so that there is room some time). `HttpServer` also assumes that the cleaner gets
its lock some time if it is free again and again: it asks for it every 30
seconds. `ClosingSpec` adds that peers close what they have opened, without which
nobody could promise a descriptor to the next one.

What the code does not guarantee. The configurations below are not among the
runs above; each has TLC refute one statement that one might take for granted, and
shows by its counterexample where the code falls short of it.

| configuration | module | refutes | because |
|---|---|---|---|
| `LruMmap.cfg` | `MCLruCache` | `CachedIsMapped` | `build` ignores the result of `map()` (`FileCache.hpp:51`), so a file whose mapping fails is cached as an empty one |
| `UringShortSend.cfg` | `MCUringServer` | `ResponseWhole` | both loops of `responseHandler` initialise their position in every iteration (`uringhttp.cpp:52`, `89-91`); after a short send the next one starts from the first byte, so the peer gets more bytes than `Content-Length` says, and a body that never fits at once is never finished. `WholeWithoutShortSends` (section 4) shows that nothing else makes a response repeat bytes |
| `UringStarved.cfg` | `MCUringServer` | `ResumesInTurn` | `reapIOs` yields only when there is no completion (`Uring.hpp:177-191`); as long as they keep coming, what is bound to its worker waits. This is why `uring_responses` has one worker and accepts that do not end |
| `EchoStale.cfg` | `MCEchoServer` | `EventFindsTask` | the handler's address stays registered while a writer keeps the socket open, also after the cleaner has destroyed the handler (`Epoll.hpp:44`) |
| `EchoLastWriter.cfg` | `MCEchoServer` | `LastWriterServed` | `epoll_wait` has no timeout and runs on a worker; a writer bound there waits for the next event. The comment at `epolltest.cpp:64-66` describes it |
| `HttpPipelined.cfg` | `MCHttpServer` | `OneRequestEach` | completeness is tested at the end of all that has arrived (`Http.cpp:97`); of requests that arrive together only the first is answered |
| `HttpFewFiles.cfg` | `MCHttpServer` | `OpenWaits` | the test for a lack of descriptors compares error codes of different categories (`httptest.cpp:79-82`, `File.hpp:22-23`); the response ends after its header, though lines 79-83 would try again |
| `HttpInterleaved.cfg` | `MCHttpServer` | `ResponsesApart` | each request gets a response of its own (`httptest.cpp:175`), and nothing orders them: the header of the second comes before the body of the first |
| `HttpCleaner.cfg` | `MCHttpServer` | `DoneDestroyed` | with two workers that poll, one owns `cleanWorkMutex` at every moment, and the lock prefers readers (`Loop.hpp:61`) |
| `HttpThrow.cfg` | `MCHttpMessage` | `ResponseMade` | the extension is tested before the arguments are cut off and used after it (`Http.cpp:304`) |
| `HttpAcceptType.cfg` | `MCHttpMessage` | `AcceptHonoured` | `find()` returns a position and is used as a condition (`Http.cpp:323`), so no file is ever refused |
| `BufferRunOut.cfg` | `MCBufferPool` | `RunOutMeansNone` | a buffer returned behind a scan while one before it is taken: `bufferRunOut` although one was free at every moment (`BufferPool.hpp:44`) |

## 4. Proofs

TLAPS checks the following for every value of the constants that meets the
assumption of the module, `ConstantsAssumption` (`MessagesAssumption` for
messages): whatever the number of workers, frames, connections, descriptors,
users, buffers and entries, and however much the peers send. Each inductive
invariant was checked by TLC before it was proved, on the instances of the runs and,
for the epoll servers, also on one with two connections. With `MaxEntries` and
`IdleWriters` arbitrary, what these two bounds leave out is covered as well.

`ThreadPoolProofs` proves `Spec => []IInv` (theorem `Invariance`). None of the
safety properties is inductive by itself: that a popped handle is not destroyed,
say, depends on who owns `cleanWorkMutex`, which depends on each thread's
position. `IInv` is the conjunction of

* `TypeOK`;
* `LockInv`: each lock is owned by exactly the threads whose position says so;
  the number of shared ownerships is a function of the position;
* `CallInv`: a call of `addTask` has a live handle, and the queue it looked up
  is still the one the handle is bound to;
* `HeldInv`: a worker has popped a handle exactly between pop and end, the
  handle is bound to this worker, and it is `running` exactly while executing;
* `QueueInv`: queued handles are live and in the queue they are bound to;
* `DoneInv`: what the cleaner has set aside is done, unbound and disjoint;
* `NoLostWakeup`, which is inductive given the rest;
* `StartInv`: what construction establishes.

`InitInv` and `StepInv` are the two halves of the induction; for each conjunct
one lemma (`TypeStep`, `LockStep`, ...) goes through the actions, and the actions
that disturb a conjunct in a way the provers do not see at once have a lemma of
their own. From `Invariance` follow `TypeCorrect`, `AffinityHolds`,
`ResumeIsExclusive`, `RunningHeld`, `CleanerRunsAlone`, `HandlesLive`,
`PopsNonEmpty`, `WakeupNotLost`, `QueueFound` (if the constructor saw a queue)
and the action property `BindingsStable`.

`NoDeadlockOverLocks` (`Spec => []NoCircularWait`) needs the converse of `LockInv`,
`OwnerInv`: a mutex that is owned is owned by a thread whose position says so. Then
who waits for a lock waits for a thread of a lower `Rank` (`WaitsDown`): the cleaner
before its write lock comes first, then those who want to read, then those who want a mutex,
and the owners of a mutex wait for nobody, thanks to the `try_lock` of
`Loop.hpp:188`. It is the part of the absence of deadlock that concerns locks;
the rest is that a worker does not sleep for ever (`NoLostWakeup`) and that what
waits for no lock can move, which is ENABLED and is left to TLC.

Theorem `Refinement` is `Spec => ImplementsPoolSpec`: initial states map to
initial states, and under `IInv` every action is a step of `PoolSpec` or leaves
the mapped variables alone (`StepRefines`, with one lemma per action that
changes them). `CleanScan` is the delicate one: it removes bindings, but the
mapped binding stays until `CleanDestroy`, which maps to `Collect`.

`LruCacheProofs` proves `Spec => []IInv` for every finite set of files, every
set of handlers and addresses and every capacity above 0. `IInv` has `TypeOK`, `MapListAgree`,
`LruOrder` and `ServesRequested`, which are the properties, and two facts they
need: `RecentDistinct` (no file is twice in the order of use) and `SizesAgree`
(list and map have the same number of entries, so that the test of the map's
size bounds the list). `TypeCorrect`, `MapAndListAgree`, `EvictsLeastRecent` and
`RequestedServed` follow.

`HttpMessageProofs` proves `Spec => []IInv` for every set of messages, with any
number of lines and components of any length, and every set of header keys and
values that meet `MessagesAssumption`. `IInv` adds `PlaceInv` to the properties: what
is known at each place, in particular that the headers found so far are those of
the lines before `next`, each with the value it has first (`ParsedSoFar`). One
iteration of the loop keeps it because a key of line `next` is new or has an
earlier line (`EmplaceIs`), and at the end the lines read are exactly those
before the first empty line. That the operators which choose the first of
something (`AskAt`, `AskIn`) are defined follows from a least element of a set of
numbers (`Least`, by the well-founded order of the naturals). `ParserCorrect`,
`PathsBelowRoot` and `ThrowsForArgs` follow.

`BufferPoolProofs` proves `Spec => []IInv` for every set of users and every number of
buffers. `IInv` is `TypeOK`, `FlagsExact`, `NoSharing` and `ReturnInv` (the buffer a
`returnBuffer` looks for is not in use any more by its caller). The lemmas
about `Owned` say what a step does to who has what; from them follow the
invariant and, since an owner is unique, `Refinement`: `GetTake` is an `Acquire`,
`ReturnClear` a `Release`, and everything else leaves `Owner` alone.

`UringServerProofs` proves `Spec => []IInv`. The core of `IInv` is `PlaceInv`: a
coroutine that lives is in exactly one of six places (`OnePlace`): in a queue, on
a worker, in the submission queue, in the kernel, among the completions, or
behind the coroutine it awaits; one that does not live is in none. Each action
moves one coroutine from one place to another. That it leaves the place it was in
needs that it was there once, which is `OnceInv` (no two entries of the queues, the
ring, the kernel or the completions for one coroutine, no two coroutines with the
same caller, and a completion without `IORING_CQE_F_MORE` is the last one of its
operation). The rest says what each place implies:

* `KindInv` and `CallerInv`: at which lines each kind of coroutine can be, and that
  `readRequest` runs for a `clientHandle` of the same connection that awaits it;
* `BoundInv`: the only coroutine the pool does not know is a `readRequest` whose
  first `recv` has not been completed, so what ends is known to the pool;
* `OpInv` and `SeenInv`: operations and completions fit the coroutine that waits
  for them, and between the two halves of `reapIOs`' treatment of an accepted
  connection the head of the completion queue stays;
* `SocketInv`: a connection waits in the ring, once, until it has an owner, and its
  socket is open from then until its owners are gone;
* `HolderInv`, and `TypeInv`, which also has the types of records `TypeOK` leaves open.

There is one lemma per action, and under it one step per conjunct that the action
can disturb; actions that move a coroutine in the same way share one. From
`Invariance` follow `TypeCorrect`, `CallersWait`, `ResumedExactlyOnce` (the sum of
the traces of a coroutine is one: counted from `PlaceInv` and `OnceInv`),
`OpsOnSockets`, `EndedAreBound` and `SocketsOwned`.

`WholeWithoutShortSends` says what remains of `Content-Length` where the run of
`UringShortSend.cfg` refutes it: under `ShortSends = FALSE` the code has the property
(`Spec => []ResponseWhole`), whatever else fails. Its invariant `WholeInv` stands on
`IInv`: a live response has sent exactly what precedes the part it is at (`Whole`);
what is submitted for it, or works in the kernel, is the whole of that part (`Fits`);
and a completion that reports success reports all of it (`Delivers`). That the part
does not change under an operation on its way is `PlaceInv`: the response is in one
place, so it does not run (`WholeStays`).

`EpollServerProofs` has the part of the two epoll servers' invariants that concerns
what they share, `CoreInv(D)`, where `D` is what peers send:

* `PoolType`, `DataType(D)`, `EventType`: the types;
* `QueueInv` and `HeldInv`: handles wait where they are bound; a worker is inside of
  a live coroutine that is bound to it;
* `WaitInv`: there are undispatched events only while a worker is inside of
  `epollWaitEvent`. A round of `cleanTasks` excludes that, so no socket is closed
  between `epoll_wait` and the last of its events;
* `FrameInv`, `FdInv`, `PtrInv`: who keeps a socket open, that open sockets have
  different descriptors, and that the registered address is the only handler's;
* `WakeInv`, which is `WakesKept` with the worker that is inside and the queue
  entries taken apart, and `FirstEventComes`, which is inductive given the rest.

`WakeInv` counts entries of a queue, so the lemmas about `Count` say what `Append`,
`Tail` and `Without` (the `erase_if` of `cleanTasks`) do to such a number. Every
action of `EpollServer` is shown to keep `CoreInv(D)`, and so are two forms of
steps, `Going` (a coroutine goes on or ends) and `Spawning` (it creates another one
and adds it to the pool); each step of a handler of either server is one of them.

`HttpServerProofs` proves `Spec => []HttpInv`: `CoreInv(Units)` and

* `TableInv`: a buffer of the table that is not empty has a reader, a live handler
  whose connection has this descriptor. It is what makes it safe to give the
  descriptor to somebody else. In the code it hangs on the two calls of
  `eraseBuffer`, for a complete message (`Http.cpp:98`) and for every error but
  EAGAIN (`Http.cpp:106`: too long, end of file, reset), both before the handler can end;
* `ArrivedInv`, `MessageInv`, `BufferInv`: what is unread, what is in the buffer and
  each message are made of the peer's units, in the order of sending, and each part
  comes before the next. `RequestsFromOwnPeer` alone is not inductive: it says
  nothing of what has not been read yet.

`HttpTypeCorrect`, `HttpWakesKept`, `HttpFirstEventComes`, `HttpRequestsFromOwnPeer`
and `HttpPartialHasReader` follow. `HttpOpsOnOwnDescriptor` needs one more invariant on
top of `HttpInv`, `FileInv`: no file has the descriptor of a connection. Only `accept`
and `open` take descriptors, from those that neither has (`AcceptKeepsFiles`,
`OpenKeepsFiles`); in all other steps nobody takes one (`NoneTaken`). With `FrameInv` (a
frame that exists keeps its socket open) and `FdInv` it gives the property.

`EchoServerProofs` proves `Spec => []EchoInv`: `CoreInv(Nat)` and

* `UnitInv`: unless a send was short, no unit of a connection is in two of the places
  unread, echoed, and the buffers of its coroutines, and, unless the connection was
  reset, each is in one. Its lemmas move units between places (`ReadMoves`,
  `HandsOver`, `SendsBack`, `Arrives`, `EmptyComesAndGoes`);
* `WriterInv`: a writer has its whole buffer still to send, unless a send was short;
* `EndInv`: an open socket has a live handler, or its peer has closed and nothing is
  unread. Without it the cleaner might close a socket on which something waits, and
  those units would be lost.

`EchoWakesKept`, `EchoFirstEventComes` and `EchoEachUnitOnce` follow.

What the proofs have changed in the models. `FirstEventComes` did not say that the
registered address is that of a handler of *this* connection; with two connections
an address that is used again makes the difference. Alternatives of `ReadResult` and
`SendResult` overlapped, so that a `CASE` left open which one holds (TLC takes the
first). `RequestsFromOwnPeer` did not say that the units of a message are in order.
`Without` is a recursive function, and `Serving(c)` a set over which the places of a unit
are counted, because facts about these two can be proved.

Induction over numbers, where a lemma needs it (`Count`, `Without`), uses the least
element of a set of numbers (`LeastNumber`, `SetInduction`).

Only model-checked: the liveness properties (`TaskServed`, `CleanerReleases`,
`ResponseEnds`, `AcceptRearmed`, `ConnectionAccepted`), which are out of the
prover's reach; the absence of deadlock; the run that is expected to fail and
the counterexamples at the end of section 3. Every safety invariant, action
property and refinement that a passing run checks is also stated by a theorem.

## 5. Plan

1. `ThreadPool`, `PoolSpec`, proofs and refinement. *Done.*
2. `LruCache`: the LRU list and map, the file objects and their users. *Done.*
3. `UringServer`: caller chains of `Tasks.hpp`, `Uring.hpp`, `uring/Socket.hpp`
   and the coroutines of `uringhttp.cpp`, on the abstract pool. *Done, with
   proofs.* Left: that the server's pool steps are steps of `PoolSpec`.
4. `EpollServer`, `EchoServer`, `HttpServer`: `Epoll.hpp`, `acceptAll`, reactor sockets,
   the two epoll demos and the table of partial requests. *Done, with proofs.*
5. `BufferPool`: concurrent scans of the flags. *Done, with proofs and refinement.*
6. `HttpMessage`: first line, headers and response against reference definitions.
   *Done, with proofs.*

## 6. Not modelled

`Timer.hpp` (its registration is commented out, it can only return at once),
`WhenAll.hpp` (marked uncompleted, refers to a loop type that does not exist any
more), `Traits.hpp` (compile time only), `ErrorHandle.hpp` and `DEBUG.hpp` (no
state), `tests.cpp` (exercises an event loop that no longer exists) and
`threadpooltest.cpp` (tasks that finish at once, a special case of `ThreadPool`).
Exceptions stored for an awaiting coroutine and the generator promises of
`Tasks.hpp` are not used by the servers. `modifyEvent`, `deleteEvent`, `sendfile` and
`write` have no caller. A failing `epoll_wait`, memory exhaustion and the contents of
files are left out, and so are the mappings of `httptest.cpp:101-102`, one for each
attempt to send a body, of which only the last is undone. The kernel (io_uring, epoll, sockets, files) and the C++
runtime are modelled only as far as the code depends on them.
