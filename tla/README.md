# WFX in TLA+

WFX is an HTTP server framework: a master process forks workers, and every
worker is one thread around an edge-triggered `epoll` loop that parses requests,
runs the user's handlers (C++ coroutines) and keeps pools of outbound
connections ("endpoints") those handlers talk to. This project models the parts
of it whose correctness depends on an order of events that a test hardly
produces (re-entrant callbacks, late events, timeouts that race answers, signals
that race forks), the data structures under them, and the conversions (JSON,
templates, routes, response framing) that have a reference definition to be
compared with.

Paths below are relative to the repository.

## 1. The system

| Component | State it keeps | Operations | Talks to | Module |
|---|---|---|---|---|
| Timer wheel (`utils/timer/timer_wheel.cpp`) | bucket heads, intrusive list per bucket, `nowTick_` | `Schedule`, `Cancel`, `Tick` | event loop; calls back `onExpire_` | `TimerWheel` |
| Async timer heap (`utils/timer/timer_heap.cpp`) | binary heap, index `idMap_`, one timerfd | insert, remove, pop expired, re-arm | sleeping coroutines | `AsyncTimers` |
| Client connections (`os_specific/linux/epoll_connection.cpp`, `http/connection/`) | `ClientCtx`, buffers, response, async state | accept, receive, dispatch, write, flush, keep-alive, close | engine, wheel, heap, endpoints | `ClientConn` |
| Core engine, middleware, request parser (`engine/core_engine.cpp`, `http/middleware/`, `http/parser/`) | parse state, middleware chain | `HandleRequest`, resume, `FinishRequest` | client connections, router, limits | `ClientConn` |
| Endpoint pool (`epoll_connection.cpp`) | `EndpointCtx` per slot, bitmaps, `coalescePending`, `pendingReconnects_`, counters | lease, connect, handshake, onConnect, send, receive, pool, pin, coalesce, reconnect, prewarm, release | `epoll`, wheel, clients' coroutines, TLS, protocols | `EndpointSlots` |
| Multiplexed endpoints (same file) | stream table per slot, coalesce map | slot choice, send, parse, drain, teardown | as above | `MuxEndpoint` |
| SMTP, HTTP and Postgres endpoints (`include/wfx/endpoint/`) | handshake stage, parser state, statement cache | serialize, parse, onConnect, cancel | endpoint pool | `SmtpClient`, `HttpUpstream`, `PgConn` |
| DNS refresh (`utils/resolver/`, `epoll_connection.cpp`) | resolver threads, permits, result queue, address lists | register, start, publish, apply, walk | endpoint pool | `DnsRefresh` |
| Routing (`http/routing/`) | one trie per method, group stack, route metrics | register, open/close group, match | engine | `Router` |
| Limits (`http/limits/`) | connection counters, token buckets in an LRU pool | allow, refill, evict, release | engine | `Limits` |
| Response building (`http/response/`) | phase, flags, bytes in the write buffer | status, headers, body, flush, commit | engine, client connections | `ResponseWire` |
| Buffers and buffer pool (`utils/rw_buffer/`, `utils/pool/`) | blocks, segments | append, grow, advance, compact, expand | everything | `Buffers` |
| File cache (`utils/fileops/filecache.cpp`) | entries, frequency buckets, descriptors | get, evict | file transfers | `FileCache` |
| Hash shard (`utils/hash_map/`) | control bytes, slots, counters | emplace, insert, get, erase, grow, compact | heap index, limiters, maps | `HashShard` |
| Slot bitmap (`utils/pool/bitmap_pool.hpp`) | lease and mark bitmaps | alloc, alloc marked, free, mark, unmark | client and endpoint slots | `SlotBitmap` |
| JSON (`shared/json/`) | node store, key/value free list, hash tables; parser and writer state | set, push, erase, copy, parse, serialise, write | handlers | `JsonStore`, `JsonText` |
| Templates (`engine/template_*.cpp`) | chunk carry, file stack, IR, operator stacks, cache file | expand, parse, generate, build, load | master's start, handlers | `Template*` |
| Master process (`cli/commands/cmd_run/helper.cpp`, `cli/commands/common/common.cpp`) | worker table, process group, backoff | spawn, reap, revive, poll, shut down; signal handlers | kernel, workers, stop command | `Supervisor` |
| Daemon registry (`utils/daemon/daemon_registry.cpp`) | PID files | write, read, delete, stop | master | `Supervisor` (stop only) |
| TLS wrapper, configuration, dotenv, crypto, logging, command line | settings, keys | conversions and I/O | startup, handlers | not modelled |

**What is hard.** A worker has one thread and therefore no data races, but it is
re-entrant everywhere: completing or failing a request resumes the client's
coroutine *inside* the handler that completed it, and that coroutine may send,
reserve, release or return while the handler is half way through its work. An
`epoll_wait` returns several events, of which the first may destroy what the
later ones are about, and an edge that is not used is gone. A slot's timer, its
queued reconnect, its peer and its client all may want it at the same moment.
Peers cut their messages anywhere, so every parser resumes in the middle. The
resolver threads are the only other threads of a worker. In the master, a signal
handler may run between any two instructions, children die at any time, process
and group ids are recycled, and the stop command has a deadline of its own.

**What makes each part correct.**

* Timers: lists and heap never break, an armed timer is never lost, fires once,
  not before its time and not much later, and `Tick` returns.
* Client connections: responses leave whole, one per request and in the order of
  the requests; the middleware chain is the one a synchronous run gives; a
  suspended coroutine is always reachable; every live connection ends.
* Pool: the gauge `slotsInUse` is exact; a client and its slot agree about each
  other; a suspended request always has somebody who will resume it, with its own
  answer; a pooled slot is idle; every state has a way out; `EnterState` never
  meets a transition it kills the worker for; a pinned connection is used by its
  holder only; a stream of a multiplexed connection has one owner.
* Protocols: an answer belongs to the request that gets it, however the bytes
  were cut; no credential leaves in the clear once encryption was asked for.
* DNS: an answer never replaces a newer one, permits are given back, no result
  is left in the queue with nobody told.
* Tables: the hash shard is a map, the bitmap a pool, the JSON store a document,
  the router matches what its patterns say, the limiters count who is there, the
  cache evicts its coldest file, the buffers lose nothing.
* Templates: the page served is the one the sources mean, of one version.
* Master: it knows exactly its children, its broadcast reaches all of them, it
  leaves none behind, it revives the ones that crash and it does stop.

## 2. Modules

| Module | Content |
|---|---|
| `TimerWheel`, `TimerWheelProofs`, `MCTimerWheel` | the wheel and the loop code that drives it; its proofs; an instance with re-entrant callbacks |
| `AsyncTimers`, `HashShard`, `SlotBitmap`, `ResponseWire`, `Buffers`, `FileCache`, `Limits`, `Router` | the tables and helpers of a worker |
| `SlotBitmapProofs`, `LimitsProofs` | proofs about two of them |
| `AbstractMap`, `AbstractPool`, `AbstractDoc` | what a hash shard, a slot bitmap and a JSON store promise |
| `MCTables` | the wheel and the tables in one instance |
| `ClientConn`, `MCClientConn` | one client connection slot from accept to release |
| `EndpointSlots`, `MCEndpointSlots` | the pool of one single-slot endpoint, with its clients |
| `EndpointSlotsProofs`, `EndpointPoolProofs` | its inductive invariant and what slots and clients know of each other; what callers and the gauge rely on |
| `MuxEndpoint`, `MCMuxEndpoint` | the slots of one multiplexed endpoint |
| `SmtpClient`, `HttpUpstream`, `PgConn`, `DnsRefresh`, `DnsRefreshProofs` | the protocols and the address refresh, with its proofs |
| `MCProtocols` | these and `MuxEndpoint` in one instance |
| `JsonStore`, `JsonText`, `TemplateExpand`, `TemplateExpr`, `TemplateCode`, `TemplateCache` | JSON and templates |
| `MCDocuments` | these in one instance |
| `Supervisor`, `SupervisorProofs`, `MCSupervisor` | master, workers, kernel, stop command; its proofs; an instance |
| `LeastNumber` | every non-empty set of naturals has a least element: the induction the proofs use |

`MCTables`, `MCProtocols` and `MCDocuments` put independent modules side by
side: a variable (`part`, `topic`) chosen in `Init` says which of them a
behaviour exercises, the others keep their initial state. A property of such a
run is that of its module and is vacuous in the other behaviours. What happens
between modules is modelled where it matters inside one: `ClientConn` contains
the engine, the middleware and the timers' view of a connection, `FileCache` the
transfers that hold its descriptors, `EndpointSlots` the clients' coroutines,
`Limits` the connections that are counted.

Operators whose names end in `Fault` are slips a programmer might make in the
definition that follows them. Nothing uses them; substituted for that
definition they show that the property aimed at it would notice.

### TimerWheel

`wheel` is `meta_` and `wheelHeads_` (next, prev, bucket, rounds, extra per
position; a head per bucket). `Schedule`, `Cancel`, `Unlink`, `LinkHead` are
operators on that record, statement by statement what the functions of the same
names do to it. `HandlerSchedules` and `HandlerCancels` are the calls the event
loop makes outside `Tick` (`RefreshExpiry`, including its 16-bit parameter, and
`ReleaseClient`). `HandleTimeoutTimer` reads the timerfd and enters `Tick`, which
runs as `NextBucket`, `SkipRound`, `Expire`, `CallbackTouches`,
`CallbackReturns`, `BucketDone`, `TickDone`: the cut points are the places where
`onExpire_` may call back into the wheel. `saved` is `Tick`'s local copy of
`m.next`. `asked` is a history variable: what the program asked for, and when.

### The tables of a worker

* `AsyncTimers`: the heap as a sequence with its index, sift up and down by
  position. `HandleAsyncTimer` is split where it resumes a coroutine, because
  that coroutine may go back to sleep and move the head the loop is about to
  re-arm the timerfd for.
* `HashShard`: slots in aligned groups, probed group by group from the key's
  hash, with tombstones, `CompactInPlace` and growth at the code's load factor.
  Refines `AbstractMap` (`ShardIsAMap`): the map is what a scan of the slots
  finds, and every operation answers as a map would.
* `SlotBitmap`: words scanned from the last allocation with wrap-around, the last
  word partly in use, the mark bitmap built on first use. Refines `AbstractPool`
  (`BitmapIsAPool`): an allocation gives a free slot if there is one and fails
  only if there is none.
* `ResponseWire`: the write buffer is a sequence of tokens (status line, header,
  content length, blank line, body pieces, the reserved gap that becomes a chunk
  header, terminator). A handler may make any sequence of calls; what is checked
  is the message that leaves.
* `Buffers`: bytes are their numbers in the stream, so a byte lost, repeated or
  moved shows. The TLSF allocator is external: a block fits or it does not.
* `FileCache`: frequency and recency as in the code; descriptors are numbers the
  kernel recycles, and a transfer keeps its number over the wait for `EPOLLOUT`.
* `Limits`: `AllowRequest` and `HandleClose` with both limiters. The identity is
  the masked address, behind a trusted proxy the one read from the right end of
  the forwarded header.
* `Router`: one trie per method; a path is a sequence of `/` and names, a typed
  parameter is the set of names it parses. `RouterExact` compares the match with
  the set of registered patterns that fit.

### ClientConn and MuxEndpoint

Both use one idiom: the loop is single threaded, so an event runs to completion,
and a handler is an operator from a state to the *set* of states it may leave,
one per outcome of its system calls and of the application code it calls; `Then`
chains two of them. What interleaves are events.

`ClientConn`: `conn` is the `ClientCtx` with its response and coroutine;
`sock` the socket (unread input, what the peer does, the readiness edge); `armed` and `heap` the slot's
entries in the wheel and in the sleep heap; `arrivals` the events fetched by
`epoll_wait` and not yet handled; `log` what a peer and an observer saw. A
request arrives in pieces (head, part, body); a handler answers inline, from a
file, as a stream, by flushing chunks, or suspends on a sleep or an endpoint. A
middleware member continues, skips, breaks or suspends. TLS appears as a
handshake that may need more events. A file is as long as its header says, or
shorter or longer by the time it is sent: `WrapFile()` returns 0 before the
announced size and `SendFile` goes on as after a whole body, and the TLS fallback
reads to the end the file has by then (`BodyEnds`); `log.resized` records it.

`MuxEndpoint`: a slot is picked by looking at its live state, so a coroutine
resumed in the middle of a teardown may send again and meet the slot that is
going down. `sock` holds the answers nobody has read, `edge` whether epoll will
report the slot. `parse()` gives any of its verdicts; "keep" on a slot whose last
stream was answered in the same call returns a lease that was returned already,
which `overdrawn` counts.

### EndpointSlots

`slot[s]` is the `EndpointCtx` plus the slot's pool bits, timer and contribution
to `slotsInUse`; `client[c]` the `ClientCtx` plus where its coroutine is;
`pending` is `coalescePending`; `reconnects` is `pendingReconnects_`; `batch` the
events of the current `epoll_wait` not yet handled.

`stack` is the call stack of handlers that are half way through: `Complete`,
`Finish`, `ReleaseEndpoint`, `EraseEntry`, `NotifyClient`, `FreeSlot`, `Waiters`,
`Resume`, `Detach` and the others are the pieces between two resumptions of a
coroutine, pushed and popped as frames. A loop step (`LoopStep`) needs an empty
stack; a running coroutine (`CoroutineStep`) may do what a handler may do in that
place: send, hit a local failure, reserve, release, return.

`setup` is chosen in `Init` from the constant `Setups`, so one run explores
several kinds of endpoint. A setup has its `features`:

* `tls`, `onConnect`, `upgrade` (onConnect may call `SlotUpgradeTls`), `onAbort`,
  `onPush`: what the endpoint or its protocol declares;
* `pin`, `retry`: whether handlers reserve connections, or send again from inside
  the failure of a request;
* `local`: whether serialize, `socket` and `epoll_ctl` may fail;

the requests clients make (`reqs`) and which of them are coalesced; what
`connect()` may answer (`connects`: `progress`, the normal `EINPROGRESS`, `once`,
immediately established, `refused`, this address refuses at once, `broken`, a
local error); the number of addresses, of prewarmed connections, of events per
`epoll_wait`; and the `budget` of sends, reservations and accepts.

Abstractions: payloads are a request's name; a response is the request it
answers. A response is complete, incomplete, closing or malformed by choice.
TLS shutdown on a connection the peer broke fails at once. `SlotUpgradeTls` is
called after at least one receive. `EPOLLIN` and `EPOLLOUT` in one event are two
consecutive events. Failing the waiters of a key iterates over a copy of the
vector (in the code a retrying waiter may invalidate the iterators; the copy is
one of the possible outcomes). The wrap-around of the generation counters is
left out; a buffer the pool cannot give ends the worker.

### Protocols and DNS

* `SmtpClient`: the handshake EHLO, STARTTLS, EHLO, AUTH and the mail
  transactions on the connection afterwards. A reply line is a record (code, last
  line or not, capability) that travels in two parts, so a read may end inside
  it. The server keeps what it accepted, and that is compared with the mail.
* `HttpUpstream`: requests on one keep-alive connection and the incremental
  parser of the responses: informational answers, lengths, chunks, close-delimited
  bodies, size limits. Lines are delivered as head and end, bodies byte by byte.
* `PgConn`: messages as records; handshake and encryption, extended queries with
  the prepared statement cache (probe window, use counts, invalidation epochs),
  sessions and transactions, streamed rows, cancellation over a side connection.
* `DnsRefresh`: endpoints are registered, then refreshed by detached threads that
  push results and signal an eventfd under one mutex; the loop swaps the queue
  out. A thread holds one permit of `DnsThreads` from its start to its exit and
  the retry time the endpoint had when it was started; its query takes at most
  `QueryTimeout`. A write to the eventfd may fail (`signalLost`). An answer
  carries the version of the records it was taken from.

### JSON and templates

* `JsonStore`: nodes, key/value records with a free list, one buffer per
  container holding a list and, for objects, an open-addressing table. Any node
  ever made can be edited. Refines `AbstractDoc` (`JsonIsADocument`), the tree a
  reader of the document sees.
* `JsonText`: a text grows piece by piece; the parser's verdict and value are
  compared with a grammar given as a definition of its own, and what the writer
  and the serializer produce is read back. Digits are zero or not, and an exponent
  is one digit, enough to put a number out of the range of its type
  (`Magnitudes`, the powers of ten a double holds): the parser refuses such a
  number with the same error as an ungrammatical one.
* `TemplateExpand` compares chunked expansion with expansion of the whole file.
* `TemplateExpr` has the three stages of a condition: the RPN is the one of the
  precedence grammar (`RpnExact`), and the C++ text emitted from it has the
  expression's operators and operands in their places (`EmittedExact`) unless a
  name is taken while an operation or a constant left of it waits, because the
  emitter keeps names and operations on two stacks. In an emitted condition a
  name stands for its presence. What the text *means* is section 5.
* `TemplateCode` compares the generated state machine with the meaning of the
  nested tags.
* `TemplateCache`: pages are edited, the cache file or the build directory is
  removed, and a start compiles, saves the cache, builds the library and loads
  it; a template may not compile, the build may fail, and a crash may come in any
  phase. `torn` are the pages a start compiled and recorded in the cache without
  ever building their library.

### Supervisor

`pc` says where `RunServerImpl` is: the startup loop, the wait loop (`loop`,
`presleep`, `sleep`, `awake`, `reap`, `revive`), the shutdown phase (`collect`,
`wait`, `kill`, `cleanup`) or an end. `SpawnWorker` is two steps, `Fork` and
`Adopt`, because a signal may arrive between `fork()` and the bookkeeping.
`pids`, `pgid`, `shouldStop` and `self` are the fields of `MasterState` and of
the metrics slot; `pending` is the vector of the shutdown phase.

`proc` is the kernel's process table: state, process group, and the child's own
copy of `workerPGID`. An id is handed out again only when neither a process nor
a group has it; `setpgid` fails for a group without members. A worker is
`forked`, then `joined` (it has called `setpgid` but still has the *master's*
signal handler), `init` (its own handler, no engine yet: SIGTERM is swallowed),
`serving`, `stopping`, `zombie`. A child that receives SIGTERM while it still has
the master's handler runs `HandleMasterSignal` itself: it signals its own group,
itself included, and therefore never leaves the handler (`looping`, ended only by
the master's SIGKILL).

`Stop` and `StopReturns` are `DaemonRegistry::Stop`. A `Tick` is a second, for
every countdown at once; the master's own steps take no time.

## 3. Runs

| Run | Result | What it shows |
|---|---|---|
| `wheel_reentrant` | holds | callbacks may cancel and re-arm other timers in the middle of `Tick`: lists well linked, no armed timer lost, `Tick` ends |
| `tables` | holds | one table per behaviour. Wheel: a timer fires once, for the arming in force, never before its deadline in wheel time, less than one timerfd period early in real time (`FiresInTime`), at most one revolution late. Sleep heap: indexed and ordered, every sleeper covered by the armed timerfd and woken less than half a bucket early (`SleepersSound`). Hash shard and bitmap implement a map and a pool (`TablesRefine`). What a handler writes is one well-formed message and the buffer under it loses nothing (`OutputWhole`). File cache: coldest file evicted, no descriptor leaked (`FilesSound`). Limiters (`LimitsSound`) and router (`RouterExact`) |
| `ep_pool` | holds | an endpoint of every kind: gauge exact (`CountedOnce`), links agree, every state with a way out and the pool idle (`SlotStatesSound`), nobody lost, coalesced answers to those who asked (`CoalescingSound`), reservations exclusive (`PinsSound`), no illegal transition |
| `ep_live` | holds | every suspended request ends, even if the backend is silent |
| `client` | holds | one connection against its peer, its timers and an endpoint: responses in step with requests, middleware chain exact, requests intact (`ResponsesInStep`); no coroutine lost, no fatal transition, no live connection without its expiry (`ClientSound`); no request started under a suspended handler; live connections and coroutines end (`ClientsEnd`). What is assumed of files and pipelining is in section 5 |
| `sup_master` | holds | table exact, broadcast reaches everybody, nobody outlives the master, backoff never shrinks, workers come back, a stop ends |
| `documents` | holds | JSON store without shared or leaked buffers (`JsonStoreSound`) and implementing a document; the parser accepts the grammar's texts whose numbers fit their types, and text is read back (`JsonTextExact`); pages as their templates say (`PagesExact`): files spliced, control flow as written, operators with their own operands, one version of static and compiled parts whatever start failed or was interrupted, except `torn` pages |
| `protocols` | holds | multiplexed streams with one owner, leases counted by `slotsInUse` but for the second return that section 5 lists (`MuxSound`); SMTP, HTTP and Postgres answers belong to their requests (`AnswersMatchRequests`); credentials only when encrypted (`SecretsEncrypted`); resolver permits, timer ids and the result queue (`DnsSound`); address lists never go back in time |
| `mux_edge` | **violated** | `UnreadIsAnnounced`: input that arrives while a multiplexed slot writes is announced by an edge that is ignored |
| `sup_start` | **violated** | `NobodyLeftBehind`: a fork that fails at startup leaves the workers already forked |
| `ep_retrying_waiter` | **violated** | `NoLostClient`: a waiter that retries while its key is being torn down is erased with the key |
| `client_reap` | **violated** | `EverySlotReleased`: a connection marked for closing whose peer stops reading keeps its slot |

Several properties are conjunctions of named parts, each with its own comment in
its module (`SlotStatesSound`, `CoalescingSound`, `ResponsesInStep`,
`LimitsSound`, `PagesExact` and others); the parts are what a reader of the code
would argue about one by one.

### Bounds, and why they are enough

* **Wheel.** Two timers in 4 buckets with timeouts shorter and longer than a
  revolution and a clock that lasts three revolutions (`MaxClock`); three timers
  in 2 buckets when callbacks touch each other (the walked one, its saved
  successor, a third). `MaxCalls` bounds the calls callbacks make on other
  positions during one `Tick`; a third call finds a list of three no different
  from after the second.
* **Sleep heap.** Three sleepers: a head, a child on each side, so both sift
  directions and the removal of a middle element happen. `Delta` scales the
  coalescing window; delays lie on both sides of it.
* **Hash shard.** Five keys with colliding hashes and tags, capacity 4 growing to
  8 and no further, groups of 2: runs of used slots wider than a group,
  tombstones, compaction, growth and a refused growth are all reached.
* **Bitmap.** Five slots in words of two: three words, the last partly used.
* **Responses.** Up to six calls, enough for status, header, body, flush, a second
  body and commit in any order.
* **Buffers.** A pool of 4 bytes that may grow to 11, a buffer of 2 that grows by
  3 up to 7: growth in place, growth by moving, refusal, compaction.
* **File cache.** Three readable files and one that is not, capacity two, two
  transfers; frequencies saturate at 3 in the model only.
* **Limits.** Three connections, two tracked identities, two per address: the pool
  is full while all its entries are in use.
* **Router.** Four registration calls over five patterns with static, typed,
  string and wildcard segments, two group prefixes, two methods, nine requests.
* **Endpoint.** Two slots and two clients let a slot be reused while the other
  is still being torn down, and let a waiter and a primary coexist; one or two
  requests tell the right answer from a wrong one. Budgets of 3 or 4 allow a
  request, its retry or waiter, and the next use of the same slot. Two addresses
  for the address walk, `MaxReconnect = 1` for the limit of background
  reconnects, two events for "several". Slots and clients are symmetric and
  declared so, except in the liveness run where symmetry is unsound.
* **Client.** Two pieces sent, two global and one route middleware, two awaits per
  handler, one flush between them: a pipelined request, a body cut from its head
  and a second suspension happen. `MaxGen = 1`: the slot is used by one peer, and
  stale events are told apart by the generation.
* **Mux.** Two clients, two slots of two streams, three stream keys; `parse()`
  gives each of its four verdicts.
* **Protocols.** Two mails on one connection, two upstream requests, three
  Postgres requests with three statements in a cache of two, two sessions; two
  endpoints with three possible configurations, two resolver threads.
* **Documents.** Four nodes and four edits (an array or object grows, is copied,
  loses a key and reuses its record); texts of up to nine pieces, numbers of five
  with magnitudes -2 to 2 (the exponent digit reaches both sides), strings of
  three characters with every UTF-8 and surrogate boundary; templates of five
  tags, expressions of six tokens, chunks of 6 to 10 characters (every tag is cut
  at every place), three versions of two pages.
* **Supervisor.** Two workers and three process ids: one id is spare, and ids are
  recycled. Two crashes allow the whole group to die (the group's name is
  dropped) or one slot to crash twice (backoff grows). `Width = 1` scales the
  32-bit backoff shift, so both sides of the boundary are reached.

Deadlock is looked for in `wheel_reentrant`. The other systems really stop: when
a budget is used up and the clients are gone, after `logger_.Fatal`, when a
protocol's requests are answered, or when the master has exited.

### Fairness

* Wheel: weak fairness of `Tick`'s own steps, a plain loop that is not preempted
  by the rest of the thread.
* Endpoint: weak fairness of the handlers on the stack, of running coroutines
  (that they reach their next await or return) and of the events already fetched;
  strong fairness of a slot's expiry, because the timer may be re-armed by other
  events but the timerfd is periodic and a timer that stays armed fires. Nothing
  is assumed of the network, of backends or of clients.
* Client: weak fairness of fetching a reported event and of handling a fetched
  one; an entry of the wheel or of the sleep heap does not stay there for ever.
  Nothing is assumed of the peer, nor of the endpoint a handler waits for.
* Supervisor: weak fairness of the master's steps, of time, and of a forked
  worker's way to serving. A worker told to stop need not obey, and signals need
  not come. A fork can only fail a bounded number of times (`MaxForkFails`).

### Refinement

`HashShard` implements `AbstractMap`, `SlotBitmap` implements `AbstractPool` and
`JsonStore` implements `AbstractDoc`, each by `INSTANCE ... WITH` a mapping from
the stored representation, with the abstract specification as the property. A
map may give up only after its allocator refused it memory; a pool refuses only
when nothing is free; a document is what a walk from its root finds.

## 4. Proofs

TLAPS checks every theorem below for all values of the constants. Each module
keeps one inductive invariant, a conjunction of named parts that TLC was made to
check on small instances first; the lemmas are about the operators (what
`Unlink`, `Evict`, `WrapConnect` or a call pushed on the stack does), then one per
action, then the temporal step. Where an argument needs induction (along a list, over
the words of a bitmap) it is a least counterexample: `LeastNumber` proves that a
set of naturals that is not empty has a least element, and the proof looks at the
first position at which the claim would fail.

**Timer wheel** (`TimerWheelProofs`). With re-entrant callbacks:

* `TypeCorrect`: `Spec => []TypeOK`; `ListsWellLinked`: `Spec => []LinksOK`. The
  links are repaired by every single operation, not only at the end of `Tick`.
* `NothingLost`: `Spec => []NoTimerLost`. Every position of a bucket has a rank
  that grows along `next` (`Ranked`), so a bucket's members that are not reached
  from its head would have one of least rank, and that one has a predecessor.

When no callback touches another timer, the first tick is no later than one
period, and every timeout fits the 16 bits of `RefreshExpiry` and the `rounds`
field (`Untroubled`; what happens otherwise is in section 5):

* `NeverLate`: an armed timer is at most one revolution overdue
  (`LateByOneRevolution`); `OnlyArmedFire`: `FiresOnlyArmed`; `NeverEarly`:
  `FiresInTime`. The invariant relates the rounds left of a timer to the ticks
  left to its deadline, before or behind the cursor of the walk (`Behind`), and
  says that `Tick` resumes where it stopped (`WalkInv`, `ClockInv`).

**Master** (`SupervisorProofs`). For any number of workers and process ids, any
timing and any number of failures:

* `ReachesEveryWorker`, `NobodyForgotten`, `CleanExit` (a master that ends by
  itself leaves nobody alive). `EveryWorkerReachable` survives a revival only if
  the group the master remembers still has a member when the new child is put
  into it, which is `GroupHeld`: while a group is remembered a worker of the
  table is in it, except in the middle of `ReapDeadWorkers`, which drops the name
  at its end. It survives the child's own `setpgid` only if that names the same
  group, which is `CopiesAgree`: the copy of `workerPGID` a child was forked with
  is the master's group, or empty and the child is itself the group's leader.
* `NoOrphans`: for any poll interval and any grace period above zero, the shipped
  2 s and 2 s included, no worker outlives its master in a behaviour in which no
  stop command's SIGTERM falls between the test of `shouldStop` and `nanosleep`
  (`StopClearOfSleep`: such a stop must find the interval below the grace). So
  that window is the only way to orphan workers; everywhere else (startup, fork
  and adoption, reaping, revival, the sleep itself, the shutdown phase) a stop is
  in time. `Needs` is the time the master still needs from where it is; the stop
  command always has more left. Inside the window the shipped values do lose
  workers (section 5).

**Slot bitmap** (`SlotBitmapProofs`). `BitmapRefinesPool`: for words of any width
and a pool of any size, exact or rounded up, the bitmap implements
`AbstractPool`: the scan from the last allocation, wrapping around and masking
the last word, finds the slot the abstract pool may hand out, and finds none only
when none is free.

**Limiters** (`LimitsProofs`). `LimitsHold`: `LimitSpec => []LimitsSound`, for any
clients, limits, masks and table sizes. The invariant `LimInv` says that the
counters are the numbers of open connections they stand for (`OpenOK`,
`CountsOK`), and that the LRU is one list of distinct entries that the index
covers, each with the tokens its age allows and the count of the connections that
hold it (`Pool`).

**DNS refresh** (`DnsRefreshProofs`). For any number of endpoints and threads, any
answers and any order of their steps:

* `DnsHolds`: permits, timer ids and the result queue (`DnsSound`);
* `AddressesMoveOn`: as long as every signal arrives, an endpoint's addresses are
  never replaced by those of an older answer. The order of the threads does not
  matter because there is one job per endpoint, a thread that resolves or a
  result that waits (`JobsInv`), and there is one because a started job moves the
  endpoint's schedule `MaxRefresh` ahead while a query ends within
  `QueryTimeout`. Assumed: `QueryTimeout < MaxRefresh` (the code's ceiling is an
  hour; libc gives up after seconds).

**Endpoint pool** (`EndpointSlotsProofs`, `EndpointPoolProofs`). For every set of
slots and clients and every endpoint `Setups` may describe (TLS, onConnect,
upgrade, coalescing, reconnects, failing system calls, any number of addresses):

* `LinksHold`: `Spec => [](Tame => LinksAgree)`;
* `PinsHold`: `Spec => [](Tame => PinsSound)`;
* `NoneLost`: `Spec => [](Patient => NoLostClient)`;
* `CountedHolds`: `Spec => []CountedOnce`;
* `CoalescingHolds`: `Spec => [](Tame => RightAnswer /\ EntryHasOwner)`, and
  `CoalescingSound` (which adds `OnlyOwnerFailsWaiters`) under
  `Tame /\ (OnConnect => Coalesced = {})`.

None of these is inductive, because a handler that is half way through has broken
the links it will mend. `SInv` therefore speaks of the call stack, numbered from
its bottom (`Down`) so that a frame keeps its number while others come and go
above it: where a frame may be (`Placed`), whom it will wake when it goes on
(`WokenOnce`, `ParkedOnce`: a suspended client has *at most* one frame, slot or
entry that will wake it, and a stale token is older than the client), what it
expects of its slot (`Expected`) and that no coroutine it woke has taken that slot
meanwhile (`NoNesting`, `NotTaken`), what a slot carries (`Carried`) and who holds
a reservation (`Pinned`). `Tame` leaves out handlers that both reserve and call
again from inside a failure; for those `NoLostClient` and the gauge are known to
fail (section 5).

`NoneLost` adds that a suspended client has *at least* one thing to wake it
(`ServedInv`): a slot, a frame, or an entry that is not about to be erased. The
only step that could take it away is `EraseEntry`, if a waiter joined the entry
while its predecessors were being failed; that needs a coroutine that sends from
above the half-finished release, and everything above one is a failure
(`FailAbove`). `Patient` is the condition under which a failed handler sends no
coalesced request; run `ep_retrying_waiter` shows what happens without it.

`CountedHolds` adds `CountInv`: a slot contributes 1 to the gauge while it is
leased and not between `ReleaseEndpoint` and `FreeSlot`, what goes on with a slot
finds it leased or pooled, and a slot that is neither has no events and no timer.
`CountedOnce` itself is about one event per `epoll_wait` and no reservations;
section 5 has the two counterexamples beyond that.

`CoalescingHolds` needs two more. `FitInv`: what a slot owes is the request of its
client and the one its key stands for, a client is parked under the key of its own
request, and a frame that brings an answer brings it to clients that asked for it.
It survives a coroutine that sends its next request from above such a frame
because only one thing at a time can wake a client (`WokenOnce`), so nothing below
still has an answer for it, and because a token for an earlier connection is
stale. `OwnInv`: an entry's slot carries the entry's key and keeps it until its
release has erased the entry (`FreedErased`, `ErasedOwned`), which happens once
although a slot may be released again from inside its own release (`ReleasedOnce`,
`EraseOnce`). A slot with a key owns the entry of that key only where a request
registers as it is sent; with onConnect it registers later, two slots may carry
one key before either does, and `OnlyOwnerFailsWaiters` fails (section 5).

Assumed of the constants, everywhere: only their types, that `None` or `NIL` is
no member of the sets it stands beside, that sets that are counted are finite,
that a period or a size is not zero; and the comparisons of timeouts named above.

**Only model-checked.** Liveness (`TickTerminates`, `EveryRequestEnds`,
`ClientsEnd`, `AlwaysRevived`, `StopEnds`) is out of the prover's reach; so are
the exponential of the backoff, hence `BackoffNeverShrinks`, and what a recursive
definition computes, hence everything about the modules that need one
(`MuxEndpoint`, `ClientConn`, `AsyncTimers`, `HashShard`, `Router`, `JsonStore`,
`JsonText`, the templates). The protocols (`SmtpClient`, `HttpUpstream`, `PgConn`)
are checked through conjunctions over several modules. Of the endpoint pool,
`SlotStatesSound` and `NoIllegalTransition` are checked on the kinds of endpoint of
run `ep_pool` only: each is false for some other kind (section 5), so no statement
over all of `Setups` holds.


## 5. Where the code and its documentation disagree

The violated runs above, in words:

1. `mux_edge`. `HandleEndpointWriteComplete` enters `EVENT_ENDPOINT_RECV` without
   re-arming epoll, although an `EPOLLIN` edge consumed during the write is gone;
   `SlotReceive` guards the same case and says why. The answers stay unread until
   the peer sends more.
2. `sup_start`. When `SpawnWorker` fails in the startup loop the master returns
   without signalling the workers it has forked; the architecture document says
   that no worker outlives its master.
3. `ep_retrying_waiter`. `ReleaseEndpoint` fails the waiters while their entry is
   still in the map and erases it afterwards; the multiplexed path moves them out
   first.
4. `client_reap`. The expiry callback skips a connection that is marked for
   closing and has no handler, and the timer is not armed again.

The conditions below are left out of the runs that hold, because the code does
not keep the property there. Each is reproduced by the change given: the run's
configuration with the named constant changed, or with `Setups` a single setup.

| Condition | Change to make | Property that fails |
|---|---|---|
| a timer whose expiry lies past a revolution boundary is passed over when its bucket first comes up, and fires a revolution late | `tables` as it is (`LateByOneRevolution` is what holds) | `OnTime` |
| an expiry callback cancels the timer `Tick` has saved as next | `wheel_reentrant` as it is | `FiresOnlyArmed` |
| ... or re-arms it into another bucket | `wheel_reentrant` as it is | `NeverBeforeDeadline` |
| a timeout of 65536 s or more, cut to 16 bits by `RefreshExpiry` | `tables`, `TimeoutMod = 4` | `NeverBeforeDeadline` |
| a late `EPOLLERR`/`EPOLLHUP` for a slot released earlier in the same batch: the generation changes on lease, not on release | `ep_pool`, `Setups <- BatchSetups` | `InUseExact` |
| two deferred primaries of one key, the unregistered one fails | `ep_pool`, 3 clients, the setup of `CoalesceSetups` with 2 events, `onConnect` and budget 4 | `OnlyOwnerFailsWaiters` |
| a send that fails synchronously keeps `asyncData` | `ep_pool`, `PinSetups` with `connects = {"refused"}` | `NoStaleAsyncData` |
| the first address refuses synchronously, the second is never tried | `ep_pool`, `LifecycleSetups` with `refused` in `connects` | `RefusedByEveryAddress` |
| a pinned TLS connection in `SHUTDOWN` is used again | `ep_pool`, `PinSetups` with features `tls`, `pin`, 1 event | `NoIllegalTransition` |
| a reservation is dropped by the coroutine that `ReleaseEndpoint` resumes | `ep_pool`, `PinSetups` with 1 event | `InUseExact` |
| a failed pinned send is repeated from inside the failure | `ep_pool`, `PinSetups` with features `pin`, `retry`, 1 event | `NoLostClient` |
| the server speaks first after an immediate connect | `ep_pool`, `ConnectSetups` with `connects = {"once"}` | `DeferredOnlyWhileConnecting` |
| prewarming two TLS connections when `connect()` is immediate | `ep_pool`, the TLS setup of `LifecycleSetups` with `connects = {"once"}`, `prewarm = 2` | `NoIllegalTransition` |
| a signal of a resolver thread that is lost: the result is applied with a later wake-up and schedules the next resolve while the retry thread is still resolving, so two resolves overlap and the older answer may come last, although `epoll_connection.cpp:4420` says the mark "prevents Run() from spawning a second overlapping resolve" | `protocols`, a second endpoint and `QueryTimeout = 3` above `MinRefresh`, and the property without its `~signalLost` | `AddressesNeverGoBack` |
| a poll interval not below the stop command's grace period, as shipped (2 s and 2 s): the test of `shouldStop` and `nanosleep` are not atomic, and a SIGTERM between them leaves the master asleep until the stop command kills it, although `daemon_registry.cpp:231` means never to "SIGKILL the master while it's still busy cleaning up its own children" | `sup_master`, `PollInterval = 2` (the shipped tie) | `NoWorkerOutlivesMaster` |
| an even `worker_backoff_base` is shifted out of 32 bits before attempt 32 | `sup_master`, `BackoffBase = 2`, `Width = 2`, `BackoffMax = 3`, `N = 1` | `BackoffNeverShrinks` |
| `Write()` runs for a handler that flushed and is suspended again: its coroutine is taken out of the slot | `client` as it is | `SuspendedHandlerOwnsRequest` |
| after `100 Continue` the parser starts over with the head | `client`, `RequestKinds` with `expect` | `RequestAlwaysIntact` |
| a handler awaits or throws once its stream has ended | `client`, `KeepsContract = FALSE` | `ResponsesInStep` |
| a handler mixes whole-body calls into a flushed stream | `tables`, `KeepsContract = FALSE` | `WireWellFormed` |
| a mail transaction that is dropped half way leaves the server inside it, and the pooled connection is reused (`smtp.md:272` says the connection is ready for reuse) | `protocols` as it is | `FreshTransaction` |
| a `CancelRequest` arrives after the abandoned query ended and hits the next one on the connection (`postgres.md:592` speaks of the abandoned query only) | `protocols` as it is | `CancelsOnlyTheAbandoned` |
| a session abandons a stream and sends another query | `protocols`, `DrainsStreams = FALSE` | `AnswersAreOwn` |
| two slots walking one address list share its cursor, or the list is replaced during a walk: some address is skipped | `protocols` as it is | `WalksTheWholeList` |
| a control byte without a named escape is written raw by `JsonObject`, and the parser refuses it | `documents`, `RawControls = TRUE` | `SerializerReadsBack` |
| a template condition is not the one C++ makes on the values: a name means its presence, also in a comparison (`templates.md:202` "Their behavior matches C++.") | `documents` as it is | `ConditionsAsDocumented` |
| names and waiting operations are on two stacks of the emitter, so `!a && !b` becomes `b && !!a` and `two or not b` groups its operands otherwise than written | `documents` as it is | `ConditionsAsGrouped` |
| a loop variable that shadows a bound name | `documents`, `KeepsScopes = FALSE` | `CodeExact` |
| the cache file is written before the library is built: after a template that does not compile, a failed build or a crash in between, the next start takes the page for up to date and serves a new flattened file with the old generator, or finds no generator for a new page, which is fatal at every start until the cache is removed | `documents` as it is | `ServesWhatItBuilt` |
| an include outside the blocks of a child, a block overridden on two levels of children, a lone `{` at a chunk's end outside the blocks of a child: the compiler does not give what inheritance (`Render`) says | `documents`, `Sites <- MCDeepSites` | `ExpandExact` |
| a file that shrinks or grows while it is sent: `SendFile` breaks out of its loop when `WrapFile` returns 0, the TLS fallback reads to the new end, and a keep-alive connection goes on after a body that is not as long as its `Content-Length` | `client` as it is | `BodiesAsAnnounced` |
| a request that arrives while a response is being written: its edge is consumed, `ResumeReceive` neither reads nor re-arms, and it waits for the peer's next bytes or for the expiry (`epoll_connection.cpp:2936` says that pipelining is not supported) | `client` as it is | `UnreadInputAnnounced` |
| a flush that fails releases the context, and the handler goes on to its end on it; behaviours of `client` stop there | `client` as it is | `NoCompletionOnReleasedContext` |
| `parse()` answers the last stream and returns `COMPLETE_KEEP_ALIVE`: the slot went idle and its lease back when the stream ended, and the verdict gives it back again, although `epoll_connection.cpp:2191` says to "only decrement once per idle window" | `protocols` as it is | `LeaseGivenBackOnce` |

Seen while modelling, without a property of their own:

* `FileCache` closes the descriptor of an evicted entry although a transfer may
  hold its number; `TransferReadsItsFile` therefore excludes transfers whose
  entry was evicted (`lost`).
* The JSON parser accepts leading zeros and refuses a fraction or exponent that a
  double cannot hold (`1e999`, or an underflow) where others round; `JsonWriter` silently drops containers
  past its depth limit.
* A `COMMIT` of a streamed query that fails on the server is swallowed when its
  rows were already delivered.

## 6. Reading a counterexample

In an endpoint trace, `stack[1]` is the innermost handler. A state with an empty
stack is one where the event loop is back in `epoll_wait` (or between two events
of `batch`); most invariants are stated there (`Quiet`), the others hold in the
middle of handlers too. In a supervisor trace look at `pc` and `proc[p].st`; a
signal shows as a change of `shouldStop`. In `tables`, `documents` and
`protocols` look at `part` or `topic` first: only that module's variables move.
In `client` and `mux_edge` a step is a whole handler with everything it calls;
`log` and the coroutine's fields tell which outcome was taken.

## 7. Not modelled

* OpenSSL and the wrapper around it: its results are nondeterministic outcomes of
  the handlers; `SSL_ERROR_WANT_*` shows as a handshake that needs more events.
* Configuration, dotenv, command line, logging, cryptography, the PID files of the
  daemon registry: conversions and I/O without concurrency, or run before the
  first fork.
* Number formatting, header syntax, MIME headers, base64, SCRAM arithmetic, column
  decoding: what they compute is assumed; where a property depends on a
  conversion (dot-stuffing, escapes, UTF-8, chunk framing) it is modelled.
* Streamed responses of multiplexed endpoints; byte counts of partial writes (a
  write completes, is cut short or fails); metrics; value transport between
  coroutines.
* SMTP `Quit()`, which only closes the connection.
* Running out of memory: the buffer pool ends the process, so the null returns
  above it are not behaviours of the program. The growth refused by the hash
  shard and by the buffers is modelled.
* Compilation of user code by the C++ compiler, daemonising, examples, vendored
  code.

## 8. Plan

1. Proofs: the states of a slot (`SlotStatesSound`) for endpoints that reserve
   nothing; `RunsWhatWasAsked` of the Postgres statement cache.
2. `DaemonFiles`: two starts at once, stale and corrupted PID files.
3. Streamed multiplexed responses, and composition of `ClientConn` with
   `EndpointSlots` through an abstract request (sent, then answered once or
   failed once).
