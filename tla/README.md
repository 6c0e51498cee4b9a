# A verification development for CmpleWebServer

CmpleWebServer is a static-file HTTP server in C. One thread accepts; a fixed
number of worker threads each multiplex their connections with `pselect`; a
pool of reader threads loads files; all of them share one cache of file
contents. This directory has TLA+ models of the cache, the readers, the workers,
the server with its shutdown, and the life of one request; TLC configurations
that check them on small instances; and TLAPS proofs of the safety properties
for every instance.

`PROJECT.json` maps each definition to the lines of the source it models, and
lists the runs, the mutants, the findings, the hazards and the theorems. Paths
below are relative to `src/` of the repository.

## 1. Inventory

| Component | Source | State it keeps | Operations |
|---|---|---|---|
| Buffer cache | `src/cache/cache.c` | a chained hash table of buffers, each with reference count, last reference time and read-write lock; bytes used, entries; one mutex for the table, one per buffer | `GetBuffer`, `GetWriteBuffer`, their releases, `CreateBuffer` (with eviction), the four locks of a buffer |
| Reader pool | `src/reader/reader.c` | the list of requests, the request of each reader, counters, `shutdown` | `QueueFile`, `CancelFile`, `GetReaderPoolStats`, both shutdowns, `_FileReaderWorker` |
| File status | `src/reader/stat.c` | none | `GetFileStat`, `GetFileStatFd` |
| HTTP worker | `src/server/worker.c` | the list of its connections and their number, `shutdown`, two descriptor sets | `AddRequest`, both shutdowns, `_WorkerLoop` with its processors, `_ReadFileCallback` |
| Request and response | `src/server/request.c` | a state machine per connection, what has been read, what has been prepared and sent | `ReadRequest`, `ParseHttpRequest`, `PrepareHttpResponse*`, `WriteRequest`, `DestroyHttpRequest` |
| Server | `src/server/server.c` | `running`, the workers, the next one in the round robin, the listening socket | create, start, accept loop, both shutdowns, destroy |
| Entry | `src/main.c` | options | create, start, destroy; signal handler; `parse_size`, `human_size` |
| Strings | `src/utils/string.c`, `strutils.c` | size and capacity of a string | create, expand, set, append, prefix; `strnstr` |
| Utilities | `src/utils/*.c` | the buffer of `gmtime` and `localtime` | hash, content type, date, log |

How they interact:

* The accepting thread hands a socket to a worker with `AddRequest`, under that
  worker's mutex, and signals its condition variable for the first one only.
* A worker calls the cache and the pool directly in the middle of a walk over
  its list, holding its own mutex for the whole walk. On a miss it creates a
  buffer, takes a write handle and a read handle of it, takes its write lock and
  queues the file.
* A reader calls back on its own thread, inside the pool's mutex. The callback
  writes the state of the worker's request with no mutex of the worker, unlocks
  a lock that another thread took, and releases the write handle.
* A release of a cache handle takes only the mutex of its buffer, so it falls
  anywhere into an eviction that runs under the mutex of the table.
* The signal handler shuts the pool down first and then the workers, on whatever
  thread the signal arrives, in the middle of what that thread does and with the
  mutexes it holds.

What is hard, and what makes each component right:

* **Cache.** Evictions and releases run beside each other; two threads that miss
  insert duplicates. Right means: a buffer with a handle is never destroyed,
  counts and totals are exact, the limits hold between any two steps, the table
  is well formed, a lookup is stable while its buffer is held, and the holder of
  the mutex gives it up.
* **Pool.** Wakeups only on an empty list; cancels and shutdowns at any moment;
  three error paths that each settle the counters. Right means: no request is
  lost, taken twice, or answered twice unless cancelled, nobody sleeps over
  work, and a shutdown drains everything and returns.
* **Worker and requests.** Callbacks race with the walk and with each other's
  buffers. Right means: each connection is in one list and counted, is answered
  at most once and closed once, callbacks find what they point at, buffers in
  use stay, and what has begun to be answered is answered.
* **Request.** Its bytes come and go in pieces, and a failure may come at each
  step. Right means: the end of the header is found however it is cut, a handle
  of the cache is owned once and released once, the answer goes out in order and
  whole, and the connection is closed in the end, whatever malloc, lookup or read
  fails.
* **Server.** A signal may come at any step, a second one inside the handler of
  the first. Right means: a shutdown that has come back leaves no thread, no
  connection is lost between `accept` and a worker that leaves, the workers get
  connections in turn whatever they refuse, and neither the shutdown nor the backlog
  waits for anything but a worker that does not end a walk or a connection.

## 2. Modules

| Module | What it models |
|---|---|
| `Cache` | `cache.c`: all lookups, releases and `CreateBuffer` step by step |
| `BufferStore` | what the cache promises its callers; abstract specification of `Cache`, and of what `HttpWorker` does with it |
| `MCCache` | instances: both keys in one chain, symmetry sets |
| `CacheProofs` | theorems about `Cache` |
| `CacheStoreProofs` | the proof that `Cache` implements `BufferStore` |
| `ReaderPool` | `reader.c`: queue, cancel, both shutdowns, a reader step by step |
| `PoolContract` | what the pool promises whoever queues a file; abstract specification of `ReaderPool` |
| `MCReaderPool` | symmetry set |
| `ReaderPoolProofs` | theorems about `ReaderPool` |
| `PoolContractProofs` | the proof that `ReaderPool` implements `PoolContract` |
| `HttpWorker` | `worker.c` and the state machine of `request.c`, over one cache and one pool |
| `MCHttpWorker` | symmetry set |
| `Lifecycle` | what the server promises of one connection; abstract specification of `HttpWorker` |
| `HttpWorkerProofs` | theorems about `HttpWorker`, and that it implements `Lifecycle` |
| `HttpWorkerStoreProofs` | the proof that `HttpWorker` implements `BufferStore` |
| `Request` | `request.c` and the strings under it: one request with all that may fail, driven by the handlers of `worker.c` |
| `MCRequest` | instances: bytes, paths, sizes |
| `RequestProofs` | theorems about `Request` |
| `Server` | `server.c` and the signal handler of `main.c`, over workers and readers reduced to what a shutdown sees |
| `MCServer` | instances: the threads that handle signals, clients, symmetry sets |
| `ServerProofs` | theorems about `Server` |

`HttpWorker` has many connections and little of each; `Request` has one connection
and everything of it. The first asks what connections, workers and readers do to
each other, the second what becomes of bytes, handles and memory on every path
through the handlers. `Server` composes what both leave out: start, accept, stop.

Definitions whose comment begins with "Mutant:" belong to no specification. Each
is the operation that follows it with a plausible mistake, and `PROJECT.json`
pairs it with the property that the mistake breaks.

### Cache

State: the manager's mutex, the chains, key/size/count/stamp of each buffer, both
totals, the live handles, the `CreateBuffer` call each thread is in, and the
locals of the one that has the mutex (`frame`).

Everything under `manager->mutex` alone is one step. `CreateBuffer` is more,
because a release may fall between any two of its reads: `Enter` (lock and
limits), `CountUnused` per buffer (first scan), `AllocateLru`, `FillLru` per
buffer (second scan), `SortLru` (sort, and how many are enough), `Evict` per turn
of the loop that frees, `Settle` (limits again, maybe the second eviction),
`Insert`. Things of the code that look odd and are kept: `GetWriteBuffer` leaves
the mutex locked on a miss; the array of the scans keeps a pointer to a key that
an earlier turn may have freed, so any key, or none, is destroyed for it; the
stamp of a new buffer is uninitialised; duplicates of a key are not noticed.

`BufferStore` has two variables, the buffer a lookup of each key gives and the
buffer each handle points at, and three actions: get, release, and replace, which
changes what any keys give, needs that nobody holds a buffer that goes or one that
comes, and leaves no buffer with two keys. In `Cache` the first is `Stored`, the
first buffer of the key in its chain, so duplicates, the table, the mutex and all of
an eviction up to the step that destroys are hidden. In `HttpWorker` the keys are the
files, the first is `first`, and the handles are the ReadBuffer and the WriteBuffer
of each connection (`Holding`); what a whole `CreateBuffer` evicts and adds is one
replace. So one specification says what the cache gives and what its users need.

### ReaderPool

State: the list, its counters, the statistics, each reader's place, request and
slot, the fields of each `PendingFile`, and the table of open descriptors, since
a number that a cancel closes is given out again by the next `open` while the
first reader may still use it. `fstat` and `read` run without the mutex and are
the steps `Stat` and `Read`; each locked section is one action, with the callback
in it. `CancelQueued` keeps what the code does: the request is answered and stays
in the list.

`PoolContract` has the requests that were taken, those that were cancelled, how often
each was answered, and whether the pool is open, closing or closed. An answer is one
too many only if nobody cancelled; the pool closes when each request that was taken
has its answer, and answers nothing afterwards. The list, the readers, descriptors,
counters and wakeups are hidden (`Replies`, `Phase`). The contract with repeated
answers is what `_CancelFile` leaves room for; without a cancel it is "once".

### HttpWorker

State: each worker's list, count and flag, its place in the loop, what its walk
has yet to visit, both descriptor sets; each connection's `HTTP_STATE`, file,
handles, response and progress; of the cache, the buffers of each file, the one a
lookup gives, what each has loaded and who holds its write lock; the requests
the pool has not answered.

The first walk and `pselect` are one step each (`Poll`, `Select`). The second walk
visits entries one at a time. A visit that reads a GET goes through `Lookup`,
`Create`, `TakeWriteBuffer`, `TakeReadBuffer`, `LockWrite`, `Queue` and `Mark`, with
other workers and callbacks between them; `Reap` ends every visit. `Mark` is the
assignment of `WAITING_FOR_BODY` after `QueueFile` has returned. The cache
here is an abstraction of `Cache` that leaves open which unreferenced buffers an
eviction takes (`Unreferenced`) and fixes only what `HeldLookupStable` gives: a
lookup goes on giving what it gave while that is still there (`Leaders`). Both the
workers with this cache and `Cache` implement `BufferStore`.
`GracefullyShutdown` stops at the join.

Releasing a lock on a thread that does not own it is undefined for POSIX
read-write locks; `ReadFileCallback` has both outcomes, freed or not. A lock that
stays with the worker that took it, by that or after a failed read, is waited for by
every other worker, with its own mutex held (`Stranded`); the worker that has it does
not get its read lock either, but goes on, and its unlock frees the lock
(`UnderReadLock`).

`Lifecycle` has five phases (new, reading, answering, ended, closed) and steps
that only go forward. `Stage` maps the eight states of a connection to them.

### Request

State: `HTTP_STATE` and the part of the handler that is next (`place`); the bytes
that were read and the room for them; the path as a string with size and
capacity; the response, the answer and the handles they own; the write handle, the
write lock of the buffer, `used` and who fills it; what was sent. A request is used by one thread at a time,
so most handlers are one step; `_ProcessRequest` is several, where the cache, the
readers or another request's callback may come between. The bytes of a request
are those that end a header and one for all others; the parser is a choice among
its outcomes; an answer is a number of bytes, of header and of body.

`Strnstr` is the loop of `strutils.c` over the bytes read so far. Any `malloc`, `read`,
`write` or call of the cache or the pool may fail, and `QueueFile` may refuse. Kept
as they are: an `EAGAIN` has the code of the end of the header on read and of the
end of the answer on write; the result of `PrepareHttpResponseOk` is not looked at
by `_ProcessRequest`; an error of `write` is not looked at; a failure of the reader
or of `malloc` leaves the write lock.

A write lock belongs to a thread, and `lock` says to which: that of this request's
worker (`here`), which may have taken it for another of its requests, or another
(`elsewhere`). `LockWrite` waits until it is free, and the body is sent under the read
lock (`UnderReadLock`), which waits for another thread's lock alone. Another request
that loads the buffer when this one finds it gets its file (`OthersLoad`) or an error,
after which the lock stays where it is (`OthersFail`), until its thread sends an answer
from the buffer itself (`OthersUnlock`), which it need not. Where the code passes NULL to `strlen` or
writes more bytes than there are, the process is `killed`, and nothing is said of it.

### Server

State: where the main thread is, its loop index and the socket it has accepted;
`server->mutex`; the listening socket; `running`, `shutdown`, `last_assigned_worker`;
for each thread that may handle signals the stack of handlers that run on it, and
for each handler its place in `GracefullyShutdownServer`; of each worker its thread,
`shutdown`, mutex and list; of each connection its place; of each reader whom it
reads for, the pool's `shutdown` and mutex; which workers are freed.

A signal is delivered between any two steps of a thread, which goes on when the
handler has returned; the same signal is blocked meanwhile, another one is not. A
handler that waits for a mutex which its own thread holds waits for ever. `Hosts`
are the threads that handle signals. `CreateServer` is one step, `StartServer`,
`_ServerLoop` and `DestroyServer` are one step per locked section, `accept`, worker
started or worker freed. A walk of a worker is two steps, and between them its
mutex is held and requests are answered, missed and queued. A reader that is
interrupted with the pool's mutex keeps it.

## 3. Runs

| Run | Instance | What it asks |
|---|---|---|
| `CacheSafety` | 2 threads, 2 keys in one chain, 3 buffers, 2 handles, sizes 1-3, room for 2 entries and 3 bytes, clock 0-1 | the safety of the cache with releases inside evictions; what goes is the least recently used of what the scans listed (`EvictsOldest`); refinement of `BufferStore` |
| `CacheLive` | 2 threads, 2 buffers, 1 handle | the holder of the mutex gives it up |
| `CacheReturns` | 2 threads, 3 buffers, 1 handle | **violated**: a `CreateBuffer` waits for ever after a `GetWriteBuffer` that missed |
| `PoolSafety` | 2 readers, 3 requests, list of 2, 2 descriptors | the safety of the pool with cancels and shutdowns at every point; refinement of `PoolContract` |
| `PoolLive` | 2 readers, 2 requests | every accepted request is answered, both shutdowns return |
| `PoolCancel` | as `PoolSafety`, one repeated answer | **violated**: a cancelled request is taken and answered again |
| `WorkerSafety` | 2 workers of 1 connection, 2 files, 3 buffers | workers that share a cache at their limit; refinement of `Lifecycle`, and of `BufferStore` by what the requests hold |
| `WorkerLive` | 2 workers of 1 connection, 1 file, 1 buffer | walks that wait for each other's write lock end, and answers are sent, unless a read has left the lock |
| `WorkerLost` | 1 worker, 1 connection | **violated**: a callback before `Mark` is overwritten |
| `WorkerHit` | 1 worker, 2 connections, 1 file | **violated**: an answer is prepared from a buffer that is still being read |
| `Server` | 2 workers of 1 connection, 1 reader, 4 clients, 2 arrivals of a signal on the main thread | safety of start, accept, shutdown and destruction; the round robin over workers that refuse; the shutdown ends and the backlog is served, unless a thread waits for itself or for a worker that does not end a walk or a connection |
| `RequestSafety` | 5 bytes of 3 kinds into a buffer of 2, header of 2, files of 0 and 2 bytes, paths of 1 and 4 with room for 3 | one request on every path: header end, handles, order and completeness of what is sent, end of the connection |

Why the bounds are enough:

* Cache. A limit of 2 entries and 3 bytes with sizes 1, 2 and 3 puts both limits
  in reach together and apart, exactly and by one; size 3 is also above
  `MaxBufferSize`. Three addresses allow a duplicate beside another key and an
  address that is used again; two keys in one chain exercise every unlinking.
  Two values of the clock suffice for before and after.
* Pool. Three requests over a list of two and two readers reach a full list, a
  list that becomes empty while one reader works, and a number of descriptors
  that runs out. `MaxAnswers` bounds only repeated cancels of one request.
* Worker. `WorkerSafety` has two workers so that evictions and duplicates of one
  fall between the steps of the other, and two files over three buffers so that
  something can be evicted and something cannot; each worker's limit of one is
  reached. `WorkerLive` has two workers that both miss the one file, so each may
  have the write lock of the buffer while the other waits for it, in `LockWriteBuffer`
  or in `LockReadBuffer`, with a read that succeeds, fails or is refused. Two workers of
  two connections each are out of TLC's reach here; the proofs cover them.
* Request. Five bytes hold a header end at the front, behind a byte, or cut at
  any place, and a buffer of two is doubled twice for them. A header of two bytes
  and a body of two are each sent in one piece and in two. A file of no bytes is an
  answer that ends with its header; a hit on a buffer that another request fills
  takes the other size meanwhile. A path of one byte is "/"; one of four does not
  fit a string of three.
* Server. Four clients over two workers of one connection: the third is refused by a
  full worker, and the fourth shows whom the turn came to after that. The signal comes
  before, between or after them, so that a refusal after the shutdown flag occurs too,
  and comes once more after its handler has returned. The clients are accepted in one
  order (`AcceptedInOrder`, a constraint): every run of the model is one of these with its
  clients renamed, the properties are the same under renaming, and nothing is assumed of
  `Connect`, so no infinite run is lost. A second signal inside the first one's handler
  is in `ServerTurns.cfg`; handlers on a worker or a reader are in `ServerSafety.cfg` (one
  thread of each kind as host). Both pass, without the constraint, and the proofs hold for
  any number of signals and any `Hosts`.

No deadlock is reported as an error, since in all five models the system may
really stop: the pool is joined, all workers have left, a `GetWriteBuffer` that
missed has left the cache locked, a worker waits for a lock that is never freed,
the process has ended, a handler waits for its own thread, a request is closed.
What must not stop is stated by the liveness properties.

Fairness:

* `Cache`: `WF` of each step of the `CreateBuffer` that has the mutex (a running
  thread goes on); `SF` of `Enter` (a thread that waits for a mutex that is freed
  again and again gets it, which the system's mutex gives in practice). Nothing
  is assumed of releases: the holder must come through whatever is released.
* `ReaderPool`: `WF` of each reader and of the joins. Nothing of clients.
* `HttpWorker`: `WF` of each worker and of the callback of each read (the pool
  answers what it accepted, `AcceptedAnswered` of `PoolLive`); `SF` that `pselect`
  reports a connection among the writable, that is, clients read. No fairness for
  readable sockets: a client may send nothing for ever. Nothing is assumed of the end
  of a walk: a worker that waits for a lock cannot take a step, so its fairness says
  nothing while the lock is with another thread.
* `Request`: `WF` of the handlers and of the callback (the worker comes round to each
  entry of its list, the pool answers), also of the callback of another request that
  loads the same buffer; `SF` of sending some bytes, that is, the client reads. A
  handler that waits for a write lock cannot be taken, so its fairness says nothing
  while the lock is with another thread, and nothing is assumed of its return.
  Nothing is assumed of `Receive`, nor that a write does not fail.
* `Server`: `SF` of the main thread's, each handler's and each reader's steps, which wait
  for mutexes that are freed again and again, and where a read of a file ends; `WF`
  that a worker leaves when it may. Nothing of signals and clients, nor of what a
  worker does in its walks: a walk may last for ever with the worker's mutex held, and
  a connection may stay in its list for ever.

What the liveness properties except, because the code does not guarantee it:

* `WalkEnds`: a walk that waits for ever for a lock which a read has left (`Stranded`,
  shown by `WorkerBlocked.cfg`); a failed write, after which the process gets `SIGPIPE`;
  the cache left locked (finding 1).
* `AnswerIsSent`: the same three, and finding 3.
* `ConnectionEnds`: the same lock (`Stranded` in `Request`), a killed process, a failed
  write, and a request that is `Lost`: in `WRITE` without an answer, or finding 3.
* `ShutdownEnds`: a handler on a thread that has `server->mutex` (`SelfLocked`), a signal
  while the server is destroyed, and a handler that waits for ever for a worker
  (`HandlerWaits`): for a connection that stays in its list, as that of an idle client in
  `READ`, of finding 3 or of a failed write, or for a walk that does not end.
* `BacklogServed`: the first and the last of these, and `AddRequest` waiting for ever for a
  walk that does not end (`AssignWaits`).

### Findings

Four runs end in a counterexample of something the repository says of itself; the
quotes are in `PROJECT.json`.

1. `cache.c:532`: a miss of `GetWriteBuffer` keeps the mutex.
2. `reader.c:209`: a cancel of a queued request leaves it in the list.
3. `worker.c:612`: `WAITING_FOR_BODY` overwrites the callback's `WRITE`.
4. `worker.c:534`: a hit does not ask whether the file is loaded.

### Further configurations

These are kept beside the runs. The first four pass (`ServerTurns.cfg`, `ServerSafety.cfg`, `CacheMore.cfg`, `PoolDrain.cfg`); TLC finds each property of the
others violated, and each asks a smaller question than a run above.

| Configuration | Property | What happens |
|---|---|---|
| `ServerTurns.cfg` | the safety of `Server` | passes: two signals, one inside the handler of the other or after it, two readers |
| `ServerSafety.cfg` | the safety of `Server` | passes: handlers on main, on a worker and on a reader |
| `CacheMore.cfg` | `HolderAdvances`, `HeldLookupStable` | passes: the safety of `CacheSafety` with two more action properties, both proved |
| `PoolDrain.cfg` | `DrainAdvances` | passes: after a shutdown each step of a reader brings the joins nearer, which is proved |
| `CacheScans.cfg` | `LruScansAgree` | the second scan records more than the first counted |
| `CacheFailure.cfg` | `FailedCreateFreesNothing` | a `CreateBuffer` that fails has evicted |
| `CacheLru.cfg` | `EvictsTheListed` | with duplicates, another buffer than the listed one is destroyed |
| `PoolCancelLate.cfg` | `CompletedNotCancelled` | a request refused after `fstat` stays in its slot and can be cancelled |
| `PoolShutdownAnswers.cfg` | `ShutdownAnswers` | a shutdown makes an `fstat` fail |
| `PoolTwoCancels.cfg` | `OnlyAskedAreCanceled` | a second cancel closes the descriptor of another request |
| `PoolBytes.cfg` | `ReadsOwnFile` | a reader reads the file that was given its closed number |
| `WorkerFailed.cfg` | `FailedWriteEnds` | a connection whose write failed stays in `WRITE` |
| `WorkerDone.cfg` | `DoneMeansSent` | `EAGAIN` on write has the code of the end of the answer (`errors.h:31-32`): the answer ends with bytes left |
| `WorkerBlocked.cfg` | `WalkAlwaysEnds` | after a failed read the write lock is never freed (`worker.c:431`), and another worker that sends from that buffer stops |
| `RequestEarly.cfg` | `ParsedWhenComplete` | `EAGAIN` on read has the code of the end of the header (`errors.h:27-28`): a part of it is parsed |
| `RequestLength.cfg` | `LengthHonoured` | a buffer that was loaded again, or a hit on one that is being loaded, is not as long as the header says |
| `ServerShutdown.cfg` | `SignalEndsServer` | a signal while the main thread has `server->mutex` (`main.c:24`): the handler waits for its own thread |
| `ServerEarly.cfg` | `DestroyedAfterLeft` | an error of `accept`, or a signal before the start: `DestroyServer` frees workers whose threads run |
| `ServerDropped.cfg` | `NothingDropped` | the pool is shut down before the workers (`server.c:262`): a miss meanwhile closes the connection without an answer |

## 4. Proofs

All theorems are for every value of the constants that satisfies the named
assumptions: the sets of buffers, handles, readers, requests and connections are
finite, limits are naturals, `MaxEntries`, `MaxRequests` are not 0, `Hash` gives a
slot, `None` is none of the other values, and there are at most `max_requests`
readers (`worker_requests` has that many entries).

**CacheProofs.** Invariant `TypeOK /\ StoreInv /\ FrameInv`. `StoreInv` is what a reader
of `cache.c` expects between two steps (handles pin, counts and totals exact,
limits, chains). It is not inductive alone: that `Insert` keeps the limits needs what
`Enter` and `Settle` have tested, and that `used_memory` does not go below zero
needs that what `DeleteBuffer` destroys is counted. `FrameInv` carries the first
across the steps of an eviction: the goal "entries" is only reached with enough
memory, insertion only with room for both, and what the scans listed is
unreferenced or gone, because references only go up under the mutex that the
eviction holds. Bytes are counted as cells of buffers, so that the sum over the
live buffers is a cardinality. Proved: the type, `HandlesPinBuffers`,
`RefsCountHandles`, `AccountingExact`, `WithinLimits`, `ChainsWellFormed`,
`ListedStayUnreferenced`, and the action property `HeldLookupStable`.

Two more action properties are about `CreateBuffer` from its scans to its end.
`EvictsOldest`: with the invariant that the list which is being freed is sorted by the
reference times that its buffers have now (`LruSorted`, kept because a buffer of it
is unreferenced, and only a new handle changes its time), the head is the oldest of
what is left; a turn destroys the buffer that a lookup of its key finds, which is the
head unless the key has a duplicate (`OnlyOfItsKey`, see `CacheLru.cfg`).
`HolderAdvances` is the termination measure of `CreateBuffer`: the parts it has before
it, then what is left of the scan or of the list. Each of its steps makes that less or
gives the mutex up, and nobody else touches it; the fairness of `HolderReleases` adds
only that the thread runs.

**CacheStoreProofs.** `Spec => ImplementsStore`. The invariant of `CacheProofs` is not
enough: that a hit is a `Get` of the store needs `Shared`, whoever holds a buffer of a
key holds the one that a lookup gives. A lookup is the least place in a chain
with the key (`Gives`), a constant-level copy of `Lookup`, so that the lemmas about
chains (`OtherUnlinked`, `LinkedBehind`) serve both states. Insertion goes to the end
of its chain and so replaces a lookup that gave nothing, or none; destroying a
buffer replaces the lookup of its key at most, and nobody holds it; every other
step changes neither lookups nor handles (`StepRefines`).

**ReaderPoolProofs.** Invariant: `TypeOK`, `CountersAgree`, `InFlightRegistered`,
`NoLostWakeup`, `EachRequestInOnePlace`, with `WorkerInv` (a reader has a request
exactly between `Extract` and its answer), `AnswerInv` (nothing is answered or
asked for that was not given out; what nobody cancelled has its one answer) and
`ClosingInv` (a reader leaves only from an empty list after a shutdown, and the
list stays empty). `JoinedMeansAnswered` and `UncancelledAnsweredOnce` follow.
`DrainAdvances` is the measure of a shutdown: four steps for each request of the list,
what each reader has left of its own, and one to leave. Each step of a reader
makes it less; what others may still do finds nobody asleep (`NoLostWakeup`) and adds
nothing, so `ShutdownReturns` needs only that the readers run.

**PoolContractProofs.** `Spec => ImplementsContract`, with the invariant of
`ReaderPoolProofs`: one lemma for each action. A reader's answer is a `Reply`, since
what it works on has no answer yet unless it was cancelled, and the joins have
not returned while a reader has work; a cancel or a `ShutdownFileReaderPool` tells those that
are listed and marks the others; a `Join` finds every request answered; `QueueFile` is
an `Accept`, since nothing is queued after the shutdown flag; all else is a stutter.

**HttpWorkerProofs.** Invariant: `TypeOK`, `ListsCounted`, `NoLostWakeup`,
`HandlesInCache`, with
* `WalkInv`: a walk is over the worker's own list, each entry visited once;
* `DescriptorInv`: what is in a descriptor set and not yet visited is in the state
  the set says, since only its worker takes a connection out of READ or WRITE;
* `ProcessInv`: the state, file and handles of the connection that is processed;
* `ReadingInv`: a connection whose file is read waits for it, or its worker is
  between `QueueFile` and the assignment that follows;
* `FirstInv`: a lookup gives a buffer of the file if there is one.

The argument: lists are disjoint, so no worker touches the connection of another
(`Own`, `AtIsOwn`, `VisitIsOwn`); a callback touches a connection that is waiting or
about to be, so it disturbs neither a descriptor set nor a request in process; an
eviction takes only what nothing refers to, so what a lookup gave a worker is
still what the next one gives (`EvictionSafe`). The steps of the request
processing share `AdvanceStep` and `AdvanceOthers`. Proved: the type, `ListsCounted`,
`NoLostWakeup`, `HandlesInCache`, `CallbackTargetsLive`, and the refinement
`Spec => FollowsLifecycle`, each step mapped to a move of `Lifecycle` or a stutter
(`AllowedMoves`, `NextLifecycle`).

**HttpWorkerStoreProofs.** `Spec => ImplementsStore`. The invariant above says that what
is held is in the cache; here it must be what a lookup gives, for the whole of an
answer, and each handle is taken while the request has none. Added to it:
* `HeldIsFirst`: what a request holds is what a lookup of its file gives;
* `FilesApart`: a buffer has one key, so no other file's lookup can give it;
* `Fresh`: a request before its answer holds nothing, but for what its worker took for
  it in this very visit, at the places behind each lookup.

`CreateBuffer` is the case to look at (`CacheChanges`): what is held is first of its file
and not evicted, so its lookup stays; another file's lookup does not come to give it,
since buffers of files stay apart; the new buffer was free or has just been evicted,
so nobody holds it. The two lookups of a miss are gets of a read and a write handle,
a callback, a loaded file or a refused queue gives the write handle back, the end of
the visit the read handle; a failed read keeps the write handle for ever, which the
store allows.

**RequestProofs.** Invariant: the type with a capacity that is not 0 (a doubled
buffer grows), `HandlesOwned`, `SentInOrder`, and `PhaseInv`: before a request is
prepared there is no answer, the body is added to a response that is there, a
queued file belongs to a request that waits for it or is about to, and a closed
request has neither. Without it the callback might replace an answer that is being
sent. `DoneMeansSent` follows from `SentInOrder`: the number of bytes sent is that of
both counters. Assumed: sizes are naturals, the first capacities, the header and
the path not 0. `HeaderEndFound` follows as well: the loop of `strnstr` is a recursive
function over positions, and that it stops at the first place where the pattern is, or
at none, is shown with the least element of a set of positions in place of
an induction over them.

**ServerProofs.** Invariant: `TypeOK`, `StoppedMeansLeft`, and
* `MutexInv`: `server->mutex` is with main in its locked sections, or with the
  handler that is past its lock, so two handlers are never both inside, nested or
  on two threads;
* `JoinInv`: what a handler has passed in its joins has left, but for the threads
  that handle signals themselves;
* `StartInv`: a server that runs has started all its workers, so a handler of a
  started server skips none;
* `LeftInv`: a worker that has left was told, and its list is empty; after that
  `AddRequest` refuses;
* `ConnInv`: `ConnectionsKept`, and main has a connection exactly between `accept` and
  `Assign`;
* `TurnInv`: the workers before the next one in turn have been offered one more.

They give the five safety properties of the run for any number of workers, readers,
connections, signals and threads that handle them.

**Only model-checked:** the liveness properties (`HolderReleases`, `ShutdownReturns`,
`AcceptedAnswered`, `AnswerIsSent`, `WalkEnds`, `ConnectionEnds`, `ShutdownEnds`,
`BacklogServed`), since neither fairness nor ENABLED is in the prover's reach, though
the measures behind `HolderReleases` and `ShutdownReturns` are proved (`HolderAdvances`,
`DrainAdvances`); and the counterexamples. Every invariant and every action property of
a passing run, and each refinement, is a theorem. No module declares a RECURSIVE operator.

## 5. Not modelled

* The failures inside the create functions (`CreateServer` as a whole may fail), and
  what `DestroyCacheManager` and `DestroyFileReaderPool` do in detail: in `Server` they
  are one step, after which nothing may be used.
* A failed `malloc` outside `Request`, a failed `pthread_create`, and a `pselect` error
  other than `EINTR`.
* `ShutdownWorker` and `ShutdownServer`: nothing in the program calls the latter, nor
  anything else the former. (`ShutdownWorker` destroys the entries of the list and
  leaves the list pointing at them.) `ResetRawRequest` has no caller either.
* The text of headers and the bytes of files; the parser is a choice among its
  outcomes, content type and date are part of a header of fixed length. In
  `HttpWorker` a file is one unit of bytes and a failed socket is not written again.
* What follows undefined behaviour: a thread that uses freed memory, a NULL
  token, a body length below zero.
* A signal handler inside `malloc`, `localtime` or the stream of the log, whose
  locks are not those of the program.
* The log, and the numeric edges outside the assumptions: `max_entries = 0` or a
  worker count of 0 (a division by zero), more readers than `max_requests`, more
  descriptors than `FD_SETSIZE`.

## 6. Plan

Done: 1. `Cache`; 2. `ReaderPool`; 3. `HttpWorker` with `Lifecycle`; 4. `Server`;
5. `BufferStore`, which `Cache` implements; 6. `Request`; 7. `HttpWorker` shown to use
its cache as a `BufferStore`; 8. `PoolContract`, which `ReaderPool` implements; each with
its proofs.

9. The measures of the other liveness properties as theorems, as `DrainAdvances` is for
   the pool: the walk of a worker that is not `Stranded`, the shutdown of the server inside its handlers, the
   end of a connection in `Request`.
10. Pure helpers against reference definitions over bounded inputs: `parse_size`
    with its overflow, `AppendDynamicString`, the table of content types.

`Request` does not implement `Lifecycle`, and is not meant to: where a `malloc` fails in
the callback, its `ERROR` may be overwritten by the `WAITING_FOR_BODY` of finding 3, an
end that is taken back. `HttpWorker` has no such failure.
