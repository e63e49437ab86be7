# A TLA+ verification of grow-a-cache

grow-a-cache is an in-memory cache server: a storage shared by all threads, two
event loops (mio and io_uring) that run one worker per thread, and parsers for
four protocols (memcached, RESP, ping, echo). This directory models the server
from its command line to the storage, checks the models on small instances with
TLC, and proves with TLAPS, for every size of the instance, the safety properties
of the storage and its atomicity, that buffer chains and the provided buffer ring
keep what is put into them, and the safety of both event loops.

`PROJECT.json` lists the components, the runs, the source lines that each
definition stands for, the hazards of the code and the theorems.

## The system and its parts

| Part | State | Operations | What is hard about it |
|---|---|---|---|
| storage (`storage.rs`) | `data` and `access_order` behind one `RwLock` each; atomics `memory_used`, `cas_counter`, `access_counter` | get, get_multi, set, add, replace, cas, append, prepend, delete, flush_all, cleanup_expired, incr/decr (`request.rs`) | the two locks are taken, dropped and retaken inside one call; eviction and expiry run in the middle of other calls |
| parsers (`protocols/`) | none | parse, parse_with_data, encode | input that ends anywhere; two parses of one command that must agree; lengths from the wire |
| requests (`request.rs`) | none | process_memcached, process_resp, process_ping, process_echo, the execute functions | incomplete, oversized and invalid input; replies larger than a buffer |
| buffers (`runtime/buffer.rs`) | free list, buffer contents, chains | alloc, free, append, clear, release, io_slices | pool exhaustion half way, buffer boundaries |
| mio loop (`runtime/mio/event_loop.rs`) | slab of connections, pool, epoll registrations | accept, read, write, close | edge-triggered readiness, reuse of ids, partial reads and writes |
| io_uring loop (`runtime/uring/event_loop.rs`, `token.rs`, `runtime/connection.rs`) | connections, tokens, write pool, provided buffers, two queues | accept, read, write, close, submit | completions that arrive late, buffers owned by the kernel, queue limits |
| provided buffer ring (`runtime/uring/buf_ring.rs`) | entries, tail, the kernel's head | new, recycle_buffer | shared with the kernel without a lock; a tail that wraps |
| config, main, runtime dispatch | the configuration | load, run | three sources of a setting |

Workers interact with each other through the storage only. A worker interacts
with its clients through the kernel, which is the environment of the loops.

## Modules

| Module | Models | State and actions |
|---|---|---|
| `Storage` | `storage.rs` and the calls that `request.rs` makes | The variables are the fields of `Storage`, a clock, and per thread a label `pc` and a frame `loc`. One action is the code from one lock acquisition to the next; the locks a thread holds follow from its label. |
| `Cache` | what the storage promises: each operation is one atomic step on a map | |
| `StorageRefinement` | the refinement mapping from `Storage` to `Cache` | |
| `StorageProofs` | theorems about `Storage`, and that it implements `Cache` | |
| `MemoryProofs` | theorems about `memory_used` | |
| `BufferPool` | the free list of `BufferPool`, and the byte positions that `io_slices` returns | operators |
| `BufferChain` | one chain over a pool, with the contents of every buffer | append, one turn of its loop per step, push_buffer, clear, release |
| `BufRing` | the provided buffer ring | add_buffer in two steps (entry, tail), registration, and the kernel that takes buffers at any time |
| `ProvidedBuffers` | what the ring promises: a queue | |
| `BufferProofs` | facts on quotient and remainder; that the ring is that queue; theorems about `BufferChain` | |
| `Text` | what the parsers see of bytes: sequences of symbols | operators |
| `MemcachedParser`, `RespParser`, `PingParser`, `EchoParser` | the parsers, and the RESP encoder | recursive operators |
| `Requests` | the process and execute functions of `request.rs` over the parsers | operators: result and calls for a sequence of symbols |
| `Config` | command line, TOML file and defaults become a configuration or an error | operators |
| `Session` | a server from its start to the calls it makes for one client | start, connect, read, write |
| `Processing` | `ProcessResult` of the four `process_*` functions | operators: the result for a request of which n bytes have arrived |
| `Network` | clients and sockets; external | connect, send, leave, receive |
| `MioWorker` | one worker of the mio loop | poll, accept_connections (one turn of its loop per step), handle_readable, handle_writable, close_connection |
| `Connections` | `Connection` and `ConnectionRegistry` | operators of `UringWorker` |
| `UringWorker` | one worker of the io_uring loop | submit, wake, one handler per completion |
| `NetworkProofs` | lemmas for both loops: lists without repetitions, slabs, partitions of a pool, `io_slices`, `Network` | |
| `MioProofs` | the invariant of `MioWorker` and theorems about it | |
| `UringInvariant` | the invariant of `UringWorker`, and what a completion may do to its tables | |
| `UringStepProofs` | that each handler of `UringWorker` does that | |
| `UringKeepProofs` | that it keeps the invariant, and so do kernel and clients | |
| `UringProofs` | theorems about `UringWorker` | |
| `MCStorage`, `MCBufferChain`, `MCBuffers`, `MCMio`, `MCUring`, `MCSession` | instances for TLC | |

Both workers extend `Network`, which extends `Processing`; both use
`BufferPool`. `Storage` does not know the workers: what a request does to the
cache does not influence how its bytes are moved.

Three abstractions connect the modules. The first is compared with the code
behind it on the texts of a run, the others are refinements:

* `Processing` tells the event loops what to do for a request that is no more
  than its lengths. `Session` runs the parsers and `request.rs` on symbols and
  compares: for the bytes of a request the result is the one `Processing` gives,
  for other bytes it is among those `Processing` allows, lengths included
  (`ProcessingSound`). A parser that panics is the exception: `Session` models
  it, the event loops do not.
* `UringWorker` has a queue of provided buffers. `BufRing` implements it
  (`ImplementsQueue`); what the ring needs from the worker, that a buffer is
  recycled only while it is out of the ring, is `ProvidedOnce` of `UringWorker`.
* `Cache` is the storage as its clients see it, for the operations that are
  atomic (`ImplementsCache`).

**Abstractions.** A cached item is its size, its expiry time and its CAS token.
Keys are model values. A request is its kind and the lengths of its command
line, data block and reply. The bytes a client sends are numbered and byte i of
the reply to request r is `<<r, i>>`, so that lost, repeated and reordered bytes
are told apart. Bytes that do not begin with a request (a connection out of
step) can have any result of the parser with lengths that these bytes can give:
`Unframed`. For the parsers a symbol is
a word with the space before it, a RESP marker, CR, LF or a byte that is not
UTF-8; all symbols are equally long, and a read may end between any two.
`memory_used` is a machine word and wraps. Definitions marked `Mutant` are altered forms of the definition
after them, used to make sure that the properties can fail.

**Locks.** `RwLock` is modelled as: readers share, a writer is alone. A lock
that prefers writers, as std's may, adds waiting and no new steps, so the
safety properties carry over. Liveness does not: where a waiting writer keeps
new readers out there are more circular waits than in the model, for instance
a get that holds `data` and waits to write `access_order`, an eviction that
reads `access_order` and waits to read `data`, and a writer queued for `data`
between them. `SomeCallReturns` is about locks that readers share also while a
writer waits.

## Runs

Each `.cfg` is run with `tlc -workers 2 -config <run>.cfg <module>`.

| Run | Module | Checks | Bounds |
|---|---|---|---|
| `storage_safety` | MCStorage | `TypeOK`, `TokensUnique`, `LruTracked`, `AccessNumbersDistinct`, `AccessesCurrent`, `LiveItemsKept` | 2 threads, 2 keys, all operations, sizes 1 and 2 in a memory of 3, one tick of the clock |
| `storage_atomic` | MCStorage | `MemoryExact`, `OvershootBounded`, `ImplementsCache`, `SomeCallReturns` | 2 threads, 2 keys, get/set/append/delete/flush, sizes 2 and 4 in a memory of 3 |
| `storage_deadlock` | MCStorage | violated: `NoCircularWait` | 2 threads that set |
| `storage_conditions` | MCStorage | violated: `ConditionHolds` | 2 threads, 1 key, conditional writes and set |
| `buffers` | MCBuffers | `TypeOK`, `PoolIntact`, `ContentsKept`, `ReadersAgree`, `ImplementsQueue` | 3 buffers of 2 bytes, 7 bytes appended in any cuts; a ring of 4 entries with a tail modulo 8 |
| `chain_resume` | MCBufferChain | violated: `ResumesWrite` | 3 buffers of 2 bytes, append only |
| `mio_clients` | MCMio | `TypeOK`, `BuffersAccounted`, `EventsCurrent`, `NoLostWakeup`, `ResponsesInPlace`, `WaitersAnswered` | 2 memcached clients on 2 slots, one that waits for replies and one that pipelines; buffers of 3 bytes and sockets of 2, replies and values that take chains, shutdown, reset, failing accepts |
| `mio_pipelined` | MCMio | violated: `RequestsAnswered` | 1 ping client, 2 requests sent together |
| `uring_answers` | MCUring | `ConversationKept`, `BuffersAccounted`, `ProvidedSuffice`, `WaitersAnswered` | 2 echo clients, 2 requests each, one that waits for replies and one that pipelines more than a buffer of 3 bytes; sockets that hold 1 byte; 3 connections allowed, 2 provided buffers |
| `uring_failures` | MCUring | `TypeOK`, `TokensCurrent`, `ProvidedOnce`, `WorkerRuns` | 2 pipelining memcached clients, 1 provided buffer, 3 write buffers, a submission queue of batch_size + 1 |
| `uring_double_free` | MCUring | violated: `BuffersAccounted` | 1 memcached client, one noreply command |
| `session` | MCSession | `TypeOK`, `ServedAsSent`, `VerdictsStable`, `ParsesAgree`, `RoundTrip`, `ProcessingSound` | 4 protocols on 2 runtimes, 37 command lines and files, scripts of up to 2 requests of every kind, texts that are hardly requests, a buffer of 28 symbols |

**Why the bounds are enough for the interesting cases.** In the storage, two
threads are what a race or a lock cycle needs; two keys let one be evicted for
the other; a memory of 3 makes a set evict, evict everything, or (size 4) find
nothing left to evict. `MaxToken` and `MaxAccess` bound the number of calls:
enough for an item to be stored, seen by one thread, and replaced or evicted by
the other in each window between two locks. In the loops, a buffer of 3
or 4 bytes and requests of 1 to 9 bytes give requests that are split, complete,
followed by the next one, and too large; a reply of 4 bytes takes a chain of two
buffers, and a socket of 2 bytes makes the loop resume it in the middle of the
first; two clients that compete for the last
buffers, and that leave and are followed by others, give exhaustion and reuse of
ids. Seven bytes in three buffers of two fill a chain without empty buffers
exactly, partly, and until the pool is exhausted; a tail modulo twice the entries wraps in every
position of the ring. In `session` a machine word has 128 values (`Word`), so
that the largest lengths a client can announce overflow sums as 2^64 does;
`Large` is a value longer than a buffer; the data blocks include one that reads
like a command, one that is a line end, and one that is not UTF-8.

**Deadlock.** The storage and the loops may stop when all calls have returned
and all clients are silent, so these runs do not check for deadlock. A chain can
always be released and a ring always be used; the run `buffers` checks that.

**Fairness.** Storage: a thread inside a call is scheduled (`WF` of its steps);
clients need not call. Under this assumption `SomeCallReturns` says that some
call returns, not each: `RwLock` promises no thread its turn. Loops: the
worker's loop goes on while it has something to do, the kernel completes what
can be completed, and a client reads what it was sent. Clients need not send or
leave, and no action of the code itself is assumed to succeed.

## What the runs show

*Storage.* Tokens are unique, so cas cannot confuse two writes (`TokensUnique`).
Every item has an access number and numbers are distinct, so eviction has a
well-defined victim (`LruTracked`, `AccessNumbersDistinct`). A number that is
entered late, after others have been drawn, is still that of an access to the
stored item; two gets may enter theirs in the wrong order, and nothing else may
(`AccessesCurrent`). A live item vanishes only by delete, flush_all, eviction or
the sweep after a get (`LiveItemsKept`); eviction and sweep may be based on what
the thread saw earlier, see below. Without cas the memory
counter is exact whenever no set is in the middle of a replacement
(`MemoryExact`); the limit can be overshot, by at most one item per other thread
(`OvershootBounded`). get, set, append, delete and flush_all are linearizable
(`ImplementsCache`). Calls return, unless the circular wait described below
occurs (`SomeCallReturns`).

*Buffers.* Chains and pool neither lose nor share buffers, also when an append
fails half way (`PoolIntact`). A chain without empty buffers holds what was
appended, also when the pool ran out in the middle (`ContentsKept`), and all of assemble, chunks, io_slices from 0 and
first_n_bytes read it alike (`ReadersAgree`). The provided buffer ring is a
first-in first-out queue although neither side waits for the other
(`ImplementsQueue`).

*mio.* Events are handled for the connection they were reported for although
ids are reused within a batch (`EventsCurrent`); no readiness is lost to edge
triggering (`NoLostWakeup`), with two exceptions: the end of the stream that
arrives with an incomplete request, and room in the socket for a chain that is
partly written. Buffers come back on every path (`BuffersAccounted`). A client
that waits for replies gets them in order and every byte in its place
(`ResponsesInPlace`), and gets them all (`WaitersAnswered`), except where a chain
is resumed in the middle of a buffer: there `io_slices` takes bytes from the
wrong place, which the client receives, or offers nothing, and the connection
hangs. The two properties name exactly these cases.

*io_uring.* At every moment there is exactly one accept and one operation per
connection under way, which is why a completion never meets a reused token or
id. Provided buffers are recycled once on every path. A submission queue of
batch_size + 1 entries is enough: a completion submits one operation, except
that a successful accept submits two. While no more connections are open than
there are provided buffers, a read with data finds one (`ProvidedSuffice`).
Clients that stay connected get replies in order, and every byte they sent is
answered for or kept, once, whether they wait or not (`ConversationKept`); one
that waits gets all its replies (`WaitersAnswered`). One that pipelines need not:
a request that arrived with its predecessor is looked at only when more bytes
arrive, although `docs/ASSUMPTIONS.md:39` says "Pipelining supported".

*Sessions.* However the bytes are cut into reads, the server makes the calls
that the requests ask for, in their order, and refuses values above the limit
that command line or file set (`ServedAsSent`). This ends when client and server
are out of step: after an invalid line of ping or echo, which is not consumed,
and after a value that memcached or echo refuse before it has arrived. A client
of the mio runtime does not pipeline in this model, since mio forgets what
follows a request (`mio_pipelined`). A parser never takes back what it has found
when more bytes arrive (`VerdictsStable`); the two parses of a storage command
agree (`ParsesAgree`); encoding and parsing a RESP frame gives the frame
(`RoundTrip`).

## Where the code and its documentation disagree

Five disagreements have a run, whose counterexample shows them:

* `storage_deadlock`: `find_lru_key` locks `access_order`, then `data`; the
  other operations lock `data`, then `access_order`. A thread that stores while
  memory is short and one that gets, stores or deletes can block each other for
  ever.
* `storage_conditions`: add, replace, cas and incr/decr check and write under
  different acquisitions of the lock.
* `chain_resume`: `io_slices` with an offset subtracts the offset twice.
* `mio_pipelined`: a request that arrives together with its predecessor is
  forgotten when the reply to that one is complete. (The io_uring loop keeps it
  and looks at it only when more bytes arrive, see above.)
* `uring_double_free`: a write that returns 0 or an error frees its buffer
  twice; a noreply command, whose reply is empty, is enough.

The following were met while modelling; the models contain them, no run is
devoted to them:

* cas subtracts the old size and drops the lock; if the eviction that follows
  removes the same key, its size is subtracted twice and `memory_used` may wrap.
* The sweep after a get deletes a key it saw expired without another look, and
  the victim of an eviction may have been used or replaced since it was chosen.
  `LiveItemsKept` counts both among the ways in which an item may vanish.
* Nothing calls `cleanup_expired`, although the README of the server says that
  expired items are cleaned up periodically.
* `clear` keeps all buffers of a chain, and the next `append` writes to the last,
  while readers start at the first: what is appended to a cleared chain of
  several buffers is not read back.
* mio: a value larger than a buffer gets a chain that is never read into, so
  that the connection is closed when the read buffer is full. A noreply command
  closes the connection. The end of the stream that arrives with an incomplete
  request is not noticed. After an accept error the backlog waits for the next
  connection.
* A memcached value above the limit is rejected as soon as its command line is
  complete, two bytes more than the line are skipped, and the data block is then
  read as commands; a comment says that the connection will be closed.
* ping and echo do not consume an invalid line, although a comment at
  `request.rs:280` says that something has to be consumed: mio forgets the line
  after its reply, io_uring answers every later request with the same error.
* A data block that does not end in CRLF is taken for an incomplete one: the
  connection waits until its buffer is full and is then closed.
* `config.rs:4` and `config.rs:204` say that the command line takes precedence
  over the file. A protocol or log level that equals the default cannot be told
  from one that was not given, so that `--protocol memcached` loses to the file.
  `cleanup_interval` is read and never used.
* io_uring has 4096 provided buffers and 8192 write buffers for 10000
  connections; a read that finds none closes its connection. Up to 4096 open
  connections `ProvidedSuffice` excludes this.
* `parse_array` of RESP reserves memory for as many elements as are announced. A
  number too large for that makes it panic, which ends the worker. In `session`
  this is the phase `crashed`.

## What is proved

The theorems hold for every value of the constants that the named assumptions
of the modules allow; a theorem that needs more says so in its statement
(`ASSUME ... PROVE`), and the table repeats it.

| Module | Theorem | Property | Argument |
|---|---|---|---|
| `StorageProofs` | `TypeCorrect` | `TypeOK` | inductive by itself; one lemma per helper action, one case per action |
| | `TokenUniqueness` | `TokensUnique` | the inductive invariant `TokenInv` adds `Control` (which operation can be at which label) and `cas_counter >= 1`: without `Control` an append could be taken for a thread that carries a built item |
| | `Tracking` | `LruTracked` | the inductive invariant `LruInv` adds exclusion and `Removing`: while a thread has removed an item and waits to remove its access number, nobody else can have stored the key again |
| | `AccessNumbers` | `AccessNumbersDistinct` | numbers are drawn from a counter that only grows; the invariant includes those that threads have drawn and not yet recorded |
| | `Accesses` | `AccessesCurrent` | an action property. A thread that is about to enter a number holds `data`, so that nobody replaces or removes the item between the drawing of the number and its entry (the lemma `Exclusion`); the invariant `Accessing` says that the item is the one it stored, or found |
| | `LiveItems` | `LiveItemsKept` | an action property, from `TokenInv`, by cases on the action |
| | `Atomicity` | `ImplementsCache` | for operations among `AtomicOps`; see below |
| `MemoryProofs` | `MemoryAccounting`, `Overshoot` | `MemoryExact`, `OvershootBounded` | if `Bounded`; see below |
| `BufferProofs` | `ChainTyped`, `BuffersConserved`, `BytesKept` | `TypeOK`, `PoolIntact`, `ContentsKept` | see below |
| | `RingIsQueue` | `ImplementsQueue` | see below |
| `MioProofs` | `TypeCorrect`, `BuffersSafe`, `EventsReach`, `WakeupsKept` | `TypeOK`, `BuffersAccounted`, `EventsCurrent`, `NoLostWakeup` | the inductive invariant `MioInv`; see below |
| `UringProofs` | `TypeCorrect`, `TokensCorrect`, `ProvidedBuffers` | `TypeOK`, `TokensCurrent`, `ProvidedOnce` | the inductive invariant `UringInv`; see below |
| | `WorkerSafe` | `WorkerRuns` | if `BatchSize < RingSize` and there are provided buffers: `UringInv` with `QueueBounded` |
| | `ReadsHaveBuffers` | `ProvidedSuffice` | if the ring has entries and `BatchSize < RingSize`, for any number of connections the server accepts: from the invariants, by counting |
| | `WriteBuffers` | `BuffersAccounted` | in behaviours in which no write completes with 0 or an error (`WritesSucceed`) |

*Atomicity* is proved for any operations among get, set, append, prepend,
delete and flush_all (`AtomicOps`), the ones for which it is true, and any
number of threads and keys. The invariant is `RefInv`: `TokenInv`, which gives
that a new token differs from every stored one, and `Paths`, which says which
operation a thread at each label executes. Each action of `Storage` is then one
step of `Cache` (the insertion of a set, the removal of a delete, the lookup of
one key of a get) or changes neither the store nor a call of `Cache`; evictions
and the passing of time are `Forget`. An append that finds no room, evicts and
comes back looks the key up again, which is why it may refuse even if its own
eviction took the item, and still be atomic.

*Memory.* `Bounded` says: finitely many threads and keys, a largest item, no cas
(with cas `MemoryExact` is false, see above), and a machine word that holds the
limit and one item per thread, so that the wrapping of the counter cannot be
reached; that it is not reached is part of what is proved. Both properties are
sums over a set of any size. The invariant `MemoryInv` extends `MemoryExact` to
the time between the two updates of a set (`Exact`), and says that memory in use
and what threads have been admitted to add are together within the bound
(`Admitted`). `Admitted` is what makes `OvershootBounded` inductive: a thread
that passes the check has seen the others' bytes, or the others are among those
counted. Every step is one of seven moves on the sums (`MemoryEffect`), and a
sum changes with one of its terms, which is shown by induction over finite sets.

*Chains.* The conjunction of the three properties is inductive: `TypeOK` bounds
the length by the buffers, which places the next byte in the last buffer, and
`PoolIntact` keeps two positions of the chain from sharing a buffer.
`ContentsKept` speaks of a chain none of whose buffers is empty (`Dense`); a
chain that was cleared or given spare buffers is excluded there, because append
writes to the last buffer and readers start at the first. The proofs need that
a position has one quotient and one remainder by the buffer size.

*The ring.* The invariant `RingInv` says that occupied entries and held buffers
add up to the number of entries, that no buffer is in two places, and that the
entry behind the tail holds the buffer that add_buffer is adding. A buffer is
held while it is being added, so that there is a free entry for it; entries less
than a round apart are in different slots; and because the entries divide the
values of the tail, wrapping does not change the slot of a position.

*mio.* `MioInv` has to relate five tables: the slab, the registrations with
epoll, the sockets, the events of the current poll and the readiness that epoll
has yet to report. `Registered` says that connections and registrations are in
one-to-one correspondence and that a registration asks for what the state of its
connection waits for; `EventsKnown`, that an event repeats a registration, so
that a closed connection, whose events the loop drops, leaves none behind;
`Awake` is `NoLostWakeup` in terms of the invariant. `Waiting` says that a client
in the backlog is there once and has no connection, and `Roomy`, that a socket
never holds more than its size: without it a client that reads might leave a
full socket behind and the readiness that the kernel does not report would be
missed. Every branch of handle_readable and handle_writable is shown to be one
of two things, the connection goes on (`Goes`) or is closed (`Closes`), and the
invariant is proved once for each of these. A turn of the loop in
accept_connections admits a client or drops it for want of buffers. The proofs
include that `io_slices` from offset 0 offers no more bytes than the reply has
and at least one, for chains of any length, by induction over the turns of its
loop.

*io_uring.* `UringInv` says that the tokens of the submission queue, the kernel
and the completion queue are disjoint and are those in use (`Queues`), that there
is one accept and one operation for each connection and that an operation fits
the phase of its connection (`Roles`), that entries and completions are about
the operations that their tokens name (`Links`), and where the provided buffers
are (`RingOnce`). `TokensCurrent` alone is not inductive: a handler that meets a
completion of the wrong kind, or a connection in the wrong phase, would submit a
second operation. `UringStepProofs` reduces every path through the handlers to a
`Turn`, which says what becomes of the slabs and queues, and `UringKeepProofs`
shows once that a turn keeps the invariant. `QueueBounded` counts: each
completion of a batch has led to one submission, an accept to two, and an accept
that is to be submitted cannot complete in the same batch. The theorem holds
until the worker ends, and `WorkerSafe` says when it does not end. `ProvidedSuffice`
follows because each read in flight, and each completed one that holds a buffer,
belongs to an open connection of its own: as many connections as buffers leave one
for a read in flight. `WriteBuffers` excludes the double free that
`uring_double_free` shows, and nothing else.

**Checked by TLC only.** Liveness (`SomeCallReturns` and the `WaitersAnswered` of
both loops), since the prover has no fairness. The properties of
`Session`, since the parsers are recursive operators, which the prover cannot
reason about. `ReadersAgree`, which compares folds over a chain, and
`ResponsesInPlace` and `ConversationKept`, which compare what a client got with
replies that are concatenated by a recursive function: they compare sequences
that are built up in different orders. Facts that need induction on a number or on a finite set are
proved from first principles where they are needed (`SubsetInduction`,
`NumberInduction`); the theorems of the library that take an operator as a
parameter cannot be used with the provers at hand.

## Not modelled

* The text of replies and what a get returns: a reply is its size. Case of words,
  and white space other than the space before a word and line ends.
* Memory other than the buffers, and a worker of the event loops that panics in
  a parser.
* `stats`, which changes nothing; `extract_data`, `with_buffer`, `set_len` and
  the phases Accepting, Handshaking and Closing, which nothing uses.
* Logging, the spawning of the worker threads and the wait for them: workers
  share the storage and nothing else, so one worker with its clients, and several
  threads on the storage, are modelled apart.
* Errors of `register`, `reregister`, `poll` and `submit_and_wait`, and overflow
  of the completion queue. Most of these end the worker.
* The memory model of the processor: stores to the provided buffer ring become
  visible in program order, as on x86. On a machine that reorders stores the
  volatile store of the tail may overtake the entry.
* `max_connections` is the constant 10000; `ring_entries` models the casts to
  `u16` that a larger value would run into.
* In `UringWorker` the contents of an accumulation buffer are kept with the
  connection, not in the pool, so that a shared buffer shows in
  `BuffersAccounted` and not in the bytes of a reply.
* The remaining lines of the source are unit tests, documentation comments,
  re-exports and accessors that nothing calls.
