# A TLA+ verification of ODBCDNS

ODBCDNS is a caching DNS server for Windows. It answers A queries from a table
of SQL Server and forwards everything else, and every miss, to one recursive
server. This directory holds TLA+ models of the program, TLC configurations
that check them on small instances, and TLAPS proofs for every instance.

## The system

| part | source | modules |
|---|---|---|
| start of the process, options | `ODBCDNS/main.cpp`, constructor in `ODBCDNS/DNSServer.cpp` | `Startup` |
| receiving thread, request queue, workers, shutdown | `ODBCDNS/DNSServer.cpp`, `main.cpp` | `DNSServer`, `RequestService` |
| forwarding to the recursive server | `DNSResolver::recursiveResolve` | `RecursiveResolver` |
| cache in the `RECORD` table | `DNSResolver::resolveA`, `cacheResponse`, `ODBC/*` | `RecordCache` |
| the reply to a packet | `DNSResolver::resolve`, `resolveA`, `DNSResourceRecord::encode` | `Response` |
| reading a packet: questions, records, names, addresses | `DNSResolver::extractQueries`, `cacheResponse`, `DNSQuery`, `DNSResourceRecord::decode`, `DNSRData*`, `DNSUtil` | `PacketReader` |
| ODBC handles and transactions | `ODBC/*`, their use in `DNSResolver` and `serviceRequests` | `SQLHandles` |
| rolling log file | log4cxx: `RollingFileAppender` and what it is built from | `RollingLog` |
| tree of loggers | log4cxx: `Hierarchy`, `Logger::callAppenders` | `Hierarchy` |

`main` reads the options and constructs a `DNSServer`, which creates the
workers and binds the socket. `run()` receives datagrams and pushes them to a
queue, releasing one token of a semaphore for each. A worker takes a token, pops
a request, extracts its queries, looks them up or forwards them, and sends the
reply. If the reply came from the recursive server it is cached at the start of
the worker's next turn, before the packet is freed. Ctrl-C calls `shutdown()`,
which clears `isRunning` and sets the quit event; the destructor waits for the
workers.

## Modules

**RequestService** says what the threads promise: requests are taken up in the
order they were accepted, each by one worker, and are finished once.

**DNSServer** has one process for `main`/`run()`, one for the console handler
and one per worker (`pc`). A shared access is a step of its own: the test of
`isRunning`, the test of the queue's size outside `queueCS`, the pop, the push,
the release of the token. `heap` says which packets are allocated. The
answer of the recursive server may come, fail or be lost. Undefined behaviour
(popping an empty queue, using a freed server) ends the process model in a
fault. A request has one question: with two, a local and an upstream answer could
mix in one packet. A destructor that throws because `closesocket` failed ends like
one that does not. `MCDNSServer` gives it instances.

**RecursiveResolver** is one worker's UDP socket. Each call sends a datagram and
takes the next one from the socket, compared by identifier only. The network
loses, delays, reorders and duplicates; the server may refuse a query, which
`recv` reports later.

**RecordCache** is the table and the workers' transactions: lookup, then per
record DELETE, IF NOT EXISTS and INSERT as separate steps, then the commit. The
database is external: a statement waits for rows of its name another transaction
has changed; a circle of waits is broken by a rollback; the end of the process
rolls everything open back. The script that creates the table is not in the
repository, so locks are taken by name. A worker on a circle of waits and one
that waits for such a circle are both possible victims.

**Response** follows one packet through `resolve` and out of the socket, with
the code's lengths in bytes: room left, records and their places, saved pointers,
counts as `u_short`, the flag `tc`, the length sent. `memcpy_s` ends the process
when its room is too small, and takes a negative room for a huge one.
`recursiveResolve` may throw before the answer or after `recv` has written another
query's answer over the packet; the client then gets that, at its query's length.

**PacketReader** reads a whole packet byte by byte: the questions, then the
records of an answer up to the rows `cacheResponse` inserts. One label or pointer
of `decodeName` is one step; the copies into the name's and the address's buffers
have the code's lengths. Names and addresses are also encoded again
(`EncodeName`, `ParseAddress`). The packet format, read from the same bytes
(`TrueName`, `RecordAt`), is the reference. A read outside the packet ends in
`undefined`, a failed check of the runtime in `aborted`. A pointer in a question
leads out of the packet, because `extractQueries` gives `DNSQuery` the address of
its own variable (the unit test `PointerQuery` gives it the packet). An answer is
taken to repeat the questions of its query, behind which `cacheResponse` starts.

**SQLHandles** follows the environment, each worker's connection and its
statements through `resolveA` and `cacheResponse`, call by call. Every call may
fail; `handleErrors` throws, the statements in scope are destroyed, and the
transaction stays open. What the statements do to the table is in `RecordCache`.

**RollingLog** is the appender with its buffer, its count of the file's length and
the fixed window of backups. Each deletion, rename, close and opening of a rollover
is a step that may fail, and the process may end between any two. A buffer is
written in pieces of 1024 bytes, so a write that fails may have put some of its
events into the file (`Partial`), and the writer keeps them all in its buffer;
`torn` remembers them. Closing fails only over the flush: APR ignores what
`CloseHandle` returns. The file is opened for appending (`Append`, true unless
configured). On Windows an
open file can be renamed under its writer (APR opens it with `FILE_SHARE_DELETE`),
so `writer` names the file the stream follows.

**Hierarchy** has threads that ask for loggers and log. `getLogger` holds the
hierarchy's mutex, the walk to the root does not, so each assignment to a `parent`
is a step. A torn read of a `LoggerPtr` is not modelled: a pointer is read whole.
Nor is a logger that a configuration has made non-additive, where a walk would end.

**Startup** reads a list of options and constructs the server. The port is cut to
16 bits where the constructor gives it to `htons`.

An operator that stands before another and is used nowhere (`NotReleased` before
`Released`, `Newest` before `Oldest`) is the form a plausible mistake in the code
would give it; replacing the second by the first makes a property fail.

## What is checked

| run | shows |
|---|---|
| `server` | before shutdown no fault; tokens never exceed the queue; each request with one worker, once; packets freed once; no datagram left without a wake-up; a worker caches only its own answer; all threads are joined and the queue is drained before the server is deleted (`CleanExit`); a datagram for which `recvfrom` fails disturbs none of this; the server implements `RequestService`; every request that arrives is served, unless its own answer or those of all workers were lost; after `shutdown()` the process ends, unless a worker waits for a lost answer or a fault (see `shutdown_empty_pop`) came first |
| `recursion` | with distinct identifiers no query gets another's answer; surplus datagrams have a duplicate or a failed `select()` as cause, and there is no mismatch before; a call returns unless all it could receive is lost |
| `cache` | no worker adds a second live copy of a record (two workers may add one each, and a lookup joins them); committed live rows survive every step, rollbacks and the end of the process included; locks are held only while caching or after an exception; lookups and caching end unless a transaction left open stands in the way |
| `response` | for one question: the count of answers, the compressed names and a forwarded reply are right when the answer fits, and one refused after its receipt goes out at the query's length; the runtime ends the process only over a record that does not fit |
| `packets` | of plain packets, the questions and rows are those of the packet, nothing is read outside it, and what is cached is served as it was received; a packet whose pointers form no circle is read to an end |
| `sql_handles` | whichever call fails, a transaction is open between requests only after an exception; without one at the end all handles are freed |
| `rolling_log` | through failed operations, half-done writes and ends of the process: the files, read in order, give the events in order, and only what a failing write had put into a file is there twice; from the oldest on none is missing that was not given up; only `purge()` takes events off the disk, the oldest first; the length never counts less than the file holds |
| `hierarchy` | at rest every logger's parent is its nearest existing ancestor; an event that walks up while others link loggers in meets every ancestor there was when it began |
| `startup` | a server that starts has the last value of every option, and listens on the last port given if that is below 65536 |

A packet is plain (`Plain`) if its questions are in full and of a type below 128,
its owners in full or a lone pointer, its addresses four octets, its pointers' low
bytes below 128, its names not the root's, their labels without dots or nulls, and
a null byte follows each name within 255 bytes. The other packets are read in the
run too, but nothing is claimed of their rows.

Three runs end in a counterexample, because the code does something else than
its comments say:

| run | the code |
|---|---|
| `shutdown_empty_pop` | two workers woken by the quit event both see one request in the queue, and both pop |
| `packets_compressed` | after an owner of labels that end in a pointer, the number of bytes read is that of the decoded text, and the fields of the record are looked for elsewhere |
| `append_dropped` | when a rollover cannot open the active file again there is no writer, and the event at hand and all later ones are dropped, although `subAppend` says "the append should still happen" |

The models also show where other properties need their conditions:

- With more than `MAXIMUM_WAIT_OBJECTS` threads the second wait of the destructor
  starts before the array; `CleanExit` fails with 3 threads and waits of 2.
- Without a lost answer's excuse `ShutdownCompletes` fails: `select()` has no
  timeout and does not watch the quit event. Without that of a fault it fails by
  the trace of `shutdown_empty_pop`.
- `main` frees the connection string before a worker that is still starting has
  read it (`FreeStrings` with a worker at `start`).
- With two questions the answers to the second overwrite those to the first and
  all names are taken to be where the first is. Without a recursive server the
  packet comes back with its length added once more. Answers near the limit are
  cut without `tc`, or end the process in `memcpy_s`. A truncated answer is counted
  one short, or as 65535 when no record fits.
- Pointers to places whose low byte is 128 or more, and the root name, are not
  decoded; of a query's type only the low byte is read, with its sign, so that 257
  is taken for an address and 255 for 65535. A compressed question is not read.
- `decodeName` does not count the pointers it follows. `ReadEnds` therefore speaks
  of packets whose pointers form no circle (`NoCircle`): a circle is never left.
- 0 threads are accepted, and ports above 65535, which `htons` cuts: with
  `port=65589` the server listens on 53. Without the option the recursive server's
  address is what memory held; the listening port is also the recursive server's.
- A transaction that an exception left open keeps `SQLDisconnect` from succeeding:
  the connection and the environment are then not freed (`HandlesFreed` excepts it).
- Two workers that cache the same answer at once both insert it, and a lookup
  then returns each pair of a CNAME's and an address's copies.
- With `MaxBackupIndex` 0 one backup is kept all the same.

### Bounds

- `DNSServer`: 2 requests, one of which `recvfrom` may report as an error, and 2
  workers, enough for every race on the queue. `MaxWaitObjects` is 2 in place of 64.
  The semaphore's maximum is 2 and is not met: the code's is as large as the queue
  can get. All runs have a recursive server; without one a worker sends the packet
  back at once (`ForwardRequest`), which only the proofs cover, as they hold for
  either value.
- `RecursiveResolver`: 3 queries, 2 duplicates, 1 failed `select()`: a stale
  datagram can meet two later queries.
- `RecordCache`: 2 workers, 2 names, answers with the names in opposite order (so
  deadlocks happen) and one that closes a circle; times 0 and 1 with TTLs 0, 1 and
  2, so that a row is met before, at and after its expiry; 2 fetched answers; 1
  end of the process.
- `Response`: names of 3, 12 and 5 characters and a packet of 82 bytes instead of
  512, so that three rows reach every case of the limit. One question. Names
  have one label.
- `PacketReader`: the real limits, 255 and 512. One or two questions, up to two
  records; owners and aliases in full, as a pointer and as labels before a
  pointer; addresses, aliases and records of another type in every order; an owner
  that points forward; a second question that is compressed; questions of types 127,
  128, 255 and 257; a question so long that what follows lies beyond offset 127, one longer than a name
  may be, and the root; octets of one, two and three digits at both ends of each.
- `SQLHandles`: 2 workers with 3 lookups or cachings each.
- `RollingLog`: files of 2 events, 2 backups, 8 events, so that the window is filled
  and rolled over again; buffers of 0, 1 and 2 events; 3 faults, enough to fail a
  rollover, its recovery and the one after.
- `Hierarchy`: 3 threads, 6 names of up to 3 labels, two of them in one
  provision node, and a name the root's own name starts with; 1 event per thread.
- `Startup`: 2 options, numbers -1, 0, 8 and 65589.

Runs with liveness use no symmetry. Threads are symmetric in `Hierarchy`, workers in `SQLHandles`. Deadlock
is checked where the system goes on; `Response`, `PacketReader` and `Startup` model
code that returns, and the other models stop at their bounds.

### Fairness

In `DNSServer`, weak fairness of the main thread, of a handler that has begun
`shutdown()`, and of each worker, whose wait for the recursive server ends unless
the answer is lost: Windows schedules every runnable thread. Nobody need press
Ctrl-C or send anything. In `RecursiveResolver` the worker's receive, the server
and the delivery of datagrams that are not lost are fair. In `RecordCache` workers
in the middle of a request are fair, and SQL Server detects deadlocks (`Victim` is
part of `Caching`). `PacketReader` is a loop that runs on.

## What is proved

For every number of threads and requests (`DNSServerProofs`):

- `TypeCorrect`: the type invariant. `TypeOK` is not inductive; `TypeInv` adds
  that `run()` about to push, and a worker that serves, hold a packet.
- `SafeBeforeShutdown`, `TokensAlwaysCovered`: before the quit event is set,
  tokens, the workers that have taken one and the one about to be released never
  exceed the queue. The inductive invariant `TokenInv` adds the order of the steps
  of `shutdown()` and `main` (the quit event is set, and `run()` left, only once
  `isRunning` is cleared). `ClaimantsCount` gives the change of the cardinality
  with one worker's step; `run()` pushes before it releases, so a worker that has
  taken a token finds a request. The steps are proved from facts about the
  cardinality of sets of workers (`Counted`); those are proved last, at the end of
  the module, because the library on finite sets slows every proof after it.
- `EachRequestOnce`: `OnceInv` adds to `ExclusiveService` that the socket holds
  distinct datagrams, disjoint from all that was accepted, and so is the one in
  `run()`'s hand. Every action moves a request from one of these to the next.
- `ServerImplementsService`: from `OnceInv` every step maps to a step of
  `RequestService` or to none (`ServiceStep`).
- `NoDatagramLost`: FD_READ is armed or signalled, and only `recvfrom` arms it again.
  `SocketInv` says that while the socket is selected one of the two tells of every
  datagram, and that `run()` goes to `recvfrom` only with a datagram in the socket.
- `CleanEnd`: with at most `MAXIMUM_WAIT_OBJECTS` threads the server is deleted
  only after all workers have ended and all requests queued before `shutdown()`
  are served. `EndInv` says that once a worker has ended nothing queued before the
  shutdown is left in the queue, and that the destructor's loop has one turn. The
  assumption is needed: see `CleanExit` above.
- `PacketsHaveOwners`: `PacketInv` says where an allocated packet is: queued, in
  `run()`'s hand or held by one worker; a worker between two requests holds one
  that is finished, and no other worker holds it. So it is freed once, and never
  while it is in use.
- `OnlyOwnAnswerCached`: `AnswerInv` says that from the answer of the recursive
  server until the caching a worker that must cache holds a packet with that
  answer. With `PacketInv`, what other workers write or free is another packet.

These proofs assume only `ConstantsAssumption` of `DNSServer` (and, for `CleanEnd`,
the bound on threads).

For every number of workers and turns (`HandlesProofs`): `NoSilentTransaction` and
`NoHandleKept`, the two properties of `SQLHandles`. The
inductive invariant `HInv` says of each worker that it has no statement while it
starts, waits or has ended; no transaction while it starts, forwards or returns; a
transaction while it waits only after a failure; and no connection once it has ended
without one. After `main` has returned, the environment is left only if some
connection is. `OneWorker` reduces each step to the worker that takes it,
and `TurnStep` the calls of a turn to what they do to the transaction.

For any finite set of queries and any bounds on duplicates and failures of
`select()` (`ResolverProofs`, assuming `ResolverAssumption`: among others that an
identifier is a number):

- `AnswersOwnQuery`: `OwnInv` says that an accepted answer has the identifier of the
  query; with distinct identifiers it is the query's own.
- `SurplusHasCause`: `BacklogBounded` is inductive, given the types. The proof follows
  the cardinalities of the sets of datagrams through every step.
- `MismatchHasCause`: before a fault all that is under way belongs to the query at
  hand (`MatchInv`). It rests on the count: with no query at hand the bound is 0, so
  nothing is left for the next query to meet (`NothingCounted`).

For any workers, names, answers and times (`CacheProofs`, assuming
`CacheAssumption`):

- `CacheIntact`, an action property: `DeletedExpired`, that only expired rows are
  marked as deleted, makes a commit remove nothing live.
- `NoSecondCopy`: `NoCopyYet` adds that a worker about to insert a record has no live
  copy of it. This lasts from IF NOT EXISTS to INSERT because what a rollback
  brings back has expired.
- `LocksReleased`: `NoForgottenTransaction`, inductive given the types.
  `TableSteps` reduces all steps to the four ways the table changes.

For any file size, window, buffers, events and faults (`LogProofs`, assuming
`RollingAssumption`):

- `NothingUncounted`: `LengthCounted` speaks of the file being written; `LenInv`
  counts the active file also while no stream writes to it, because a rollover that
  fails opens it again without taking its length. It adds that a stream's file
  exists, and that after the rename no stream writes to the active name.
- `LogAlwaysInOrder`, `NoGapInLog`: the events in the backups, the active file and
  the buffer, read in this order, are in the order they were appended, but for
  those of a write that failed half way, which come again in the same file; and of
  two that are there all between them are, except those the appender gave up. The
  properties compare the files two by two, so that no file need be concatenated.
  `History` says this of a log, and `History...` lemmas that it survives what the
  appender does to a file: append, flush, rename, delete the oldest, truncate, lose
  the buffer. `OrderInv` adds what makes those steps harmless: the name a file is
  renamed to is free and no gap is below it (`WindowFree`), the file a stream writes
  to is the last (`LastFile`), and only an open stream buffers (`BufferUsed`).
- `OldestDeletedOnly`, an action property: events leave the disk only in `purge`, and
  then all of those that stay are newer.

For any threads and any names that are sequences of labels (`HierarchyProofs`,
assuming `HierarchyAssumption`):

- `ParentsNearest`: `TreeInv` says that one `getLogger` at a time is under way, and that
  a logger waits in the provision node of each missing logger between it and its
  parent; of the one being made, in the part that is still to be gone through.
- `WalksCover`: callAppenders takes no mutex. `WalkInv` says that a walk is at a
  logger whose parent is right, and that what it has yet to reach lies above. It
  needs `TreeInv` for a logger that is being made, whose parent is right before the
  first child points to it.

For any names of 1 to 63 characters, any packet length above the header's and below
2^16, any rows and any packets of the recursive server that fit (`ResponseProofs`,
assuming `ResponseAssumption`):

- `FittingRecordsEncoded`, for any number of questions: `RoomInv` says that `remLen`
  is what the header and `ptr` leave of the packet while rows are fetched.
  `FittingFits` shows that each of the three rooms `encode()` computes, the last one
  from the back, is enough for a record not longer than `remLen`.
- `AnswersCounted`, `PointersToNames`, `RecursiveRepliesWhole`, for one question. The
  properties speak of the datagram sent; `OneInv` says for each place in the code what
  makes them true. While rows are fetched (`Answering`) the records stand one after
  the other up to `ptr`, so that the next one overwrites none and is one more
  (`OneMoreRecord`); none is shorter than 15 bytes, so that the count, a `u_short`,
  cannot come round within a packet; and every place saved in `pointerLocations`
  holds its name, the question's or one at the end of a CNAME record. After them
  (`Finished`) either the packet is the recursive server's and `length` is what it
  has more than ours, or it has our records, all counted unless it was truncated.
  `StartsAre` unfolds the recursive function `Start` for one question. For more
  questions the properties do not hold: the second answer is written over the first.

For any options, results of `atoi` and `inet_pton` and content of fresh memory
(`StartupProofs`, assuming `StartupAssumption`):

- `StartsWithLastValues`: `StartsAsAsked` speaks of a server that has started.
  `ParseInv` says of every step of `parseArgs` that each setting is the last value
  among the options gone through, or the default; at the end these are all options.
  It adds that the port is positive, so that one below 2^16 passes `htons` unchanged
  (`PortKept`).

`TypeCorrect` is proved for the server, the resolver and the cache.

Only model-checked: all liveness (`EveryRequestServed`, `ShutdownCompletes`,
`RecursionReturns`, `EveryCachingEnds`, `ReadEnds`: fairness and ENABLED are out of
the prover's reach), and `PlainReadable`, `RowsRight` and `ServedAsReceived` of
`PacketReader`. Those compare what is read with names of any number of labels, so
that their proofs are inductions over the bytes of a packet, and the operators they
are stated with are recursive.

## Not modelled

- Texts of diagnostics and error buffers of the ODBC wrapper, and its operations
  the server does not call.
- TTL and class of a record on its way through the decoder; bit fields of the
  header; an answer whose questions are not those of the query.
- Datagrams from other senders than the recursive server on a worker's socket.
- Of log4cxx: configuration, layouts, filters, levels and the appenders other than
  the rolling file, which are text processing or are not reached by the server; the
  compression of backups, file names with a date, and `Append=false`.
- APR and APR-util: portability layers under log4cxx, most of them for other
  platforms, or databases, LDAP, cryptography and XML the server never calls. By
  lines they and log4cxx are nearly all of `src/`; the server, its DNS and ODBC
  code have about 2,000, and the models follow the functions among them that
  change state.
- The unit tests, which were read as documentation.

Hazards without a property, with the reason, are listed in `PROJECT.json`.
