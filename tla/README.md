# TLA+ models of the week 8 database API server

The repository is a small SQL database behind an HTTP API: a C server that
accepts connections on one thread, hands them to a pool of workers through a
bounded queue, and runs one SQL statement per request on an engine that keeps
each table in a CSV file with an in-memory B+ tree over row numbers.  This
directory holds TLA+ specifications of the parts that decide whether it is
correct, TLC configurations that check them on small instances, and proofs that
TLAPS checks for instances of any size.  `PROJECT.json` is the index: every
definition with the source lines it stands for, every run, mutant, finding,
hazard and theorem.

Paths below are relative to `src/`.

## 1. Inventory

| Part | Source | State it keeps | Operations |
|---|---|---|---|
| lock manager | `SERVER-CONCURRENCY/src/lock_manager.c` | `active_readers`, `waiting_writers`, `writer_active`, two condition variables | init, acquire, release, destroy, classification of SQL |
| job queue | `SERVER-CONCURRENCY/src/job_queue.c` | ring buffer (`items`, `head`, `tail`, `size`), `closed`, two condition variables | init, push, try_push, pop, close, cancel_pending, destroy |
| thread pool | `SERVER-CONCURRENCY/src/thread_pool.c` | `accepting_jobs`, `shutdown_started`, `joined`, workers | init, submit, try_submit, worker_main, shutdown (drain, cancel_pending), destroy |
| server runtime | `SERVER-RUNTIME/src/db_server_runtime.c`, `server_main.c` | listener, `stop_requested`, signal registration, contexts of client jobs | start, run (accept loop), signal handler, shutdown |
| HTTP connection | `SERVER-HTTP/src/http_server.c` | one client: buffer, request, response | receive loop, route, execute_query, respond, close |
| HTTP protocol | `SERVER-HTTP/src/http_protocol.c` | none | probe the bytes received so far, parse a head, build an answer |
| configuration | `SERVER-RUNTIME/src/runtime_config.c` | the settings while they are read | defaults, environment, command line, search for the repository root, checks |
| engine API | `SERVER-CORE/src/engine_api.c`, `week8_engine.c` | none of its own | execute with captured output, reset |
| executor | `week8-team7-db-api/src/execution/executor.c` | none | INSERT, SELECT by id, SELECT by scan |
| table index | `week8-team7-db-api/src/index/table_index.c` | registry of tables: `loaded`, tree, `next_id` | ensure_loaded, register_row, find_row_offset, invalidate, reset |
| B+ tree | `week8-team7-db-api/src/index/bptree.c` | nodes on the heap | insert with splits, search, free |
| CSV storage | `week8-team7-db-api/src/storage/storage.c` | the data files | append, scan, read at an offset, CSV codec |
| SQL front end | `week8-team7-db-api/src/sql/lexer.c`, `parser.c`, `ast.c` | none beyond one call | lex_sql, parse_statement |
| schema | `week8-team7-db-api/src/storage/schema.c` | none | find a table by file name or declared name, read its meta file, check the header |
| utilities | `week8-team7-db-api/src/common/util.c` | none | trim, strip, parse numbers, read files, join paths |
| CLI, benchmark, tests | | | drivers, not modelled |

How they interact.  The main thread accepts a client and submits a job without
waiting (`try_submit`); a full queue is answered 503 at once.  A worker pops the
job, takes the descriptor out of its context, reads the request, takes the lock
in the mode read from the SQL text (the server configures `serial_all`, so always
alone), calls the engine, answers, closes the descriptor.  A stop signal closes
the listener and sets a flag; the accept loop then shuts the pool down, which
closes the queue, perhaps cancels what is pending, and joins the workers.  The
engine has no lock of its own: its registry of indexes is safe only because the
lock manager lets one statement in.

What is hard, and what makes each part correct:

* **lock manager**: signal one writer or broadcast to the readers, decided by
  counters that other threads changed while the caller slept.  Correct when
  conflicting callers never overlap, the counters are exact, and nobody sleeps
  with nobody left to wake him.
* **job queue**: one signal per change, wrap-around, close while both sides sleep,
  cancel that gives up the mutex between jobs.  Correct when it is a closable
  FIFO and no wake-up is lost.
* **thread pool**: `accepting_jobs` is read under one mutex and the queue entered
  under another, so a submit can pass a shutdown; an init that fails after some
  workers run.  Correct when no accepted job is lost or finished twice, a result
  is honest, and shutdown leaves nobody running.
* **server runtime**: a signal at any instruction of the accept loop; a descriptor
  that has four possible closers.  Correct when each is closed once, no path
  forgets to answer or answers on a closed descriptor, and the server stops when
  told.
* **HTTP connection**: the request is a stream of bytes that arrives in pieces, and
  one limit is applied in three places; every call on the way from the head to
  the engine and back can fail after the row was stored.  Correct when the pieces
  do not show, the head is read as the protocol has it, the answer says no more
  than what happened, and every client is done with.
* **configuration**: three sources with a precedence, positional arguments between
  options, a search that climbs the directory tree.  Correct when the server runs
  with what was asked for, with the nearest root, and loading ends.
* **table**: ids are not stored but counted, once by the index and once by the
  scan, the file is changed before the index, a table is reached by two names, and
  a row is a line of text that is parsed anew by every reader.  Correct when the
  index always is what a rebuild would give, whatever failed or crashed in between,
  and statements answer as a list of rows would.
* **SQL front end**: the same text is read three times, by the lock manager for
  the lock, by the lexer and by the parser, with rules of their own for comments,
  words and quotes.  Correct when the readings agree wherever a statement is
  executed, and nothing rides along behind it.
* **B+ tree**: splits that propagate, allocations that fail half-way.  Correct when
  searching it is looking up a map, and it can always be freed.

## 2. Modules

| Module | Models | Abstract specification it implements |
|---|---|---|
| `CondVar` | signal and broadcast on a wait set (pthreads, external) | |
| `LockManager` | `lock_manager.c` | `RWLock`: readers share, writers are alone and go first |
| `JobQueue` | `job_queue.c` | `BoundedQueue`: a closable FIFO |
| `ThreadPool` | `thread_pool.c`; composes `JobQueue` and `LockManager` with INSTANCE | their own specifications (`KeepsQueueContract`, `KeepsLockContract`) |
| `ServerRuntime` | `db_server_runtime.c`, the control of `http_server.c` | |
| `RuntimeConfig` | `runtime_config.c`, the start of `server_main.c` | |
| `HttpProtocol` | heads, header lines and numbers of `http_protocol.c` | |
| `HttpReceive` | the receive loop of `http_server.c` with the probe; extends `HttpProtocol` | one reading of the whole stream (`WholeReading`) |
| `HttpQuery` | one client from the first byte to the close: `http_server.c`, `engine_api.c`, `week8_engine.c`; composes `HttpReceive` and `SqlFrontEnd` | |
| `CsvCodec` | the CSV codec of `storage.c`, the text helpers of `util.c`; pure | |
| `Schema` | `schema.c`; extends `CsvCodec` | |
| `TableStore` | `executor.c`, `table_index.c`, `storage.c` for all tables; extends `Schema` | `AppendOnlyTable`: lists that only grow, with true answers |
| `BPTree` | `bptree.c` | `IndexMap`: a map that refuses a key it has |
| `SqlFrontEnd` | `lexer.c`, `parser.c`, the classification of SQL in `lock_manager.c` | |
| `LockManagerProofs`, `JobQueueProofs`, `ThreadPoolProofs`, `ServerRuntimeProofs`, `RuntimeConfigProofs`, `HttpQueryProofs`, `TableStoreProofs`, `BPTreeProofs` | theorems about the module they are named for and, in `HttpQueryProofs` and `TableStoreProofs`, about the modules it extends (section 4) | |
| `MC...` | constants for TLC | |

**Atomicity.**  In the three concurrency modules one step is one critical section.
A thread that must wait joins the wait set of its condition variable and gives up
the mutex; a signal takes one thread out of the set (any of them), a broadcast
all, and each re-evaluates its loop condition in a later step of its own.
`SpuriousWake` takes out anybody at any time.  Code between critical sections
(reading `accepting_jobs` and then entering the queue, finishing a cancelled job
outside the mutex) is a step of its own.  `ThreadPool` reuses the steps of the
queue and the lock as they are, so their interleavings are the code's.

**LockManager.**  Variables carry the names of the fields.  `call[t]` says where a
thread is: out, in the read or the write wait loop, or between acquire and
release.  init and destroy happen with everybody out, which `KeepsLockContract`
shows of the pool.

**JobQueue.**  `op[t]` is the call a thread is in, `arg` its local job, `got` the
job it was last given, and `ret` the status the call that returned last returned
(its caller looks at it in the same step).  Destroy needs the caller to be alone inside,
shown of the pool by `KeepsQueueContract`.

**ThreadPool.**  One controller thread does init, shutdown and destroy, as the
server's main thread does; each job is offered once by a thread of its own,
through submit or try_submit.  `started`, `finished` and `result` count the
callbacks made by `worker_main` and `concurrency_job_finish`
(`job_queue.c`).

**ServerRuntime.**  The pool is here what `ThreadPool` shows of it, the lock what
`LockManager` is under `serial_all`.  `ctx` tracks who owns the descriptor of a
client.  An answer is sent or lost: where it cannot be built or sent,
`write_error_and_close_client` and the `http_write` functions close the client all
the same.  A refusal is two steps, the answer with the close and then the finish of
the rejected job, because in between the context still holds the descriptor that
was closed.  What a client does is seen only by the `recv` of the worker that serves
it, so `Talk` happens only then.  Clients in the backlog of a listener that is closed
are reset by the kernel and told nothing.  Abstractions: the signal handler runs on
the main thread, between two steps of it; a handler is a few steps whose way is a choice, and every answer of
it one value (`HttpQuery` has the handler in full); one request per connection
(the code closes after each).

**RuntimeConfig.**  One step is one call of `server_runtime_config_load`, one round
of the loop over the arguments, or one directory of the search.  A text is what
the code asks of it: an option, a number that fits an int, a directory.  `Inputs`
are the machine and the call: environment, arguments, working directory, the
program's directory, the directories that look like a root.  Paths too long for
their buffers (`runtime_config.c:505-512`, `539-551`) and the trimming of trailing
separators (`497`) are left out: the first fail like a directory that is not there,
and no property is about either.

**HttpProtocol, HttpReceive.**  A stream is what a client sends before it closes its
side: a request line and header lines, the number of bytes up to the blank line
(0 when there is none) and the number of bytes in all.  Numbers are digit by digit
and wrap-checked against `SizeMax` as the code does it; the text of a header is
the case the code distinguishes.  `Recv(n)` is one `recv` of any size the buffer
has room for, followed by the probe.

**HttpQuery.**  `stage` is where `http_server_handle_client` is; `engine` says what
the engine did of the statement: ran, kept its row, reported success, and whose fault
a failure was (the client's statement, or the engine's own files and memory).  Every call
that can fail on the way (allocation, `tmpfile`, execution, registration, reading
the captured output back, sending) is an action.  The SQL text is chosen piece by
piece while it is read, so texts have no bounded length.  The branch of
`http_route_request` for a missing callback is left out: the runtime always sets it.

**CsvCodec, Schema.**  A data file is a sequence of characters and an offset a number
of them, so escaping, the cut that `fgets` makes after 4095 bytes, the separator a
missing newline needs and the trimming of unquoted values are definitions and not
assumptions.  A value that needs no quotes loses the blanks around it (`Kept`): it
is stored as written and read back trimmed, so `WHERE name = ' a'` does not find
the row that `' a'` was inserted in.  `Schema` takes the meta files as lines with a
key and a value, in the order in which `readdir` returns them.  `load_schema` does
not refuse a schema that repeats a column; `ColumnIndex` then finds the first of the
name, and the other is always stored empty, as in `build_insert_row`.  `Char` is the
set of characters a string may hold, any set with those the code tells apart and
without the NUL.  `With` and `Through` are `op(x)` and a left fold in a form in which
TLC evaluates an argument once and the prover can be led through the rounds.

**TableStore.**  The registry has one index for each storage name, whatever name a
statement used.  An INSERT is three steps (prepare, append, register), so that a
failure or a crash can come in between; a SELECT is one.  Statements carry columns,
values and a condition; column checks, projection and matching are the code's, and
an answer is the table shown.  One statement is open at a time (the lock).
Ids and row counts are natural numbers and tables of any length: the `int` of
`next_id` would overflow after 2^31 - 1 rows, which is outside the model, and the bound
that TLC needs is a state constraint of `MCTableStore` (`FewRows`), not part of the
specification.  `StatementFails` is every failure that leaves the files alone.  `FaultSpec` adds
the two failures of `append_row_csv` that the code does not recover from: a flush
that fails in `fclose` unnoticed, and memory that ends between two fields, which
leaves half a row in the file.  A select list longer than the schema has columns
is in the model as long as the array `build_select_indexes` fills has room for it
(six columns, by the granularity of the allocator).

**BPTree.**  Nodes are records on a heap of addresses, so leaf links and what
`free_node` reaches are the code's.  One `bptree_insert` with its recursion is one
step; `create_node` fails after any number of calls.  A node that a failed insert
leaks is not tracked further; `FreeSafe` is about what the tree still reaches.

**SqlFrontEnd.**  A text is a sequence of pieces, single characters or whole words,
and every reader is a state machine over them, with a state of its own wherever
the code looks one character ahead.  The code runs the three one after the other;
they share nothing but the text, so the model lets them read side by side, and the
length of texts is not bounded.  A token is its type and, for words, the word in
capitals (keywords are compared without case).  Two things came up in the reading
that no statement of the repository contradicts.  `lex_string` takes a literal for
closed when the last character is a quote, so a text ending in an opening or an
escaped quote gets past the lexer; the missing semicolon stops it in the parser,
which is part of what `WholeTextIsStatement` says.  And `week8_engine.c` does not
free the tokens when `lex_sql` fails, a leak the model does not track.

## 3. Runs

Passing runs:

| Run | Instance | What it shows |
|---|---|---|
| `lock_manager` | 4 threads, readers_parallel, with fairness | `TypeOK`, `CountersAgree`, `Exclusion`, `NoLostWakeup`, `RefinesRWLock`; `AcquireReturns`: acquire returns once arrivals cease |
| `job_queue` | 4 threads, 2 jobs, capacity 2 | `RingShape` over wrap-around, `NoLostWakeup`, `RefinesBoundedQueue` |
| `thread_pool` | 2 workers, 3 jobs (no lock, read, write), capacity 2, serial_all, with fairness | `JobConservation`, `ResultHonest`, `ShutdownComplete`, and the two contracts; `AcceptedFinishes`, `SubmitReturns`, `ShutdownReturns` |
| `bptree` | keys 1..10, `BPTREE_MAX_KEYS` 3, 0 to 3 allocations per insert | `TreeShape`, `LeafChain`, `FreeSafe`, `RefinesMap` |
| `table_store` | two tables, one under two names; 8 INSERT and 10 SELECT statements; at most 3 rows; four initial states of the files | `IndexAgrees`, `AckedRowsDurable`, `OneRowPerId`, `RefinesTable` |
| `server_runtime` | 3 clients, 2 workers, capacity 1, with fairness | `FdClosedOnce`, `NoSilentClose`, `AnswersOpenClient`; `AcceptedIsClosed`, `StopEndsServer` |
| `http_query` | some 1100 streams, chunk 2, limit 7, 9 SQL words, texts of any length, with fairness | `SegmentationBlind`, `BufferFits`, `RequestRead`, `AnswerHonest`, `LockFitsStatement`, `WholeTextIsStatement`; `ClientDone` |
| `runtime_config` | command lines of up to 3 texts, 216 environments with 4 command lines, 6 places | `SettingsAsAsked`, `RootIsNearest`; `LoadReturns` |

The `TypeOK` of `LockManager` is part of its run, because it says that unsigned
counters do not wrap; the `TypeOK` of other modules documents their variables.
Each property has a mutant: a plausible fault in the mapped code under which TLC
finds the property violated.

Violations, where the code does other than what the repository says of it:

| Run | Statement | What the code does |
|---|---|---|
| `table_long_row` | the same file gives the same ids (`executor.c:681`) | a row over 4095 bytes is one row to the index and two to a scan or a rebuild |
| `table_full_disk` | the row is appended and INSERT 1 says so (`storage.c:211`) | the result of `fclose` is ignored, where a short row is written |
| `http_engine_error` | an error inside the engine is a 500, a 4xx only for the client's input (`TEST-EDGE-FAILURE/cases/error-mapping.md:12`, `:20`) | every failure of the engine is answered `400 query_failed`, also one after the row was stored |
| `config_no_root` | without a root the server reports that none was found, or goes on with the directories given (`runtime_config.c:532`, `SERVER-RUNTIME/src/README.md:5`) | the parent of `/` is `/`: the search goes round for ever |

Things met while modelling that a reader of the code should know, and that are no
run of their own:

* A reader can be starved by writers that keep coming; the server's policy has no
  readers, and `AcquireReturns` is stated for arrivals that cease.
* `thread_pool.h:70` says that CANCEL_PENDING cancels the jobs that have not started
  and finishes only the running ones; the queue is closed first and the jobs taken
  one by one, the mutex given up in between, so a worker may still pop and run a
  pending one.  `JobConservation` and `ResultHonest` hold all the same.
* The answer `503 server_stopping` (`error-mapping.md:15`) is never given: the thread
  that submits is the one that shuts down, and it closes the listener first.
* A client whose pending job `cancel_pending` takes from the queue, after a failed
  `accept`, is closed without an answer; so is one whose answer cannot be built or sent.
* A body that cannot be copied for want of memory is answered `400 invalid_request`,
  where `error-mapping.md:20` keeps 4xx for the client's input; it is the same
  disagreement as `http_engine_error`, before the engine.
* After `400 query_failed` or `500 query_execution_failed` an INSERT may have been
  stored; `AnswerHonest` says that any other refusal means that nothing was executed.
* A `max_request_bytes` below the first allocation of 4096 would let the pieces
  decide between 400 and 413; `HttpReceiveAssumption` excludes it, and no caller
  of the server sets one.
* The program's own directory is searched for a root only below a drive, because
  the search from any other working directory does not come to an end.
* An entry `*.meta` that is no readable file ends the search for a table that is
  not found by file name, so whether the table exists depends on `readdir`'s order.

**Bounds.**  Lock: exclusion needs two threads, the hand-over between a writer,
a queued writer and readers four.  Queue: capacity 2 wraps, and four threads
let two producers, or two consumers, sleep while two others act.  Pool: three jobs
on a queue of two let a submit wait, one per lock mode; two workers overlap; every phase of shutdown and
a failing `pthread_create` are in.  Server: three clients on one slot and two
workers reach a full queue, a refusal and a pending job at shutdown.  Tree: ten
keys give three levels, with splits of leaves, of internal nodes and of the root;
`Reach` limits how far ahead of the keys present the next one may lie, which keeps
the orders few without excluding insertion at the left, the middle or the right;
`Addrs` is large enough never to be what limits an insert.  SQL: the words are the
keywords, one in small letters, a word that only begins like one, a name and a
number; more words add no state.  HTTP: a chunk of 2 and a limit of 7 give a buffer
of 2, 4 and 7 bytes, so doubling, the last step up to the limit and the refusal all
happen; heads of 0, 3, 6, 7 and 8 bytes with 0 to 9 bytes sent and declared lengths
up to and beyond `SizeMax` 23 lie on both sides of every comparison; heads have up
to two of sixteen header lines, which is what "comes twice" takes.  Configuration:
three texts hold an option with its value and one argument before or after it;
the places have a repository inside another, a root at `/`, one at a drive, and a
drive without one, from which the search goes on to the program's directory and ends
there or not (`WayOut`).
Table: a line of 8 characters holds every row but the one of
`table_long_row`, an int of at most 9 is enough for the ids asked for; `MaxRows` 3 lets a row be the first, the last and one between, after a
row the file began with or not, and is a state constraint, so the model itself knows no
limit; the files
start empty, with a blank line, with a row of one field and with an open
quote, with headers as in the repository (blanks, no final newline); the
statements name a table by both names, a table that reserves `id`, a directory and
an unknown one, and every refusal of the executor.

**Fairness.**  Lock: a woken thread gets the mutex again (critical sections are
bounded) and whoever is inside releases (one SQL execution).  Pool: workers,
submitters inside the queue, and a controller inside shutdown run on; nobody has
to submit or to shut down.  Server: the main thread and the workers run on, and a
client that was accepted sends something or hangs up.  The last is an assumption
about the environment and a real limit of the code: `recv` has no timeout, so a
silent client holds its worker, and a shutdown, for ever.  The fairness of the
threads assumes the same of `send`, which has no timeout either (`http_server.c:229-253`
in the workers, `db_server_runtime.c:186-212` in the main thread): a client that takes
nothing of an answer larger than its socket's buffer would hold whoever answers it.
HTTP: the client goes on sending or closes, a text is finite, the handler runs and its
`send` returns.  Configuration: the main thread runs.  Weak fairness
suffices everywhere.  Deadlock is checked in every run;
the pool and the server have an explicit final stutter.

## 4. Proofs

Eight modules hold theorems.  Each states its properties for every value of the
constants that the component's named assumption allows, from an inductive invariant
that TLC checked on the run's instance before it was proved (all but that of the B+
tree, see there).  A step of the proof
that the invariant is kept is one action of the model (`...Keeps`), and under it one
part of the invariant.

| Module | Theorems | Inductive invariant |
|---|---|---|
| `LockManagerProofs` | `CountersInRange`, `CountersCorrect`, `MutualExclusion`, `WakeupsNotLost`, `ImplementsRWLock` | `LockInv` |
| `JobQueueProofs` | `RingInShape`, `WakeupsNotLost`, `ImplementsBoundedQueue` | `QueueInv` |
| `ThreadPoolProofs` | `JobsConserved`, `ResultsHonest`, `ShutdownsComplete`, `QueueContractKept`, `LockContractKept` | `PoolInv` |
| `ServerRuntimeProofs` | `DescriptorsClosedOnce`, `ClosesAnswered`, `AnswersToOpenClients` | `RuntimeInv` |
| `RuntimeConfigProofs` | `StartsAsAsked`, `NearestRootFound` | `ReadInv`, `SearchInv` |
| `HttpQueryProofs` | of `SqlFrontEnd`: `LockAlwaysFits`, `OnlyWholeStatements` | `SqlInv` |
| | of `HttpReceive`: `PiecesDoNotShow`, `BufferAlwaysFits` | `ReceiveInv` |
| | of `HttpQuery`: `HeadsReadRight`, `AnswersHonest`, `HandlerReceivesWhole`, `HandlerRunsWholeTexts` | `HandlerInv` |
| `TableStoreProofs` | `TypeCorrect`, `IndexIsRebuilt`, `AckedIsDurable`, `OneRowForEachId`, `TableRefined` | `Inv` |
| `BPTreeProofs` | `TypeCorrect`, `FreeIsSafe`, `TreeIsShaped`, `LeavesAreChained`, `MapRefined` | `Inv`, and `Holds` for the map |

**Lock manager** (any finite set of threads, both policies).  Nothing weaker than
`LockInv` is inductive: the code decides from its counters alone, so exclusion needs
`CountersAgree`; that a decrement of `waiting_writers` stays in Nat needs the caller
to be counted (`LoopModes` and `CountersAgree`); that a broadcast to readers may be
skipped needs the queued writer to be there (`NoLostWakeup` with `Sleepers`, the wait
sets being inside the matching loops); and `OneSide` says that writers exclude
everybody in terms of the sets.  The lemmas first say how each action moves the sets
`Readers`, `Writers` and `Queued` (`...Moves`), then that each action keeps `LockInv`;
the refinement reads its steps off the same `...Moves` lemmas.  `serial_all`, the
server's policy, has no lock run of its own: the theorems cover it, and `thread_pool`
runs under it.

**Job queue** (any finite set of threads, any jobs, any capacity above 0).  The ring
is in shape as long as nobody stores what is no job, so the jobs that sleeping
producers hold are part of the invariant (`Holding`).  `NoLostWakeup` counts: a
sleeping consumer is helped when there are at least as many awake ones as jobs, so a
signal, which moves a thread from asleep to awake, pays for the job it announces
(`ConsumersHelped`, `ProducersHelped`), and the wait sets must lie inside the
matching loops (`Sleepers`).  `Unborn` and `Dying` say why init and destroy may forget
the ring.  For the refinement, the ring between head and tail is the FIFO: a push
appends to it, a pop takes its head, over every wrap-around.

**Thread pool** (any workers and jobs, any lock mode of each job, any capacity), with
the steps of the queue and of the lock inside it.  `PoolInv` says where every job is:
`Placed` that an accepted job is in one slot of the ring, with one worker, in the
hand of the cancel loop, or finished, and any other in none; `Entered` that the run
callback was entered by the worker that holds the job and nobody else; `Life` what
each phase of init, shutdown and destroy leaves possible; `Quiet` that a worker
leaves only an empty closed queue, which stays empty.  That a submitter which passed
the test of `accepting_jobs` before a shutdown does no harm is the closed queue's
doing, and shows in `Callers` and `Life`.  `QueueContractKept` and `LockContractKept`
are proved step by step: every step of the pool is a step of `JobQueue` and of
`LockManager` or leaves them alone, where the guards of init and destroy are what
has to be shown.  tlapm 1.4.5 does not give access to theorems of a module that is
instantiated, so the facts about the ring are proved again for the ring of the pool.

**Server runtime** (any finite sets of clients and workers, any capacity).
`RuntimeInv` follows the descriptor: an accepted client has one owner, the main
thread's hand, one place of the queue, or one worker, and `ctx` and `conn` say which
(`HandOwns`, `QueueOwns`, `WorkerOwns`, and `Owned` for the way back); between the two
steps of a refusal the hand has a client that is closed and a context that does not know
it.  From one owner at a time comes one close; from the owner having said nothing before
it closes, one answer, on an open descriptor, and none forgotten; from `Leaving`, that
nothing is left when the server has stopped.

**Configuration** (any directories, any environment, any command line:
`RuntimeConfigAssumption` says that `""` is no number, that the help options begin
with a dash, and that every directory has a parent, a drive itself).  The loop of
`load_cli_overrides` is compared with the command line as a whole.  Which texts begin
an argument is defined by counting back to the last text that is no option
(`PairsOff`, `Heads`); `ReadInv` says that the loop's position is always such a head,
that each setting has the last text given below it (`GivenTaken`), and that
`overridden` is who was given any.  `SearchInv` says that every root above the start
of the search is still above the place it looks at; `Ancestors` is the least set
closed under parents, so that needs no induction on the depth of a directory.

**SQL front end** (any words: `SqlFrontEndAssumption` says that words are not marks
and that INSERT and SELECT are made of letters only).  The properties speak of
finished texts; to get there `SqlInv` relates the readers while they read.
`ScanAgrees` says that as long as the parser has no token and the lexer is between
tokens the scan has seen nothing but noise, and that a statement once begun has its
lock; `SemicolonsAgree` that a parser inside a statement has seen no semicolon and
one that waits for the end exactly one.

**Receive loop** (any streams, chunk size and limit: `HttpReceiveAssumption` says
that a chunk is at most the limit and the limit at most `SizeMax`, and that a header
is a name, digits and a text).  The property speaks of the end of the loop.  What
carries it there is that a loop that still reads has a probe that said nothing yet of
the bytes so far (`Undecided`); with the bounds of the buffer that is inductive.
`ProbeAgrees` shows that what the probe decides is what a reading of the whole stream
gives, `UndecidedAtEnd` that a buffer which is full, or holds all that was sent,
without a decision is exactly the other two ends.

**Heads and numbers.**  The loops of `http_protocol.c` over digits and header lines
are recursive functions (`NumberAfter`, `RequestAfter`).  That they have a value at
all (`Iteration`, `NumberLoop`, `HeadersLoop`) and what they compute is proved by
induction over the number of rounds, in a form the provers take: `SetInduction` says
that a set of natural numbers with 0 and the successors of all in it is Nat, and
follows from the well-foundedness of `<`; each induction names the set of rounds for
which its claim holds.  `OverflowTest` says that the test before the multiplication
tells exactly whether the number gets too large, `NumberIsDecimal` that the digits
read are the number they stand for, `RoundSays` and `HeadOneMore` what one header
line adds, `HeadRead` that `http_parse_head` accepts exactly the heads `GoodHead`
describes and finds the declared length and type.

**Handler** (`HttpQueryAssumption`: a body is text or blank).  A step of a handler is
a round of the receive loop or leaves it alone (`HandlerReceives`), and the same of
the reading of the text (`HandlerReads`), so `QuerySpec` implements both
specifications and what is proved of each holds of their composition.  `HandlerInv`
adds what is known at each stage: `Parsed` (the request is that of the head, and what
goes to the engine was asked for), `Executed` (the engine runs once at most, then on
what was asked), `Answered` (nothing is answered early, and nothing but what
happened).  `HeadsReadRight` and `AnswersHonest` are read off it.

**Table** (any schema directory, any data files of any number of rows, any statements,
any line length: the
assumptions only say of what kind each is, and that the characters the code tells
apart are among `Char`).  The theorems have one hypothesis that the code does not
check, `RowsFit`: one `fgets` reads any row that the statements may store.  It is what
`table_long_row` refutes `OneRowPerId` without.  `TableRefined` has a second,
`DistinctColumns`: no table that is named has two columns of one name; a list by
column could not tell them apart.  `MCTableStore` has TLC evaluate both for the
constants of `table_store` (`OthersFit`).  What the theorems leave out is said once here:
the two failures of `FaultSpec`, a failing `fclose` and an append torn between two fields
(`executor.c:216`, `storage.c:280-301`), under which `IndexAgrees` and `AckedRowsDurable` are
false and `table_full_disk` shows it; the overflow of the `int` that counts ids; and that
"read back" means as `Kept` has it, trimmed where the value needed no quotes.

The loops of the storage code are `Through` with four step operators: `Read` for
`fgets`, `ParseStep` for `csv_parse_line`, `CountLine` for the lines readers count and
`ShowRow` for the scan.  For each it is proved, by `SetInduction` over the rounds, that
the loop has a value and takes one step more for one character, line or row more
(`ReadOneMore`, `ParseOneMore`, ...); with `AppendInduction`, induction over sequences
in the same form, that is all the rest needs.

* *Lines.*  While `fgets` reads, what it has cut plus what it still holds is what was
  read, and less than a full buffer (`MidLine`).  So reading `f \o g` is reading `f` and
  then `g` (`ReadingConcat`), the newline that `append_row_csv` puts before a row adds
  no line that is counted (`SeparatorAddsNothing`), and a row that fits adds one, at the
  offset it was written at (`RowIsOneLine`).  Read again from its offset, a line is the
  same line (`DataLineAt`): the piece of `fgets` does not depend on where it began.
* *Fields.*  The parser gives back a quoted value as it was, by induction over its
  characters with quotes doubled (`QuotedRead`), and one without quotes trimmed
  (`PlainRead`); by induction over the fields a whole row is read back
  (`RowRoundTrip`), and it has no newline in it (`RowTextLine`).
* *Steps.*  `Inv` says that every entry of the registry is unloaded or a rebuild of its
  file without the row of the open INSERT (`IndexInv`), that the open INSERT is what
  `PrepareInsert` made of a statement, its id the next of its index, and between append
  and register its row the last line of the file (`OpenInv`), and that every
  acknowledged row is where it was (`AckedInv`).  `IndexAgrees` alone is not inductive:
  that registering gives a rebuild needs the id to be the next one and the row to be
  one line.
* *Refinement.*  An append is `Store` of the row the statement stands for (`NewRowIs`),
  a registration `Confirm`, a failure `Fail` whatever it left in the file
  (`FailureKeepsRows`).  A SELECT by scan shows the rows that match in their order
  (`MatchingRows`), one by id the row of that id (`RowAtLine`); both are `Query`
  (`Answered`).

**B+ tree** (any finite sets of keys and addresses, any `BPTREE_MAX_KEYS` from 2 on,
allocations failing at any call).  `Inv` gives every allocated node of the tree a
height and a home, the interval of keys whose place is under it: the children of a
node divide its home between them one level down, the homes of one level are disjoint,
and the next leaf goes on where a leaf ends (`Tree`).  Heights, lower and upper ends are
existentially quantified functions, so TLC cannot enumerate them; what it checks are
the properties that follow.  The recursion of `insert_into_node`, of `Owned` and of
`Leaves` has a value because heights fall; what an insert does is `InsertOK`, proved for
a leaf, for a node above a child that did not split, did split or failed, and so by
induction over the height.  A tree that ran out of memory half-way ("broken") keeps its
heights and homes too, which is what `FreeSafe` needs; it may have a node with one key
too many, and a right half that no node has as a child.  `Holds` says that the
pairs in the leaves are what `bptree_search` finds: the search goes down into the child
whose home has the key.

Proving this changed the models in places where they could not be reasoned about:
loops that were folds and the operators of the B+ tree that were RECURSIVE are
recursive functions, `Heads` is in closed form, and three definitions
(`http_parse_header`, the routing, the kind of an argument) that were a CASE with guards
that overlap, where TLA+ leaves open which arm counts and TLC takes the first, are now
IF chains in the code's order.  It also showed one place where the model was too kind:
with a schema that repeats a column `build_insert_row` gives the value to the first of
them only, which the model now does.

Only model-checked: all liveness (`AcquireReturns`, `AcceptedFinishes`, `SubmitReturns`,
`ShutdownReturns`, `AcceptedIsClosed`, `StopEndsServer`, `ClientDone`, `LoadReturns`), since
fairness and ENABLED are outside the prover, and the runs that find a violation.  Every
safety property of a passing run is stated by a theorem.

## 5. Not modelled

* The text of answers: JSON escaping and wording, the printing of tables, logging.
  `http_build_response` appears as an answer that is built or not for want of memory.
* The syntax of a head below its lines: `HttpProtocol` begins where a line has been
  cut into method, path and version, or name and value.  A body with a NUL byte,
  which the engine reads as a shorter text.
* Of the utilities, path joining, string duplication and `read_entire_file`; they
  are reasons to fail.
* The AST: allocation and release of nodes, which are not shared and carry no
  decision.
* The CLI (`app/main.c`), the benchmark and the tests: drivers of the same engine,
  one statement after the other.
* Memory that is lost (`week8_engine.c` after a failed `lex_sql`, `bptree.c` after a
  failed new root): the models track what is reachable.
* What the kernel does with clients in the backlog of a closed listener; the two
  instructions between `close` and the mark that it happened.

## 6. Plan

The order of the work was: the concurrency core and the server around it, the B+ tree,
the tables, the SQL front end, the HTTP handler, the configuration; then the proofs in
the order of section 4.  Every safety property that a run checks is now proved.  What
would come next:

1. The building of an answer (`http_build_response` with its JSON escaping) as a codec
   like `CsvCodec`, with a round trip against a reader of JSON.
2. The tables and the tree in one specification: `TableStore` has a map where the code
   has the tree, and `MapRefined` is why that is right; composing them would also show
   the failed insert that leaves a broken tree to be dropped by `RegisterFails`.
3. A proof by hand of the liveness properties from the same invariants.
