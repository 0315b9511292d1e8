# Verification of HybridKV

TLA+ models of the components of HybridKV that run today: the in-memory storage
engine (`hkv-engine`), the TCP server with its parser, command handlers, access
log and metrics (`hkv-server`), the synchronous client with its connection pool
(`hkv-client`), and the back end of the desktop shell (`hkv-gui/src-tauri`). TLC
checks them on small instances; TLAPS proves most of the safety properties of the
engine, the server, the client and the shell for all instances.

## 1. The system

| part | state | operations | who uses it |
|---|---|---|---|
| `ShardInner` (`hkv-engine/src/memory.rs`) | map, node arena, free stack, LRU head/tail and links, TTL heap | `insert_new`, `remove_idx`, `touch`, `pop_lru`, `schedule_expiration`, `pop_due_expiration` | `MemoryEngine`, under the shard's `RwLock` |
| `MemoryEngine` | shards, `used_bytes`, `eviction_cursor`, `next_ttl_token` (atomics) | `get`, `set`, `set_with_ttl`, `delete`, `expire`, `ttl`, eviction, `purge_expired` | connection tasks of the server, the sweeper thread |
| sweeper (`start_expirer`, `ExpirationHandle`) | stop flag, thread | periodic `purge_expired`; `stop` joins | `main.rs` |
| `KVEngine` (`engine.rs`) | – | the contract of a storage engine | `server.rs` |
| serve loop (`server.rs`) | listener, `JoinSet` of tasks | accept, reap, shutdown, drain, abort | `main.rs` |
| connection task | read buffer, parser | read, parse, dispatch, write, count | spawned by the serve loop |
| `Metrics` (`metrics.rs`) | relaxed atomic counters, histogram | `record_*`, `snapshot`, `percentile_us` | connection tasks, `INFO` |
| `RespParser` (`protocol.rs`) | parse state, arguments, awaited length | `parse` | connection task |
| command handlers (`server.rs`) | – | `dispatch_command` and one `handle_*` per command | connection task |
| observation log (`observation/`) | list of events behind a mutex | record, exact counts, ranking of hot keys | command handlers, experiments |
| `ConnectionPool` (`hkv-client/src/pool.rs`) | idle queue, `total`, behind one mutex | `acquire`, return on drop | `KVClient` |
| `KVClient` (`client.rs`) | pool, `max_retries` | one method per command, over `exec_with_retry` | applications, the GUI's poller |
| `BenchmarkManager` and the redis-benchmark runner | runs, active runs, lifecycle channel; per run a child process in a slot, a flag, an event channel | `start`, `stop`, event worker, observer and reader threads | Tauri commands |
| `RunRepository` | `runs.json`, a mutex for writers | `persist`, `list_runs`, `get_run`, repair | event workers, Tauri commands |
| `ServerManager`, `InfoPoller`, `AppState` | the managed child, its last error; the last INFO and its error | `start`, `stop`, `status`, `poll`, `clear` | Tauri commands, polled by the React front end |
| `hkv-common`, `hkv-kernel`, `hkv-bench` | – | data layouts of the planned kernel interface, stubs | nobody yet |

**What is hard.** Engine calls read the clock before they wait for a shard's lock;
the byte counter is updated under different locks, by evictors under none; the TTL
heap is invalidated lazily while slots are reused; list, map, arena and free stack
are kept consistent by hand. The server can be told to stop, time out, abort or
panic between any two awaits of a task, and commands arrive in arbitrary pieces.
The client's pool is looked at in several critical sections per call, connections
die at any moment, and a retry repeats commands the server may have executed. In
the shell a benchmark has four threads, a child and a caller of `stop` around one
slot, runs move from memory to a file that is rewritten in place and read without
a lock, and commands overlap around one mutex that is held while a child comes up
or ends. `PROJECT.json` lists these hazards, each at its line, with the properties
that would catch it going wrong.

**What makes each part correct.** Engine: each call is atomic and right with
respect to a simple store (with expiry and LRU eviction); structures consistent;
accounting exact; every expired entry is reclaimed; calls return. Pool: slots are
accounted for, connections exclusive, replies not mixed up. Wire: what was sent is
what is parsed, however it is cut up, and a torn reply is not taken for a whole
one. Server: requests are counted and answered once and in order, an orderly
return leaves nothing behind, shutdown ends; no removal is counted twice, the
access log is complete and in order. Metrics: nothing is lost at rest, percentiles
are bounded. Shell: runs end, once, and as they were told to; what was persisted is
kept and shown; there is one server at most; every command returns.

## 2. Modules

| module | models | notes |
|---|---|---|
| `ShardInner` | one shard as a value and its operations as operators | the links are modelled as the code keeps them, slots numbered from 1, `None` = 0 |
| `MemoryEngine` | callers, locks, counters, eviction, sweeper | EXTENDS `ShardInner` |
| `KVStore` | the abstract store: per shard a list of entries in order of use | what `MemoryEngine` implements |
| `ConnectionPool` | the pool's critical sections | |
| `KVClient` | threads, retries, connections, peers | EXTENDS `ConnectionPool` |
| `RespWire` | client encoder and reader, server parser and reply encoders, joined by a byte stream | nested replies are read by a recursive function of the depth |
| `Server` | serve loop, tasks, request counting | |
| `Commands` | dispatch, handlers, observation log, hotness ranking | over an atomic engine, `KVStore` without eviction |
| `Metrics` | every atomic operation of the metrics | |
| `RedisRunner` | the benchmark child, its observer, `stop` of its handle | |
| `Benchmarks` | `BenchmarkManager`: tables, event workers, start, stop | EXTENDS `RedisRunner` |
| `RunRepository` | the file of runs, its writers, its readers in `AppState` | the sink of `Benchmarks` in detail |
| `DesktopServer` | `ServerManager`, `InfoPoller` and the commands over them | |
| `MC*` | instances for TLC | constants and symmetry |
| `MemoryEngineProofs` | theorems about the engine, with those about one shard | TLAPS |
| `ServerProofs`, `KVClientProofs` | theorems about the serve loop, the pool and the client | |
| `CommandsMetricsProofs` | theorems about the commands, their log and ranking, and the metrics | one module over both, which is why the names of `Metrics` carry a prefix |
| `RespWireProofs` | theorems about the wire | |
| `BenchmarksProofs`, `DesktopProofs` | theorems about the shell: its runs; its server and its file of runs | `DesktopProofs` is over `DesktopServer` and `RunRepository` |
| `FiniteSums` | least numbers, induction over subsets, sums over finite sets | lemmas the other proofs share |

Operators whose comment begins with "Mutant of" are faulty variants of the
definition that follows them. They are used by no specification; substituting one
shows that the property it is meant for notices the fault.

### Engine

`MemoryEngine` has one action per critical section or atomic operation. A call
starts with `Call` (the clock is read, `now`), and then:

* `get`, `delete`, `expire`, `ttl` are one action each: everything happens under
  the shard's lock. The byte counter's `fetch_sub` and the token's `fetch_add` are
  made under that lock and are part of the action. (`used_bytes` is read without
  the lock only by an evictor's `load`; making the update part of the action
  excludes only states in which that load sees the counter of a writer that is
  still to run its own `evict_if_needed`.)
* a write is `WriteLock` (lock, drop an expired entry), `WriteReplace` or
  `WriteInsert` (with the scheduling of the deadline, and the release), and then
  the eviction loop: `EvictLoad`, `EvictStart`, `EvictScan` for each shard and
  `EvictSub`, which subtracts after the lock is released.
* the sweeper is `SweepCheck` (flag), `SweepWake` (sleep ends, clock read),
  `SweepLock`, `SweepPop` for each due entry, `SweepUnlock`.

The heap is the set of its entries with the order of `Ord for ExpirationEntry`;
keys and values are model values with lengths; `used_bytes` wraps at `UsizeMax + 1`
as a `usize` does; time is a counter advanced by `Tick`, and a TTL of 0 is allowed.
Hashing is a fixed function from keys to shards. Read locks do not occur in the
code: every operation takes the write lock.

`KVStore` keeps for every shard the entries in order of use. A call takes effect in
one step between invocation and return, using the instant the call read; entries
disappear by deletion, past their deadline, or as the least recently used one of
some shard during a write. The refinement mapping reads the order off the links
(`LruSlots`), so `ImplementsStore` also says that the links give the true order of use.

### Client

One action per critical section and per use of the socket: `AcquirePop`,
`AcquireCheck` (health check outside the mutex), `AcquireDiscard`,
`AcquireReserve`, `AcquireConnect`, `AcquireFail`, `ExecWrite`, `ExecRead`,
`ExecDrop`. The server and the network (`Serve`, `Close`) are external: commands
sent may be executed even after the client gave up, a peer may close before or
after executing, replies may be lost with the connection. The health check finds a
connection alive when its peek is interrupted, and dead when the socket's mode cannot
be set; both are choices of `AcquireCheck`. Which errors are
retryable follows `classify_write_error`, `classify_read_error` and
`is_retryable_connect_error`; the kind of a timeout depends on the platform and is
a choice. All methods of `KVClient` share this path; "set" and "delete" stand for
commands that make the key present and remove it.

### Wire

`RespWire` has bytes as their codes, because framing is what it is about. `ReadBuf`
appends any number of the bytes that were sent, `Parse` is one turn of the parser's
loop, and `Returns`, `NeedMore`, `Fails` and `Panics` are what the connection task
does with the outcome (a command is answered with any of the sample replies, a
protocol error with an error reply). `read_response` calls itself for the items of an
array; the model reads with a function of the depth, which the length of the input
bounds. Numbers saturate at `UsizeMax` and `I64Max`, which are small here so that a
length of three digits saturates; `bulk_len + 2` of a saturated length panics in a
debug build and wraps in a release build, and both are in the model. On the other side
`DeliverReply` and `Cut` are the connection, and `ClientRead` is one call of
`read_response` that has all the bytes it needs or has met the end of the stream.

### Server, commands and metrics

A task runs from one `.await` to the next in one action (`Read`, `ParseNone`,
`Dispatch`, `ProtocolError`, `ParsePanics`, `WriteDone`) and can be cancelled only at
an await. `ParsePanics` is the overflow of `bulk_len + 2` in a debug build, before the
request is counted; in a release build the sum wraps and the parser may also wait.
The serve loop has `Accept`, `AcceptFails`, `Shutdown`, `Reap`, `DrainDone`,
`DrainTimeout`, `AbortDone`; `Abandon` is what dropping the `JoinSet` does when
`serve` leaves early. Requests are numbered and classified by their outcome; what
the commands do is in `Commands`: `Receive` plans the events and takes their
timestamps, `dispatch_command` is one engine call (a `DEL` takes one step for each
key, and the error of one key ends it), `observe_command_result` pushes one event,
and `Reply` sends the answer. Any engine call may fail, as the trait allows.
Eviction is left out here: it is the engine's subject, and a key that disappears
between two commands is already there through expiry and other connections' `DEL`.

`Metrics` takes the counters apart: each relaxed `fetch_add`, load and
compare-exchange is an action, in one total order. The properties are about a
single atomic variable or about states in which all threads are at rest (joined),
which the relaxed ordering does guarantee; `ErrorRateTornOnlyByStarts` relates two
variables and is claimed for that total order only.

### Desktop shell

`RedisRunner` has for each run the child, the slot with its mutex, the flag, the
channel and the observer; `ObserverTake` keeps the mutex until `ObserverWait`, as
the code does. A request is a record of which of its fields are usable and a line of
output a record of the forms its figures have, which is all that `validate`,
`split_target_addr` and `parse_output` tell apart. `Benchmarks` adds the manager: a
start is three steps (`StartSpawn`, `StartRegister`, `StartAnnounce`) because the
child runs before the tables know of it; an event worker applies an event
(`WorkerApply`), gives up (`WorkerBreak`) or persists (`WorkerPersist`); a stop looks
the handle up, sets the flag and then wants the slot. Ids are the millisecond of the
start, and `Now` lets two starts fall into one.

`RunRepository` takes `persist` and the reads apart at every file operation: a write
is a truncation and then the bytes, a file that does not parse is backed up and
replaced by an empty list by whoever meets it, and two overlapping writes may leave
a mixture. `IoError` may end a call at any of them; `Crash` keeps only the file.
`Benchmarks` sees of all this whether `persist` succeeded. In this module a run enters
the manager's list when it ends, since only finished runs are persisted; how it gets
there at its start is the subject of `Benchmarks`.

`DesktopServer` has the manager's mutex held over the 250 ms after a spawn and over
the wait after a kill; the poller's mutex protects single assignments, so each of
them is one step, and nothing is held between the calls one command makes.

## 3. Runs

| run | bounds | shows |
|---|---|---|
| `engine_structure` | 3 keys, 1 shard, 1 thread, room for 4 bytes, no deadlines | list, map, free stack, byte counter; refinement with eviction |
| `engine_races` | 1 key, 2 threads, sweeper, clock to 3, 2 tokens | deadlines, stale heap entries; refinement under every interleaving of calls that read the clock early |
| `engine_liveness` | 2 keys of 2 shards, 2 threads, sweeper, room for one entry, fair | byte counter and budget with three subtracting parties; calls return, expired entries reclaimed, `stop` joins |
| `client_pool` | 3 threads, 1 call each, 3 sockets, idle 1, total 2, 1 retry, timeouts | slots, exclusivity, replies, what a delete reports |
| `client_calls_return` | 2 threads, 2 calls each, 2 sockets, no read timeout, fair | calls return |
| `server_connections` | 2 peers, 2 requests each, all outcomes, bytes that are no command or that make the parser panic, fair | counting, order, orderly return, panics, grace period; shutdown completes |
| `server_commands` | 2 connections, 3 keys, 3 commands of 21 kinds, clock to 2 | counts of `DEL`, access log, ranking with its ties |
| `wire_and_metrics` | 55 streams of two commands, 7 replies, any cuts; 2 threads, 2 requests each, 4 latencies, 2 bounds, a snapshot | parser and reader against what was sent; counters, maximum, percentiles, error rate |
| `benchmarks` | 2 runs, perhaps of one millisecond, 1 caller of `stop`, 4 outputs, fair | life cycle, cancellation, runs and stops end |
| `app_state` | 2 callers with any number of commands, 2 children, 2 addresses, fair; 3 workers (two with one id), 1 reader, 1 crash, I/O errors | one server, stop clears, commands return; nothing persisted is lost, missed or shown twice |

`wire_and_metrics` and `app_state` each have two components that share no variable: the
steps of one cannot affect a property of the other, and each is explored while the
other rests in an initial state (`MCNext`).

Two more runs check what the repository says of the program and the code does not
keep. TLC is expected to find the property violated.

| run | property | the repository says | what happens |
|---|---|---|---|
| `resp_malformed` | `MalformedRefused` | `protocol.rs:12` "Malformed frames return a protocol error immediately." | a bulk length that does not fit a `usize` saturates, and `bulk_len + 2` (`protocol.rs:91`) panics or wraps |
| `run_repository_loss` | `PersistedListed` | `state.rs:341` expects of `list_runs` that a persisted run is in it | a reader meets the file while it is truncated and overwrites the completed one with an empty list (`run_repository.rs:42`) |

*Why these bounds.* Three keys in a shard make a list with a head, a middle and a
tail and let slots be freed and reused in any order. Two tokens and a clock of
three instants let a deadline be replaced, become stale and meet a reused slot;
one key is enough for races on a deadline, since keys of different shards share
only the counters, which `engine_liveness` exercises with two shards; growing and
shrinking in place is in `engine_structure`. Two threads are enough for every race
found between two critical sections; the sweeper is a third actor. A pool of total 2
and idle 1 with three threads reaches surplus returns, exhaustion, and a connection
reused by another thread while a reply to a call that gave up is under way. Two
pipelined requests put one in the buffer while another is being answered. Three
commands are a `SET` and two overlapping `DEL`s, or a command before, beside and
after another one's events; with three keys two that were accessed equally often
compete for a place in the ranking. Streams of two commands show that the parser is in step
again after the first; the sample has empty arguments, arguments with the framing
bytes, two-digit lengths, inline commands, every malformed form and a length that
does not fit. Two runs make one collision of ids; a third would only repeat it. Three
workers overlap twice, two of them on one id. Two commands overlap in every way, and
two children are what `OneServer` needs to fail. Calls, requests, tokens, spawns and
the clock are bounded by constants in the guards (`MaxClock`, `MaxToken`, `MaxCalls`,
`MaxRequests`, `MaxCommands`, `MaxStarts`, `MaxSpawns`), all of them named. Only
the wire may stop (`CHECK_DEADLOCK FALSE` in `wire_and_metrics` and `resp_malformed`): its
streams end.

*Fairness.* Engine: strong fairness of each thread's steps inside a call and of
the sweeper, since waiting for a lock is enabled only while it is free and
parking_lot's lock hands itself over to waiters eventually; nothing forces a call
to be made. Client: weak fairness of each thread (no step waits for another
thread), and of the server's answering, on which a client without read timeout
relies. Server: weak fairness of the loop's branches that stay ready (`select!`
picks at random among ready branches), of the timer and of a task between two
awaits; strong fairness of cancelling, because tokio's budget makes even a busy
task yield. Nothing is assumed of peers: a write may block for ever. Benchmarks:
weak fairness of a run's threads together, the child's exit included, since
redis-benchmark makes a given number of requests; nobody has to call `start` or
`stop`. Desktop server: weak fairness of each command and of the end of a killed
child; a server that was not killed need not end. The manager's mutex is held across
steps only finitely often within the bounds, so that it need not be fair.

*Faults in the models.* Peers that close, reset, never read or send half a command;
replies that are lost or torn; failed connects, writes, reads and timeouts with
bounded retries; panicking handlers, a panicking parser and aborted tasks; engine calls, kills, waits,
spawns and file operations that fail; children that exit at any moment; a crash of
the shell in the middle of a write.

### What the models show besides

The properties are stated as the code keeps them. Where a reader might expect more,
the model has the behaviour and the property names the exception:

* *Retried delete.* `exec_with_retry` repeats a command whose reply was lost
  (`client.rs:287`). A retried `delete` may answer false for a key this very call
  removed, although `client.rs:207` says "Returns true when a key was removed";
  `DeleteTruthful` is exact only for calls without a retry.
* *False exhaustion.* A connection returned between `pop_idle` and `try_reserve`
  (`pool.rs:79`, `:87`) is overlooked: `PoolExhausted` with an idle connection,
  against `client.rs:63`.
* *Accept errors.* One failing `accept` or `setsockopt` (`server.rs:137`) ends
  `serve` and aborts all connections without the grace period, though
  `.github/copilot-instructions.md:67` says "Network errors should be handled
  gracefully without crashing the server"; `OrderlyShutdown` is about the other ways
  to return.
* *Torn snapshots.* `requests_total` is loaded before `errors_total`
  (`metrics.rs:121`), so that `error_rate` may exceed 1;
  `ErrorRateTornOnlyByStarts` says when.
* *Over-eviction.* Two writers over budget by one entry may evict two. A task
  aborted while it writes its answer leaves `inflight` raised, which is why
  `RequestsAccounted` counts such tasks as in flight.
* *Saturated length.* A bulk length that saturates makes the parser panic
  (`protocol.rs:91`, run `resp_malformed`). The panic is resumed in the serve loop and
  ends the service for all connections (`server.rs:593`), though `main.rs:10` says
  "Protocol errors are localized to the connection"; in `Server` this is `ParsePanics`
  followed by `Reap`. `ParsesWhatWasSent` says nothing
  about how such a stream ends, only that no more commands come out of it.
* *Partial DEL.* When the engine fails after some keys, `DEL` answers an error, the
  keys stay removed, and nothing is logged.
* *Stop of a benchmark.* The observer usually has taken the process before `stop`
  comes and holds the mutex while it waits (`redis_benchmark.rs:267`): `stop` then
  blocks until the benchmark has ended by itself and returns `run_not_active`,
  while the run, its flag set, is reported as cancelled.
* *Colliding ids.* Of two runs of one millisecond (`benchmark_manager.rs:330`) the
  first may stay "running" for ever; `Unique` excepts them.
* *Repair.* A reader without the lock, or the first one after a crash, may meet a
  truncated file and replace the store with an empty list (`run_repository.rs:42`,
  run `run_repository_loss`); `PersistedKept` and `ReadsComplete` hold until that happens. A file that cannot be
  read makes `list_runs` show only this session's runs (`state.rs:67`).
* *Lost children.* When `try_wait`, `kill` or `wait` fails, the manager has dropped
  the child, which may run on (`server_manager.rs:197`); `OneServer` excepts those.
* *Late polls.* A poll in flight when `stop_server` clears stores its INFO or its
  error afterwards (`state.rs:127`), and a start does not clear the poller's error,
  which hides the manager's own in `server_status`.

## 4. Proofs

`MemoryEngineProofs` proves, for every set of keys, values and threads, every
number of shards and every capacity, from the assumptions named in `ShardInner`
and `MemoryEngine`:

* `TypeCorrect`: `Spec => []TypeOK` (proved for every instance, and therefore
  listed in no run)
* `ChainsCorrect`, `MapsCorrect`, `FreeStacksCorrect`: the LRU links form a chain
  of exactly the live nodes, the map and the arena agree, the free stack is exact
* `NoDeadlineLost`: every live deadline is in the heap under its token
* `TokensUnique`: no token occurs twice in the heaps or is handed out again
* `CounterExact`, `BudgetKept`: `used_bytes` is the live bytes plus the bytes that
  evictors have still to subtract, and at rest it is within the budget. Both are
  stated as `Spec /\ []FitsUsize => ...`: that what is stored fits a `usize` is not a
  fact about this code (the bytes are in the memory of the process), and without it
  the counter wraps, as the code's would. Evictors at work are the reason why the
  budget alone is not inductive: while the counter is over `MaxBytes`, some thread
  is on its way to an eviction or a subtraction.
* `Refinement`: `Spec => ImplementsStore`, the engine implements `KVStore`, with the
  refinement mapping that TLC uses too

*The inductive invariant* is `IInv == TypeOK /\ ShardsOK(shards, next_ttl_token)`.
None of the properties is inductive alone: removing a node from the list needs to
know that its neighbours are live (chain), that its key maps to it (map), and that
its slot is not already free (free stack); a deadline stays scheduled when others
are popped only because a popped entry with the same token and slot would be the
same entry (tokens); and the tokens need the counter to be above all of them. The
chain is stated with an explicit order, a bijection from `1..LiveCount` to the live
slots. The first part of the module shows for each shard operation what it does to a
structured shard (removing a slot from the order, appending one, moving one to the
end); the second lifts this to the engine with `Keeps`, the relation
between a shard before and after a step, and has one lemma per action.

*The refinement.* The mapping reads a shard's entries off its links, as the one order
that the chain admits (`OneOrder`: two orders that follow the same links agree at
every place, by the least place where they would not). With this, each shard
operation has its effect on the abstract list: removing a slot removes one entry and
keeps the order of the others, touching moves it to the end, a new slot is appended,
a new value or deadline changes one entry in place, and `pop_lru` takes the first.
`StepSim` then has one simulation lemma per action: the step under the lock is the
abstract effect of the call, an entry that the sweeper or a write drops as expired is
reclaimed, an eviction takes the first of its shard, and all that happens around the
locks are stutters. Dropping what has expired needs two more invariants: an instant
that was read is not after the clock (`Instants`), so that what a call or a sweep
takes for expired is past its deadline now, and what is in a heap has a deadline
(`Deadlines`), so that nothing without one can be popped as due.

The other proof modules prove invariants of the concurrent components, for any
number of connections, threads, runs, workers and callers, which have to be finite
only where they are counted (`Conn`, `Client`, the children):

* `ServerProofs`: `ShutdownOrderly` (`OrderInv`: a running or panicked task is in
  the `JoinSet` until `serve` leaves early, so that an empty set means that nobody
  is left), `AccountingExact` (`CountInv`: the cardinality of the set of tasks
  that write, with one lemma for a task that enters it and one for a task that
  leaves), `AnswersInOrder` (`AnswerInv`: what was answered, what is being
  answered, what is in the buffer and what is under way from the peer are
  consecutive numbers).
* `KVClientProofs`: `NoSharing` (`HoldInv`: every connection is in the queue once or
  with one thread, which is at one of the places where a thread has one),
  `NoSlotLeaks` (`SlotInv`: the total is the length of the queue and the number of
  threads at those places and at the ones with a reserved slot), `NoCrossedReplies`
  (`ReplyInv`: an idle connection carries nothing, and the connection of a thread
  that reads carries only its own command or the answer to it; this needs that
  every path on which a reply may still come drops the connection) and
  `DeleteReportsTruth` (`TruthInv`: for a call whose first command is under way or
  answered, the reply on its connection is what the server did for it).
* `CommandsMetricsProofs`, commands: `CommandsInv` gives `RealTimeLog` (the numbers
  of the commands in flight are their own and not among the answered ones, and an
  event can only be after answered ones), `DelCountsOnce` (the counts of the DELs,
  answered or under way, and the keys that are there are paid for by the keys that
  were written, with sums over all connections), `LogExact` (a command in flight
  still plans at most the events it owes, and the log has the accesses of the
  answered commands and what the others have recorded ahead of their replies; that
  `ExactObservationCounter`'s fold and the counts by key agree is shown for any
  sequence of events) and `RankingSound` (`Hotter`, the comparison of counts, reads and
  keys, is a strict total order, so that the ranks are a bijection).
* `CommandsMetricsProofs`, metrics: `MetricsInv` says of every counter which threads
  are past their update of it. It gives `NothingLost`, `TornOnlyByStarts` and
  `PercentilesInBucket`, the last for any number of buckets: the cumulative counts
  of the buckets are the numbers of latencies up to their bounds.
* `RespWireProofs`: `CommandsReadBack` states `ParsesWhatWasSent` for every input that
  is `AsDescribed`: any sequence of whole commands, each an `encode_command` array whose
  lengths fit a `usize` or an inline line, followed by nothing, by a line that is
  refused, or by a command that is cut off: fewer arguments than its header promises,
  and then no whole length line, a line that is no length, too little data, data with
  the wrong end, or a length that does not fit a `usize`, where the property asks only
  that no more commands are returned. All the streams of the run are of this form. One
  end is not, because the property does not hold of it: a header line that is not
  complete (the parser waits with bytes in its buffer).
  The invariant (`ParserInv`) says that the buffer and the bytes not yet read
  are, together, the encoding of what has not been returned: from a command on, from
  a length line of a command on, or from the data of an argument on, as the parser's
  state says, in a command that will be returned (`InStep`) or in the one cut off
  (`InLast`); and that a parser that waits has less than the line or the data it waits
  for. It needs that decimal numbers are read back (`PushedIs`), that a line end is
  found where the line was ended and nowhere before, and that the data is taken by its
  length, so that CR LF in it is not looked at. `ServerRepliesReadBack` states
  `RepliesReadBack` for all answers that are flat: simple strings and errors without
  line breaks, integers, bulk strings and null, which are what `resp_simple`,
  `resp_error`, `resp_integer`, `resp_bulk` and `resp_null` of the server write; the
  server never writes an array. The invariant (`ResponseInv`) says that what has arrived
  and what is on its way (after a cut: some bytes that were lost) are the replies after
  those read; `FlatRead` that `read_value` gives the next one's value once all its bytes
  are there, and wants more before.
* `DesktopProofs`, server: `OnlyOneServer` (`ServerInv`: the mutex is kept exactly
  while a child comes up or ends, and every child that lives is the managed
  process, in the hand of the holder of the mutex, or given up) and
  `StopShowsNothing` (`ClearInv`).
* `DesktopProofs`, file of runs: `NothingPersistedIsLost` (`RepoInv`: a worker is inside
  `persist` only with the lock; as long as no file was given up, it has loaded what
  the file has, or has truncated it and holds all of it and its own run). Crashes and
  failing writes keep this, because a truncated file does not parse.
  `ReadersMissNothing` adds `ReadInv`: no list has an id twice, and until a file is
  given up, the ids a reader knew at the start are in the manager or in what it has
  loaded or would load now. `list_runs` may read the file first because the manager
  never drops a run of its session; `get_run_detail` may ask the manager first because
  what it does not have can only have been persisted. That the sort neither loses nor
  doubles a run and orders by time is shown for any list (the ranks are a bijection),
  and what the merge does by induction over the manager's runs.
* `BenchmarksProofs`: `FinishedForGood` (`TableInv`: `active_runs` has for an id the
  latest entry, and only while it is running; a worker that persists has an older
  one), `StopIsKept` (`StopInv`: while the process is in its slot no verdict is
  under way, so that a kill that succeeds comes before the observer looks at the
  flag, which was set before the kill) and `LifecycleInOrder` (`EventInv`: the shape
  of the announcements at each place of the worker). The last two are about runs
  whose id is their own, and have to show that a run of the same millisecond
  never makes an id its own again.

The assumptions are those named in the modules: nobody is not a thread, sets that
are counted are finite (`Thread`, `Latency`, `Conn`, `DOMAIN Size`), workers are not
readers, bounds are natural numbers, the number of shards is a power of two
(`normalize_shard_count`), requests are vectors of words that name keys
and values (`RequestsAssumption`).

*Induction.* The library's induction theorems take an operator, which the provers
here cannot instantiate. `FiniteSums` states induction for sets instead (a set of
numbers with 0 and successors has all numbers; a set of subsets closed under adding
an element has all subsets of a finite set), and with it what sums over a finite set
do when a summand is added, changed or grouped. `SumOver` is the same choice of a
recursive function as the community modules' `MapThenSumSet`, so that its facts
carry over to the properties as TLC evaluates them. Sorting has no such definition
the prover can unfold, which is why `top_keys` and `NewestFirst` are modelled by the
number of those that come before instead of a sort.

*Only model-checked:* of the wire, replies that are arrays, which the client can read
and the server never writes; and all liveness (`CallsReturn`, `ExpiredReclaimed`,
`StopJoins`, `ShutdownCompletes`, `RunsFinish`, `CommandsReturn`: fairness and ENABLED
are out of the prover's reach).

## 5. Not modelled, and the plan

Not modelled at all: socket options (only their failure), the text of messages and
of INFO, the width of `Instant` (adding a huge TTL panics; the server model has the
panic), floating point (the rank of a percentile, the figures of a benchmark), weak
memory orderings, the capacity of tokio's broadcast channels between the shell and
its window, the paths of binaries and directories, the front end (views over the
Tauri commands), `bench_engine` (a loop of engine calls around timers), the
constructors and layouts of `hkv-common` (nothing that runs uses them), and the
stubs `hkv-kernel` and `hkv-bench`.

All components with state of their own are modelled, and every safety property that
a run checks is a theorem; the two about the wire are theorems for the streams and the
replies named in section 4, and the run checks the second for array replies as well.
What is left to prove: replies that nest arrays, by induction over the depth.
