# A TLA+ verification of AevumDB

AevumDB is a document database: a daemon in C++ that keeps collections of BSON
documents in WiredTiger, serves reads from indexes in memory, and evaluates
queries and updates in a Rust library. This directory holds TLA+ models of its
parts, the TLC runs that check them on small instances, and TLAPS proofs of the
main properties for all instances.

Paths below are relative to `src/src/aevum/` in the repository.

## The parts of the system

| Part | Source | Modelled by |
|---|---|---|
| Core: insert, update, remove, set_schema, start, shutdown | `db/core` | `Engine` |
| Core: create_index, upsert (no caller in the daemon) | `db/core` | `EngineApi` |
| Core: find, count; the Rust query engine | `db/core`, `ffi/src/query` | `Query`, `Paging`; `Documents` for update inside the engine |
| Storage over WiredTiger | `db/storage` | `Engine`, `EngineApi`, `Users` |
| Index manager, primary and secondary index, persistor | `db/index` | `Engine`, `EngineApi`, `Query` |
| Schema manager, validator | `db/schema` | `Documents`, `Engine` |
| Authentication cache, roles, user records | `db/auth`, `db/core` | `Users` |
| Accept loop, workers, stop, signal thread | `client/net/server.cpp`, `main.cpp` | `Server` |
| Dispatcher, request cache, client library, connection | `client`, `util/deduplication` | `Session` |
| Arguments and configuration of both programs | `main.cpp`, `shell/main.cpp` | `Startup` |
| Shell: loop and commands | `shell` | `Shell` |
| Documents, builder, strings across the FFI: who owns the memory | `bson`, `ffi/src/util`, `db/core` | `Ownership` |
| BSON iterator | `bson/doc/iterator.cpp` | `Iteration` |
| Thread pool, queue, wait group | `util/concurrency` | `Workers` |
| Spinlock and object pool | `util/concurrency`, `util/memory` | `ObjectPool` |
| Arena, stopwatch, UUID | `util/memory`, `util/time`, `util/uuid` | `Arena`, `Stopwatch`, `Uuid` |

A client's call becomes one request on a TCP connection. The worker thread of
that connection looks it up in the request cache, checks key and role, calls Core
and sends the response. A write takes Core's `rw_lock_` exclusively, changes
storage, then changes the indexes, and returns. Reads take the lock shared and
look at the primary index only. `set_schema`, `create_user` and `create_index` do
not take this lock; the managers below have their own. The thread pool, queue,
wait group, object pool, arena and stopwatch are a library of their own, which
the daemon does not call.

## Modules

**The engine.**

- `Documents`: documents as an `_id` and an opaque content, the conversions to
  and from JSON, update and validation. A document inserted with a non-string
  `_id` has two `_id` fields (`dup`): the generated string, which BSON lookups
  find, and the client's, which survives in JSON. A query is the set of JSON
  documents that it matches.
- `Engine`: one collection. `live` is what storage returns, `disk` what it would
  return after a crash; `prim`, `sec`, `indexed`, `schema` are the memory of the
  index and schema managers; `lock`, `pc`, `req` are `rw_lock_` and the program
  counter and locals of each worker; `faults` records which kinds of storage call
  have failed since the start. Each action is the stretch of code between two
  effects another actor can observe:

  | Operation | Actions |
  |---|---|
  | `Core::insert` | `InsertBegin`, `InsertPut`, `InsertIndex` |
  | `Core::update` | `UpdateBegin`, `SyncDrop`, `SyncOpen`, `SyncInsert`*, `UpdateRebuild` |
  | `Core::remove` | `RemoveBegin`, (`RemoveStored`, `RemoveIndexed`)*, `RemoveEnd` |
  | `Core::set_schema` | `SchemaPut`, `SchemaCache` |
  | constructor, destructor | `Start`, `Shutdown` |
  | end of the process | `Crash` |

  A request that returns before it has changed anything is a stuttering step.
- `DocumentStore`: the abstract contract. A collection is a map from `_id` to
  document that changes by whole operations; a clean close keeps it, and an
  opening shows it, or a part of it if reading it failed.
  `Engine!ImplementsDocumentStore` maps the map to `prim`, and what is saved to
  `disk.docs`.
- `EngineApi`: `Engine` with `create_index` and `upsert`. The history variable
  `raced` records that since the start a write was in progress while
  `create_index` had read the collection and not yet rebuilt the indexes.
- `Users`: cache and table of users; `create_user`, bootstrap of `root`, restart.
  `failed` and `short` record a write that failed and a start that could read
  only a part of the table.
- `Query`: values with a type, a place in the order of their type (`rank`) and a
  representation (`form`, so that 1 and 1.0 are two values of one rank); matcher,
  operators, comparator, projection and the operations of the Rust library that
  Core calls, as functions; both paths of `Core::find`, and what `Core::remove`
  selects. A sort that leaves ties is the set of its possible results.
- `Paging`: a caller that reads the result of a find page by page, and the
  properties of `Query` for its request. `primary` holds the keys of the
  documents in the index, which the path of `find` for an `_id` looks up.

**The daemon and its clients.**

- `Server`: `main` (main and accept loop), `sig` (signal thread), `stop` (the
  steps of `stop()`, run by the signal thread or the destructor) and `wpc` (one
  worker per connection). `owner` says what each descriptor number stands for at
  present: a close frees it, and `accept` or storage may be given it again.
  Undefined behaviour (the append to `worker_threads_` while `stop` iterates, an
  exception that leaves a thread, SIGPIPE) is a choice between going on and the
  end of the process.
- `Session`: a client's call over two byte streams. Messages travel in pieces and
  a reader takes any prefix of what has arrived, because nothing delimits them.
  The worker's steps are receive, lookup, dispatch, store and send; other
  connections interleave between them. The clock and restarts are actions.
- `Startup`, `Shell`: the entry points, and the commands that a line becomes.

**The libraries.** `Ownership`, `Iteration`, `Workers`, `ObjectPool`, `Arena`,
`Stopwatch` and `Uuid`; each opens with a comment on its state. In `Workers` one
program uses all three classes at once: main enqueues tasks that push results
into a queue and call `done()`, waits for them and destroys the pool, while
another thread tries to enqueue one more task and consumers take the results.

`MCInputs`, `MCEngine`, `MCEngineApi`, `MCServer`, `MCSession` and `MCParts` are
the instances for TLC. `MCParts` holds the parts that share no state; a behaviour
chooses one part in its initial state.

Operators whose comment says *Variant* are the code with a plausible mistake
(a dropped check, a lock kept, a swapped branch). Each property of a passing run
is violated when one of them replaces the definition that follows it.

## What the runs show

Passing runs (properties are defined, with a comment, in the module):

| Run | Properties | Instance |
|---|---|---|
| `faults` | FullInv, Mirror, StoredIsVisible, UpdateKeepsDocs | 2 workers, every form of `_id`, a strict schema that is set at any time, every storage failure |
| `contract` | IndexComplete, LockReleased, ImplementsDocumentStore | 2 workers, updates that set `_id`, an index definition in the data directory, failing puts, rewrites and loads |
| `api` | ApiMirror, ApiIndexComplete, DefinitionStored | 2 callers, one content, a schema without fields, failing puts, drops, re-creations and loads |
| `server` | OwnConnection, NoWorkerAfterExit, WaitingIsKnown, StopCompletes | 2 connections, 2 descriptor numbers |
| `session` | OwnAnswer, RepeatsAreAnswered, EveryCallReturns | 1 client, 3 calls over 3 connections, messages of one and two pieces |
| `parts` | the twenty properties below | see *Bounds* |

The properties of `parts`, by module:

| Module | Properties |
|---|---|
| `Workers` | WaitMeansDone; AcceptedTaskRuns, PoolShutsDown, ResultsArrive (liveness) |
| `ObjectPool`, `Arena` | ObjectsInOnePlace; BlocksSound |
| `Ownership` | SoleOwner (bson_t), FreedOnce (strings from Rust) |
| `Stopwatch`, `Uuid`, `Iteration` | ElapsedExact; RandomBitsKept; FieldsInOrder |
| `Startup`, `Shell` | ServesAsConfigured; RequestAsTyped |
| `Users` | RolesAgree, StoredUserKnown |
| `Paging` | PagesFitTogether, SelectionsAgree, SortIsConsistent, UpdateRepeats, ProjectionKeepsId |

Six runs end in a violation. They state what a comment says and the code does
not keep; `PROJECT.json` quotes the line.

| Run | Claim | What happens |
|---|---|---|
| `nonstring_id` | UpdateRemovesNothing | any update deletes documents inserted with a non-string `_id` |
| `schema_restart` | SchemaAgrees | after a restart the schema also asks for a field "collection" |
| `server_lost` | StopAlwaysCompletes | a worker closes its descriptor before it erases the number; a connection that got the number meanwhile is forgotten, and `stop()` waits for its worker for ever |
| `retry` | RetriesNotRepeated | a request repeated while the first one is in progress is carried out twice |
| `upsert_race` | UpsertInsertsNew | `upsert` releases the lock between its count and its insert, and inserts although a match exists by then |
| `iterator_begin` | RoundShowsField | `begin()` stands before the first field; the first round of a loop shows bytes of the header |

### Further deviations

Not kept as runs. Each claim can be added to the module named and is refuted by
TLC on an instance like those above.

| Claim | Module | What happens |
|---|---|---|
| storage holds the old or the new collection after each step of an update | `Engine` | `sync_collection` drops the table first, and passes over documents it cannot write (`wiredtiger_store.cpp:414`), although line 356 says "atomically" |
| `create_user` gives the key the role asked for | `Users` | an existing key keeps its role in the cache until the next start (`auth_manager.cpp:84`) |
| `SchemaAgrees` with two workers and no restart | `Engine` | two `set_schema` calls: one schema is stored, the other cached, although `schema_manager.hpp:132` says calls are serialised |
| a document that appears is accepted by the cached schema | `Engine` | with two workers, it may have been validated against the schema before: `set_schema` does not take `rw_lock_` |
| the same with one worker and an empty schema | `Engine` | insert rejects every document (`validator.cpp:45`), update accepts every change |
| `Mirror`, `StoredIsVisible` without their conditions on failures | `Engine` | a collection that could be read only in part at start is served, and rewritten by the next update, as if that were all of it (`wiredtiger_store.cpp:229`) |
| `[][Settled /\ ~up' => \A k \in Ids : prim[k] # Missing => disk'.docs[k] # Missing]_vars` | `Engine` | acknowledged documents are lost in a crash; `docs/ARCHITECTURE.md:268` promises durability |
| `[][\A t \in Threads : pc[t] = "index" /\ up' /\ pc'[t] = "idle" => req[t].doc \in DocsOf(prim')]_vars` | `Engine` | a document with an empty `_id` is acknowledged and never found |
| `Settled /\ indexed => sec \subseteq DocsOf(prim)` | `Engine` | inserting over an `_id` leaves the old document in the secondary index |
| `IndexComplete` without its condition `~LoadsBeforeIndexes` | `Engine` | collections listed before `_indexes` start with an empty secondary index, against `core.cpp:87` |
| `ApiMirror` without `~raced` | `EngineApi` | `create_index` undoes a concurrent write in the indexes |
| `DefinitionStored` after a failed call and a retry that succeeds | `EngineApi` | the retry finds the field registered and stores nothing |
| `RolesAgree` without `~failed` | `Users` | `create_user` fills the cache first and keeps the entry when the record cannot be written: the user exists until the next start |
| `RolesAgree` with NONE allowed in `PlainRequests` | `Users` | a user created with NONE is READ_ONLY after a restart |
| `pending ~> ~Alive` | `Server` | a signal that arrives before `run` has set `is_running_` stops nothing, and the signal thread has ended |
| `[][stop # "no" /\ stop' = "no" => threads \subseteq joined]_vars` | `Server` | a connection accepted before `stop()` may get its thread after `stop()` has joined the others; nobody joins it, and its destructor ends the process |
| a number that a worker closes is its own | `Server` | `stop()` and the worker both close it; by the second close it may be a file of the storage engine |
| `OwnAnswer` without `torn` | `Session` | a message read in two parts leaves requests and responses out of step; there is no framing |
| `\A i, j \in DOMAIN pages : pages[i] = pages[j] => i = j` | `Paging` | a query for one `_id` ignores limit, skip and projection: every page is that document |
| `PagesFitTogether` for any sort | `Paging` | documents that compare equal may change places between two calls, because the sort is not stable |
| `SelectionsAgree` without its exceptions | `Paging` | a document whose `_id` is not a string is kept under a generated key: `find` by that key returns it, `count` by it is 0, and no query removes it |
| `RequestAsTyped` without `PlainStrings` | `Shell` | `find_matching_brace` counts braces inside strings, so that a string with a brace moves the end of the first object |
| `BlocksSound` without `~thrown` | `Arena` | `add_chunk` throws after `current_chunk_idx_` was increased; a later block that fits behind the old offset is taken from a chunk that does not exist |
| `ElapsedExact` without `adjusted = 0` | `Stopwatch` | `high_resolution_clock` need not be steady; when it is set, the elapsed time moves with it and may be negative |

Also met while reading, and kept in the models as the code has it: limit and skip
are narrowed from 64 to 32 bits at the FFI; the keys of a sort are applied in
alphabetical order; the server replaces a query that is not an object by `{}`, and
so does the shell for a malformed `find`; a configuration line with both
`dbPath:` and `port:` counts as a path only; `--config` without a file is taken
for a path; the arena
refuses a block that fits an empty chunk, but not together with the padding of
the current one; a find within the cache window is answered from before an
intervening write, and a second intended insert of the same payload within the
window is not carried out.

**Bounds.** In the engine: two `_id`s (plus the empty one), two contents (one
with `create_index`), two workers. Two `_id`s are needed for an update that gives two documents one `_id`
and for a partial removal; two contents for a stale bucket; two workers for every
race, as `rw_lock_` admits one writer and `set_schema` and `create_index` race
with one. No counter is bounded there, and workers and `_id`s are symmetric
(symmetry is not used in `contract`, which checks a liveness property). In the
passing runs the collection is listed after `_indexes`; the theorems cover both. In
`Server` two connections and two numbers let a number be freed, reused and closed
again. In `Session` three connections let a retry of a retry meet the first
request; the window is one tick of two, so that an entry can be too old. In
`parts`: a late task beside two counted ones, two pool threads and two consumers
(a notification can find nobody, or the wrong thread); three threads on two
objects; an arena of three chunks of five bytes with requests up to six (a block
that does not fit any chunk); four addresses for three documents (an address is
reused); every text of up to seven braces, quotes and
blanks in the shell; collections of three
documents that differ in the type, presence and representation of a field.
`MaxTime`, `MaxCalls`, `MaxConns`, `NTasks`, `Quota`, `MaxObjects`, `MaxChunks`,
`MaxBlocks`, `MaxClock`, `MaxSets`, `MaxConfig`, `MaxArgs` and `MaxFields` are bounds of the
models; the code has none of them. In `parts` a port is at most 3 and an int of
the FFI is 3 bits wide (`Int32` is 4), so that both edges are near.

**Fairness.** Weak fairness everywhere, and only of what runs by itself.

- `Engine!FairSpec`: the steps of an admitted request. None waits for another
  thread: the lock is held, and the managers' inner locks are released within one
  step. No request has to arrive, and nothing is assumed about admission
  (`std::shared_mutex` promises no order).
- `Server!FairSpec`: each thread that can take a step. Clients need not send,
  read or disconnect, and `accept` need not fail unless the socket is closed.
- `Session!FairSpec`: workers, and the return of a `recv` that has something to
  return. The network may still fail, the clock need not advance, and the server
  may restart.
- `MCParts!FairSpec`: the threads of `Workers`. Spurious wakeups may or may not
  happen, and no particular blocked thread is notified.

Deadlock is not checked in the runs `server`, `session` and `parts`: the process
ends, the calls are used up, and a part comes to its end.

## What is proved

For every choice of the constants that satisfies the named assumptions of the
modules: sentinels differ from data, inputs have their types, a window and the
pieces of a message are positive, alignments are not zero, the thread pool and
the consumers of its results are finitely many threads, and a collection keeps
its documents under different keys, those with a string `_id` under it
(`WellKept`), and has fewer of them than a `c_int` can count (`PagingAssumption`:
a limit or skip that does not fit is narrowed at the FFI, and the pages would
begin elsewhere). TLC
evaluates these assumptions, and the inductive invariants below were checked with
TLC before they were proved.

**The engine.** `EngineProofs`: `TypeCorrect`, `MirrorHolds`, `StoredVisible`.
*Mirror* is not inductive: in the middle of a write, storage and index differ.
`IInv` is `BaseInv` (types, who holds the lock, that documents are kept under
their own `_id`, what the locals hold) and `CopyInv`, which compares storage with
`Expected(k)`: what it must hold under `k` given the index and the position of
the lock's holder. The proof has one lemma per action and conjunct.

`EngineContractProofs`: `IndexIsComplete`, `UpdateKeeps`, `Refinement`. `FullInv`
adds how the locals of an update relate to each other (`BuiltInv`: what is built
is the written part of the batch), that the batch is still the update of the
present index (`SourceInv`, which needs the lock), and that the secondary index
is complete at every step (`IndexInv`). Each step of the engine is then a step of
`DocumentStore` or leaves its variables alone; `UpdateRebuild` is the step at
which an update happens.

`EngineApiProofs`, with `create_index` and `upsert`:

- `ApiIndexIsComplete` and `DefinitionIsStored` hold for any number of racing
  callers. `ApiInv` keeps `BaseInv` and `BuiltInv`, and adds that a thread is in
  one operation at a time (`CallInv`), that the secondary index is complete
  outside the window of its filling (`FillInv`), and that the definition of a
  registered index is stored or on its way (`DefinitionInv`). `CopyInv` and
  `SourceInv` are not part of it: `create_index` does not take `rw_lock_`, and
  breaks both under a writer.
- `ApiMirrorHolds` too holds for any number of callers, until a write overlaps the
  window of `create_index` between its read and its rebuild (`raced`); from then
  on it is false (see *Further deviations*). `RaceInv` says that as long as this
  has not happened, `CopyInv` holds and the collection that `create_index` has
  read is still the stored one (`SnapInv`): a write that is in progress when
  `create_index` reads counts as an overlap, and one that is over before has
  left index and storage equal. `ApiFullInv`, which is `ApiInv` with `RaceInv`,
  is inductive.

**The query engine.** `PagingProofs`. For `SortAlwaysConsistent`, two documents
are compared by the first field, in the order of the sort's keys, on which they
differ; antisymmetry and transitivity follow from those of the comparison of
values at the earlier of two such fields. `UpdateAlwaysRepeats` follows from the
idempotence of a merge. `SelectionsAlwaysAgree` rests on lemmas about `Select`
(its length is the number of selected places, its range their documents) and on
the keys of a well-kept collection being different, so that removing a key
removes one document, and
`PagesAlwaysFit` on the uniqueness of the sorted result when `_id` is compared:
`PagesInv` says that the pages so far are the beginning of every result that the
sort allows. `Select` is a recursive function. What it yields at every place is
shown by the least place at which it would fail: the well-foundedness of `<` on
the naturals provides it, since an induction theorem cannot be instantiated.

**The daemon and its clients.** `ServerProofs`: `DescriptorsNeverMixed` and
`ExitWaitsForWorkers` from `ServerInv`, `WaitingAlwaysKnown` from `WaitInv`. For
the first: a worker's number stands for something else only after `stop()` has
closed it, and `stop()` has closed the listening socket before, so that no client
can be given the number. For the second: a worker thread is recorded before it
runs, and main returns only if all recorded threads were joined (otherwise the
process ends by `std::terminate`). For the third: a worker tests the flag after
it has registered its number; the entry is removed by its own worker, or by
`stop()` together with a shutdown of the socket, or by another worker that
registered the same number, which `lost` records.

The same module holds `RequestAlwaysAsTyped`, for arguments of any length.
`ShellInv` says that what is asked for is what `process_command` made of the line;
the rest is about `find_matching_brace`. Its counter changes by one for each brace
and not at all for other characters (`BalanceStep`), so that it stays positive
from the first brace of an object until the object ends (`StaysPositive`, again by
a least place), and the first zero is that end (`ObjectEnds`). Characters that are
not braces between two objects do not count, and so the second object is found
where it begins (`Between`, `ObjectInText`). What an object is, is said by `Depth`,
which counts only the braces outside of strings; where no string holds a brace
the two counts are equal.

`SessionProofs`: `RepeatsAnsweredAlways` from `CacheInv` (every response stored
less than a window ago is covered by a cache entry at least as recent; it
survives the erasure of an old entry because lookup and erasure are one step
under the mutex), and `AnswersAreOwn` from `AnswerInv`: a connection number
belongs to one client, and on a connection without a torn message there is at
most one whole message, on its way to the server, at its worker or on its way
back, and it belongs to the call that is waiting. `CallsAlwaysUnderWay` holds on
torn connections too: `recv` of the client has no timeout, but while the server
has the connection open, the connection has a worker, and something is on its way
or the worker is busy. `WayInv` adds to `AnswerInv` that a client that has a
socket has its end open, so that no response to it is dropped, that an open
connection has a worker, and that streams are sequences, so that a message makes
them longer. The module ends with `AlwaysServesAsConfigured` from `StartupInv`:
after each line the settings are those of the last line so far that has one.

**The libraries.** `WorkersProofs`: `WaitAlwaysMeansDone`. `WorkersInv` says that
a task is waiting to be sent, queued, with one pool thread, or has run, and in one
of these only (`TaskInv`); that the result of a task is in one place once it was
pushed (`ResultInv`); and that the counter of the wait group is the number of
tasks that have not run plus the number of threads between `push` and `done()`
(`CountInv`).

`NobodyEverSleepsOn` is about lost wake-ups, for any number of pool threads and
consumers. Pool and queue notify after they have released their mutex, so a thread
may find nothing to do, and fall asleep, before or after the notification of
another. `WakeInv` says of each condition variable who is still to notify: tasks
in the queue while a thread sleeps (`TasksNoticed`), the stop (`StopNoticed`), the
counter, which is notified under its mutex (`ZeroNoticed`), and results, of which
there are never more than notifications to come and consumers about to pop while
one sleeps (`ResultsNoticed`). `EndInv` and `PlaceInv` are needed for the first
conjunct: a counter above zero is a task that is queued or with a thread, and
threads end only when nothing is queued.

`PartsProofs`:

- `ObjectPoolSafe`: mutual exclusion by the spinlock carries the two steps of
  taking the last object.
- `ArenaSafe`: all blocks of the current chunk lie before the offset; padding
  makes the place a multiple of the alignment. After `add_chunk` has thrown,
  `reset()` establishes the invariant anew.
- `EveryBsonHasOneOwner` and `EveryStringFreedOnce`, from `OwnershipInv`.
- `RandomBitsAlwaysKept`: two draws give the same UUID only if they agree outside
  the six bits of version and variant.
- `FieldsAlwaysInOrder`: the iterator has gone as far as the keys it has shown,
  of which the first is no field's.
- `ElapsedAlwaysExact`: until the clock is set under a running watch, its active
  time is what was summed up and what has passed since the start.
- `RecordedUserKnown`, `CacheAgrees`, from `UsersInv`: a record that is written or
  about to be belongs to a cached user, and, where each key has one role, every
  cached user has a record or a thread about to write it, until a write fails or
  a start reads a part of the table only.

Only model-checked: liveness (`LockReleased`, `StopCompletes`,
`EveryCallReturns`, `AcceptedTaskRuns`, `PoolShutsDown`, `ResultsArrive`), which
is out of the prover's reach under fairness. `CallsAlwaysUnderWay` and
`NobodyEverSleepsOn` are the safety halves of the last four: nobody waits in a
state in which nobody else has a step to take towards ending the wait (a pool
without threads excepted). Every invariant and every action
property of the passing runs is a theorem.

## Assumptions about what is not in the repository

The build has `HAVE_WIREDTIGER`. WiredTiger without a log loses in a crash what
was written since it was opened; this is the worst case (eviction may have
written some of it, which recovery discards without a checkpoint). Closing the
connection writes everything. Dropping a table takes effect at once. The metadata
cursor lists tables in the order of their names. A scan sees one snapshot,
and ends early if the cursor fails.
libbson keeps duplicate field names, and serde_json keeps the last of them; a
failed allocation of libbson ends the process. `bson_iter_init` leaves the
iterator before the first element. `Engine` takes generated UUIDs to be new. `Uuid`
shows what they keep of the random numbers, but the numbers of a thread depend on
a seed of 32 bits only (`random_engine.cpp:50`), and each connection has a thread
of its own: two threads that are given one seed generate the same keys, and of
some tens of thousands of threads two are likely to be. An insert under such a key
replaces the document that has it, as an insert with that `_id` would. A closed descriptor
number may be given to the next `accept` or file. Closing a listening socket
makes a blocked `accept` return, as the code expects.

## Not modelled

- Several collections and several index definitions; the number of copies of one
  document in a bucket. The managers keep ordinary collections apart by name, so
  that one shows what happens to each. This does not hold of `_auth`, `_schemas`
  and `_indexes`: requests can name them like any other collection, and what they
  write there is read as users, schemas and index definitions at the next start.
  Such requests are left out, and `Users`, the schema and the index definitions
  of `Engine` are about the tables as their managers write them.
- `delete_docs` of the Rust library, which Core does not call: `Core::remove`
  finds the documents and removes them one by one.
- The role table in `rbac.cpp`: pure, and nothing calls it. The roles that
  `process_request` asks for are in `Session`.
- The text of JSON, responses, metrics, logs and the shell's output, completion
  and hints; nested documents in queries.
- The hash of a payload in the request cache (a payload stands for its hash), the
  step of `system_clock` backwards, and `cleanup_expired`, which nothing calls.
- Sums that overflow `size_t` in the arena, a negative `add` of the wait group,
  `try_lock`, and the size and clearing of the queue.
- djb2, FNV-1a, `split`, case conversion, time stamps, the logger, `Status` and
  thread names: single loops or plain I/O without state that other parts read.
