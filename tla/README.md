# SimDB in TLA+

TLA+ models of SimDB's concurrent core, of its set-up and database layers and of the Argos collector built on it,
the TLC runs that check them on small instances, and proofs (TLAPS) of what holds for every instance. SimDB lets a C++
simulator push data into a *pipeline* of stages that run on polling threads and
end in a SQLite database; the application may freeze the pipeline, flush it, look
through its queues, and run database code of its own on the database thread while
the simulation goes on. The hard part of SimDB is that all of this meets in a few
flags, a few condition variables and one transaction mutex. Around it are the set-up
of pipelines and apps, and a record interface to SQLite whose transactions may be
rolled back and run again under the caller. Argos, SimDB's largest
application, sends checkpoints of simulated objects through such a pipeline and
rebuilds their values in a viewer from a bounded number of records.

Paths below are relative to the repository; headers are under
`src/include/simdb/` unless said otherwise.

## 1. Inventory

| component | source | state | operations | hard behaviour | what makes it correct |
|---|---|---|---|---|---|
| Polling threads | `pipeline/PollingThread.hpp`, `Runnable.hpp` | `paused_`, `stop_requested_`, `has_pending_pause_ack_`, `paused_promise_`, `is_running_`, `enabled_` of each runnable | `open`, `loop_`, `run_`, `pause`, `resume`, `close`, `flushRunnables`, `enable` | flags set under `pause_mutex_`, notified after it is released; a pause request may find the thread in any of its states; acknowledgement through a promise replaced on each pause | `pause()` returns, and when it has the thread is outside every stage; `resume`/`close` are never missed |
| Scoped disabler | `PollingThread.hpp:297-362`, `PipelineManager.hpp` `scopedDisableAll` | `disabled_runnables_`, `paused_threads_`, `disabler_active_` | constructor (soft/hard), destructor | switches off stages and threads one by one while they run | frozen means frozen; afterwards everything is on again |
| Flusher | `pipeline/Flusher.hpp` | none of its own | `flush` | runs stages on the calling thread, inside one transaction | when it returns everything submitted is in the database |
| Database thread | `pipeline/DatabaseThread.hpp` | writer's round, `pending_async_db_tasks_`, `stop_`, `cond_var_` | `run_`, `open`, `close`, `flushRunnables`; the dormant thread's `loop_`, `eval`, `hasTasks` | the writer gives way to `eval()` tasks; lost wake-ups; timed-out tasks stay queued; shutdown with tasks waiting | a task runs once, its caller is answered, writer rows are neither lost nor doubled |
| Async accessor | `pipeline/AsyncDatabaseAccessor.hpp` | - | `eval(func, timeout)` | future, timeout | see above |
| Transactions | `sqlite/Transaction.hpp` | mutex, `in_transaction_flag_` | `safeTransaction`, nested and bounded variants | SQLITE_BUSY: roll back and run the functor again | one transaction at a time; every way out releases it |
| Pipeline manager | `pipeline/PipelineManager.hpp` | threads, `threads_opened_`, `disabler_active_` | `openPipelines`, `scopedDisableAll`, `postSimLoopTeardown`, `getAsyncDatabaseAccessor` | order of closing: upstream threads may still push after a downstream one was joined | nothing is lost at teardown |
| Queues | `utils/ConcurrentQueue.hpp`, `pipeline/Queue.hpp` | a mutex-protected deque | `push`, `try_pop`, `snoop` | - | FIFO |
| Set-up | `pipeline/Pipeline.hpp`, `QueueRepo.hpp`, `ThreadMerger.hpp`, `Stage.hpp` | stages, ports, bindings, threads | `addStage`, `bind`, `finalizeBindings`, `performMerge` | single-threaded; several apps share threads | a queue has both its ends, every stage is on one thread, database stages on one, merged threads are balanced |
| Snooper | `pipeline/PipelineSnooper.hpp` | callbacks | `snoopAllStages` | data between two queues is invisible unless the pipeline is frozen | snooping a frozen pipeline misses nothing |
| App manager | `apps/AppManager.hpp`, `App.hpp` | registrations, factories, enabled and instantiated apps, hook order | register, enable, parameterize, create, schemas, hooks, pipelines, teardown, destroy | hooks of all apps in one transaction that may throw or be run again; a crash between any two steps; a second session on the same file | tables are there before the hooks, hooks in order, their rows together or not at all |
| Argos collection | `apps/argos/*` | ledger, checkpoint chains, distance to and times of the last snapshot and close | stage, close, `checkTimeAdvanced_`, the stager's `run_`, delta/snapshot encoding, `preTeardown` | windows with several checkpoints, closes, silence, multiple clocks; look-back limit | the viewer rebuilds exactly what was collected |
| Argos viewer | `src/python/argos/viewer` | replay state | look-back query, replay, decoding | it reads the last heartbeat rows of some clocks and nothing before | the inverse of the collector |
| Schema store | `sqlite/DatabaseManager.hpp`, `Connection.hpp`, `schema/SchemaDef.hpp` | `schema_`, the file's tables and indexes, the catalogue tables | constructor (new, existing file), `appendSchema`, `realizeSchema`, `serializeSchema_` | memory and two transactions changed one after the other | the three copies of the schema agree |
| Records | `sqlite/PreparedINSERT.hpp`, `Table.hpp`, `DatabaseManager.hpp`, `Transaction.hpp` | a statement's bindings and state, rows, ids held by callers | `INSERT`, `prepareINSERT`, `setColumnValue`, `createRecord`, `setProperty*`, `findRecord`, `remove*` | BUSY between two bindings; bindings shared by rows; answers read after the mutex is released | rows read back as given, an id stays with its row |
| Queries | `sqlite/Query.hpp`, `Iterator.hpp`, `Constraints.hpp`, `ValueContainer.hpp`, `utils/utf16.hpp` | constraint clauses | `addConstraintFor*`, `addCompoundConstraint`, `count`, `deleteResultSet` | uint64_t stored as text; precedence of AND and OR | what is selected is what was meant |
| Tiny strings | `utils/TinyStrings.hpp` | ids, `unserialized_map_` | `getStringID`, `serialize` | cleared inside a transaction that may be retried | every id has its row |
| Other utilities | `utils/*` | - | compression, timing, formatting | - | sequential |

How they interact: stages are called by a polling thread's `run_` (or by the main
thread's flush), pop from one `ConcurrentQueue` and push to the next; the last
stage writes through the connection all threads share. The writer half of the
database thread runs each `run_` in one `safeTransaction`; the dormant half runs
`eval()` tasks in transactions of its own; `eval()` falls back to a transaction
on the caller's thread when the dormant thread is stopped. The main thread stops
and restarts the polling threads by flags and condition variables and finally
joins them.

## 2. Modules

| module | models | status |
|---|---|---|
| `PipelinePromise` | what a pipeline promises the application, without threads or locks | abstract specification |
| `PipelineConfig` | pipelines before they run: stages, ports, queues, threads | checked, proved about |
| `PipelineThreads` | polling threads, disabler, flush, open and teardown | checked, refines `PipelinePromise` (proved) |
| `DatabaseThread` | writer, dormant thread, `eval()`, `safeTransaction` | checked, proved about |
| `SchemaStore` | one database file: schema in memory, tables, catalogue, TinyStrings | checked and proved about through `AppManagers` |
| `AppManagers` | apps and their life cycle over `SchemaStore` | checked, proved about |
| `RecordQuery` | values in columns, constraints, what a query selects | operators, checked and proved about through `RecordStore` |
| `RecordStore` | the rows of a table, a prepared statement, the calls of two threads | checked, proved about |
| `ContainerDeltas` | what a delta does to the bins of a container, at both ends | checked, proved about |
| `ArgosCheckpointer` | Argos from entry point to viewer: ledgers, checkpointers, rows, look-back | checked, proved about |

`MC<module>` holds the instances of a module for TLC, `<module>_proofs` its
theorems (`PipelineOrder_proofs` continues `PipelineThreads_proofs`). `AppManagers` extends `SchemaStore`, and `RecordStore` extends `RecordQuery`; the others
meet at their edges: `PipelineConfig` ends with the threads that `PipelineThreads`
starts with (its `ThreadOf`), `PipelineThreads` sees of `eval()` only a waiting task
that `DatabaseThread` opens up, `RecordStore` is the inside of the functor that
`DatabaseThread`'s transactions run, and `ContainerDeltas` justifies the pairs that
`ArgosCheckpointer` sends as deltas (`Covered`).

The definitions of a module that stand in for a plausible bug are marked
"Mutant:"; nothing refers to them, they are what each property is tried
against.

### PipelineThreads

One step per lock-protected block or per access to something another thread can
see. For a polling thread `t`, `pc[t]` is where `loop_` and `run_` are:

    top      loop_ is about to look at stop_requested_ and paused_
    parked   waiting on pause_cv_ after acknowledging a pause
    begin    run_ called; the database thread is about to lock its transaction
    poll     between two runnables of the round; cur[t] is the last one
    call     inside Runnable::processOne, before the pop
    push     inside it, with an item in hand (tHeld[t])
    check    the database thread's look at hasTasks() after each runnable
    ret      run_ returns
    nap      pause_cv_.wait_for(interval)
    exited   the drain loop after the polling loop has ended

| actions | code |
|---|---|
| `LeaveLoop`, `Park`, `Unpark`, `EnterRun`, `WakeFromNap` | `PollingThread::loop_` |
| `BeginRun`, `SkipDisabled`, `CallStage`, `StageSleeps`, `StagePops`, `StagePushes`, `EndRound`, `ReturnFromRun` | `PollingThread::run_`, `DatabaseThread::run_`, `Stage`'s `processOne` |
| `YieldToEval`, `KeepPolling` | the `hasTasks()` test in `DatabaseThread::run_` |
| `OpenThread`, `RequestPause`/`PauseNotify`/`PauseAcknowledged`, `ResumeThread`/`ResumeNotify`, `RequestStop`/`CloseNotify`/`JoinThread` | `open`, `pause`, `resume`, `close`: the flag is set under `pause_mutex_`, the notification comes after it is released, hence separate actions |
| `ScopedDisableAll`, `DisableStage`, `DisabledThread`, ..., `ReleaseDisabler`, ..., `EnabledAll` | `ScopedRunnableDisabler` |
| `BeginFlush` ... `EndFlush` | `Flusher::flush` |
| `BeginTeardown` ... `TeardownNextStage` | `PipelineManager::postSimLoopTeardown` |

A stage is a function that pops one item and pushes one result, as the stages in
`src/examples/SimplePipeline` do; what it computes is irrelevant to the
properties, so item *k* is the number *k* wherever it is. The sink table is the
last queue. `Flusher::flush` asks for no disabler, and the book flushes running
pipelines; the constant `FlushUnfrozen` says whether the application does
(`BeginFlush`). `eval()` is reduced here to a task that waits (`PostTask`) and is run
by the dormant thread when the transaction mutex is free (`RunTasks`); the module
`DatabaseThread` opens that box.

### DatabaseThread

Four kinds of actors share `owner`, the transaction mutex: the writer (`wpc`), the
dormant thread (`dpc`), callers of `eval()` (`callPc`), and the main thread
(`mpc`) with its final `flushRunnables`. `Begin`, `Commit`, `Rollback` and `Busy`
are the outermost `safeTransaction`; every actor composes its own steps with
them. Rows are in `txn` until they are committed to `table`; `effect[t]` follows
what the functor of task *t* wrote; `lost` collects the items whose row a
rollback took while nothing put them back.

The dormant thread's `dozing` is the window between a false predicate and being
blocked on `cond_var_`: `eval()` notifies without holding `mutex_`
(`DatabaseThread.hpp:205-206`), so its notification can fall there, whereas
`close()` takes the mutex to set `stop_` and cannot be missed. `stop_` has no
initializer: until `open()` it may read as either value, so `Init` leaves it
free and stage threads that are already running may take the inline path.

Not every exception behaves alike, and the model keeps the difference: in the
dormant thread every exception of a functor is caught and answered and what the
functor had written stays in the transaction; inline, the same exception rolls
the transaction back; BUSY at COMMIT runs the functor of the *transaction*
again, which for the dormant thread is "what is in the queue now".

### ArgosCheckpointer

Two actors. The simulation thread stages values and closes (`SetValueBytes`,
`CloseRecord`), lets time pass (`Advance`) and tears down (`PreTeardown`); the
collector underneath keeps one open ledger per simulation time and sends it on
when it is called at a later one (`Record`). The stager takes a ledger
(`StagerRuns`): each collectable's checkpointer appends what was staged to its
chain (`Loaded`), or a close if nothing was, and says what goes on the wire
(`Sending`); the row is tagged with the clocks of the collectables that sent
something (`NewRow`). The lag of the stager behind the simulation is `inbox`.
Compressor and writer keep the order of what they pass on (that is `InOrder` of
`PipelineThreads`), so a record is a row at once.

| definitions | code |
|---|---|
| `ForceSnapshot`, `HeartbeatRefresh`, `RefreshAbsent`, `NeedsPriming`, `Sent` | the helpers of `CollectableCheckpointer` |
| `Encode` = `EmitAnchor`, `EmitClosed` or `EmitAbsent` | `encodeForPipeline` of the three checkpointers, which are the same code up to the deltas they know |
| `AnchorWire`, `DataBefore` | `encodeForPipeline` of the checkpoints |
| `Apply`, `AfterRow`, `Rebuilt`, `recent` | `DataExtractionHandler`, `BlobIterator.Iterate`, `_fetch_lookback_rows` |

What abstracts data: a collectable's bytes are a value; that `v` has a delta
encoding after `u` is membership in `Covered`; a delta record is the pair it was
made from, and it gives the viewer `v` exactly if the viewer has `u`, otherwise
`Wrong`. `recent[filter]` holds the last heartbeat rows tagged with a clock of
`filter`: everything a look-back at the newest tick can read. Looking back
from an older tick is looking back in the state of that time, since rows are
only appended.

`truth` is what was collected, the reference the viewer is compared with. A
collectable that is both staged and closed at one tick counts as staged: the
stager drops the close on purpose (`ArgosCollector.hpp:441-444`). `EntryPoint::closed_` stays
true all the same, so that a second `closeRecord()` does nothing until another value was staged,
and the viewer goes on showing the collectable as open; `closed` of the model does this too,
and `truth` makes no claim to the contrary.

The heartbeat: `ArgosCollector::setHeartbeat` ignores what it is given and the
collector runs with 1. Checkpointers and viewer are written for any heartbeat,
and so are the model and its theorems; a setup with a larger one is the
contract of those two classes. For it `ArgosAssumption` asks for one staging of a
collectable per window: with more, the newest checkpoint is encoded
against a predecessor of the same window that was never sent.

### PipelineConfig

Single-threaded, but the order of calls is the application's. A pipeline goes
through the four states of `Pipeline.hpp` (`AddStage`, `NoMoreStages`, `Bind`,
`NoMoreBindings`, `TakeQueue`); `Feeds` is what `QueueRepo::finalizeBindings`
makes of the bindings: whose queue each input reads, with the unordered
iteration of `port_bindings_` as a choice when two outputs are bound to one input.
`OpenPipelines` makes the threads in the three ways of `ThreadMerger`: `Unmerged`,
`Merged` (apps in an order `Ranks` leaves open, since the code iterates a map
keyed by pointers), and merging of some apps, which always throws. `Fail` is an
exception of the set-up, after which nothing more is claimed. Of a disabler there is
here the list of stages it is made of, which the manager keeps from one disabler to the
next (`cached`); what disablers and a teardown do to running threads is in
`PipelineThreads`.

### SchemaStore and AppManagers

`SchemaStore` keeps apart what the code keeps apart: `disk` is what is committed,
`work` what the connection sees in its transaction, `schema` the C++ object. A step ends
where a lock, an exception or a crash may fall: `appendSchema` is `Remember`,
`realizeSchema`, `serializeSchema`. `Retry` rolls the file back and leaves memory
as it is, as the code does; `Throw` also ends the call; `StoreCrash` keeps `disk`
only. `AppManagers` drives it: a call that walks over the apps (`createSchemas`,
the three hooks) is one step per app, so that `FileLocked`, `HookThrows` and
`Crash` can fall between two of them, and a retried walk starts again. A hook
inserts one row of its app. `destroyAll` and a second session on the same file
(`OpenExisting`) read the catalogue back.

The second session also appends schemas to the existing file, because the code lets
it: `appendSchema` (`DatabaseManager.hpp:124-129`) does not look at how the file was
opened. The comments at `DatabaseManager.hpp:63-66` and `:119-121` and
`part3-sqlite-interface.adoc:186-193` say that it throws, or cannot be called, on a file
that already existed. The model follows the code, and `CopiesAgree` and `TablesReady` hold
all the same; no run is about the difference.

### RecordQuery and RecordStore

`RecordQuery` has the conversions and the WHERE clause. A `uint64_t` is `Width`
digits of base `Base` (20 decimal ones in the code), and SQLite orders it digit by
digit (`TextLess`); a clause is a set of conditions, or two sets with an AND or an
OR; `Alternatives` is what SQL's precedence makes of the text
`appendConstraintClauses_` writes. `RecordStore` has one table and two threads on
one connection. The writer is a database stage: its functor (`RunStage` to
`CommitStage`) binds values to the statement it keeps and creates records, column
by column or in one shot. `stmt` holds what SQLite holds for it: the bound values,
which of them point to the caller's memory, and whether it was stepped and not
reset. BUSY comes at the first write of a transaction or at COMMIT, which is where
SQLite takes the locks. The user inserts, finds, updates and removes;
`safeTransaction` keeps it out while the writer's transaction is open, but
finding, querying and `deleteResultSet` go without the mutex. A removing call is two
steps, since `sqlite3_changes()` is read after the mutex is released.

After `createRecord(false)` the bindings stay: the next row may keep them all, replace some
of them, or bind every column again, which is what the flag is for
(`PreparedINSERT.hpp:131-147`); within a row a column may be set again as well. The writer's
`wants` is what each row was meant to be. Assumed of the application: a functor sets every
column of its first row, sets values by column or in one shot for a row but not both, and does
not use a statement again after an exception escaped from its transaction; one user thread; released
clauses are not nested in another compound.

### ContainerDeltas

A contiguous container is the sequence of its bins, a sparse one a function on
the indices it has; a bin of a sparse container may have been staged without bytes
(`Vacant`). `ContigDelta` and `SparseDelta` are the classifiers (nothing, a swap, several
swaps, arrivals and departures, full), `Encodable` the assertions of the encoder, `Applied`
what the viewer's handlers do to the bins it shows, `Holds` their assertions. A record keeps
its true counts; on the wire they are bytes, so the viewer reads as many bins as
`Byte` leaves of the count (`ReadOf`), and `ReadAsWritten` says whether it then stops where the
record ends. Around them one container is collected, closed, refreshed and looked at by a
viewer that may be opened at any record. A record that cannot be encoded or is misread ends the
behaviour: an exception ends the stage's thread or the viewer, or the bytes that follow are
taken for other records.

## 3. Runs

| run | question | instance |
|---|---|---|
| `pipeline` | order, freezing, exact flush, teardown, disabler, refinement | 3 stages on 2 threads (two share the database thread), 2 items, 2 disablers, 1 `eval()` |
| `pipeline_live` | do `scopedDisableAll` and teardown return, is everything written? | 2 stages on 2 threads, 1 item, 1 disabler, 1 `eval()` |
| `flush_running` | is everything committed when a flush of running threads returns? (no) | 2 stages on 2 threads, 1 item |
| `database` | isolation, no duplicate or reordered rows, at-most-once functors, preemption, clean shutdown; do `eval()` with a timeout, `close()` and the writer get there? | 2 callers, 1 call each, 2 items, 1 BUSY |
| `eval_returns` | does `eval()` without a timeout return? (no) | 2 callers, 1 call, 1 item |
| `row_lost` | does a retried transaction keep its rows? (no) | 1 item, 1 BUSY |
| `argos_replay` | does the viewer rebuild what was collected, from a look-back and playing forward? | a scalar and a queue; one clock with heartbeats 1, 2, 3; one of two clocks with 1, 2; a clock each with 1 |
| `container_deltas` | does each delta turn the viewer's bins into the collected ones? | queues of up to 5 entries, subsets of 4 bins, of 3 bins with vacant ones; two values; a count byte that wraps at 3 |
| `pipeline_config` | do queues, threads and disablers fit what was built? | 2 apps, up to 2 pipelines of up to 2 of 4 stages |
| `apps` | do schema copies, tables, hooks and strings survive locks, exceptions and crashes? | 2 app types, 2 instances, 2 sessions, 1 BUSY per call |
| `records` | do rows, ids, queries and answers mean what was asked? | 2 columns, 2 inserts, 1 BUSY, 1 removal, 8 queries |
| `retry_invisible` | is a BUSY in the middle of a transaction invisible? (no) | the same |

Properties of the passing runs:

* `InOrder` - read from the table back to the pipeline head, items in threads'
  hands included, the pipeline always holds exactly `1..sent`.
* `FrozenStill` - between the return of `scopedDisableAll(true)` and the
  disabler's release no polling thread is inside a stage.
* `FlushExact`, `TeardownDrains` - when the call returns, everything is a row; of a
  flush under a hard disabler, and of the teardown always.
  Teardown matters because each drain loop stops at its first empty-handed
  `run_`, and an `eval()` that interrupts a round makes it look empty-handed.
* `DisablerRestores` - nothing stays disabled or paused after a disabler.
* `KeepsPromise` - the refinement of `PipelinePromise`.
* `DisableReturns`, `TeardownReturns`, `EventuallyWritten` - liveness.
* `OneTransaction`, `RowsAccounted`, `EvalRan`, `Preempted`, `ClosedDrained`,
  `EvalReturns`, `CloseReturns`, `RowsSettle` - see the comments in
  `DatabaseThread.tla`.

* `ReplayExact` - what the look-back at a collectable's own clock rebuilds is
  what was collected, whenever the newest row of that clock speaks for the
  collectable: with one clock always, with several if it took part in it.
* `Anchored` - that look-back holds a full snapshot, so that neither a run of
  deltas nor a long silence nor a long close outlasts it.
* `PlaysForward` - one row takes the viewer from what was collected before it to
  what was collected with it, also for collectables it says nothing of.

* `Attached` - in a pipeline that runs, a queue has somebody at both its ends
  (but for outputs that share an input, of which all but one write to nobody).
* `StagesRun`, `KindsApart`, `Balanced` - every stage is on exactly one thread,
  except those merging leaves out (all pipelines of an app but the last);
  database stages are on the database thread, which runs nothing else; merged
  threads differ by at most one stage and are as many as the widest app needs.
* `DisablerTakesAll` - a disabler is handed out with every stage that runs then, also when
  an earlier one was taken before there were threads.
* `CopiesAgree` - memory, catalogue and tables agree between calls, and whatever
  crashes fall in between the catalogue never lists a table the file lacks.
* `TablesReady` - when hooks run, the tables their app declared are in the file,
  as declared.
* `HooksInOrder`, `CommittedTogether` - every app's hook, in the asked order, and
  a commit publishes the rows of all of them or of none.
* `StringsSaved` - after teardown every string id has its row.
* `RowsAsGiven` - a committed row reads back as what its call was given, through
  shared, cleared and rolled-back bindings, unless the statement that wrote it was
  left pending by BUSY.
* `HandleTrue` - an id that was handed out and committed never means another row.
* `QueriesSound` - a query selects the rows that were meant, with numbers ordered as numbers;
  more only where an OR stands beside another constraint.
* `RemovalAnswers` - the answer of a removal is what it removed, unless another
  statement came before the answer was read.
* `ShownExact`, `Legible` - a viewer that has shown a container shows what it
  holds as long as records are legible; and a record is legible, upsetting neither an
  assertion nor the reading of those behind it, unless one of its counts does not fit a byte
  or it writes a bin without bytes. Those are misread in the code (`Checkpoint.hpp:399`, `:607`, `:626`,
  `CheckpointDeltas.hpp:238`; containers may have 65535 bins), and the properties say so of exactly those.

`FlushUnfrozen` separates two uses of the same code: the application freezes
before it flushes (`pipeline`), or it also flushes beside running threads
(`pipeline_live`, `flush_running`). Beside running threads an item that a thread has popped and
not yet pushed is in no queue; a flush overlooks it, and may carry later items past it. So
`FlushExact` is about flushes under a hard disabler, however many others there were;
`FlushCommitsAll` is what the book says of every flush, and `flush_running` refutes it; and `InOrder` and
`KeepsPromise` are claimed of applications that freeze first.

### Bounds

`MaxItems`, `MaxDisables`, `MaxEvals`, `MaxCalls` and `MaxBusy` only limit how
often the environment acts. Two items are what it takes for one to overtake
another and for a drain to be interrupted between them; two disablers are needed
for a left-over acknowledgement of the first to satisfy the second; three
stages on two threads give a thread with more than one runnable and an upstream
thread that still pushes while the downstream one is joined; two callers with one call each
let a timed-out task of the one and a new task of the other share a dormant transaction, and the inline path
meet the writer (the safety properties are proved for any number of calls); one BUSY reaches each of the retry paths. Threads and callers
are few and not symmetric (the database thread is special, and so is the main thread), so no
symmetry set is declared. In `ArgosCheckpointer` `MaxTime`, `MaxPerWindow` and
`MaxBacklog` bound the simulation time, stagings per window and ledgers that wait; a
heartbeat of 3 and four ticks let a snapshot, deltas up to the limit and a refresh follow each other, and
a snapshot fall out of a look-back; with the heartbeat of 1 two ticks do, and there two
stagings of a collectable at one tick are allowed. The queue takes two values
with a delta in one direction only, so each kind of record occurs; the
scalar takes one and is there to be silent, closed and reopened beside it. 

Of the newer runs: five entries and two values give every kind of change of a queue,
with repetitions, and four bins every mix of bins that come, go and change. A count byte of
three values stands for one of 256: with it several swaps, removals and departures wrap, to
zero and beyond. Two
pipelines of two stages make one app with two pipelines and two apps with one;
the constraints `OneAtATime` and `LateSettings` take calls in one order that
commute in the code (pipelines share nothing before they are opened), and the two
apps are interchangeable (`SYMMETRY`). In `MCAppManagers`, `Tidy` likewise takes
configuration calls in one order and leaves out combinations of settings that do
not meet; two sessions are what a restart needs, one BUSY per call
reaches each retry. In `MCRecordStore` three binary digits stand for twenty decimal ones: 3 and 4 differ in
their number of digits, which is the case the padding is for; two inserts are
what it takes for one row to inherit another's bindings or id.

TLC
finishes when everything is sent and torn down or a bound is reached, hence
`CHECK_DEADLOCK FALSE` in the runs of `ArgosCheckpointer`, `PipelineConfig`, `AppManagers` and
`RecordStore`, which have no processes that could wait for each other; `ContainerDeltas` ends with
a record that cannot be read. The bound on calls is also why `Finished` is
an explicit stuttering step at the end: everything else that stops is a deadlock
and TLC would report it. (In `DatabaseThread` a caller for whom the
notification was lost is not a deadlock state, since a spurious wake-up stays
possible; the liveness property finds it.)

### Fairness

* Weak fairness for each polling thread, the writer, the dormant thread and
  each caller: the operating system runs a thread that can run. A timed wait
  (`wait_for`) ends by itself.
* A thread blocked on a condition variable is only sure to wake after a
  notification it was there to receive (`woken[t] /\ Unpark(t)`, `notified /\
  DormantWakes`); spurious wake-ups are possible but never promised.
* Strong fairness for taking the transaction mutex and the dormant thread's mutex:
  they are released again and again, and `std::mutex` is assumed not to starve a
  waiter for ever. For the callers' inline path it is assumed of them together only (somebody gets
  in), and for the main thread of its two waits together. Without it nothing about progress could be said of the code.
* Nobody has to submit, call `eval()`, flush, answer BUSY or tear down. A
  disabler is tied to a scope and is released (`SF(ReleaseDisabler)`: strong,
  because a flush inside the scope disables it for a while).
* In `pipeline_live`, `EventuallyWritten` has one stage per thread and one `eval()`
  at most: a continuous stream of `eval()` tasks could starve later runnables of the database
  thread, since each interruption restarts the round (hazard
  `DatabaseThread.hpp:99`).

### What the violations show

1. `eval_returns` - `eval()` without a timeout may block for ever: `notify_one`
   is called without the mutex the dormant thread holds while it tests its
   predicate. The book says `eval` blocks until the callback has run, and that
   a timeout guards against a stuck database thread.
2. `flush_running` - a flush beside running threads returns while an item is in the hands
   of a polling thread: `flush()` (`Flusher.hpp:97`) runs the stages until one pass over their
   queues does no work. `part6-advanced-pipelines.adoc:102` says a flush guarantees that all prior data is
   committed, and `:21` that it has reached the database, neither asking for a disabler.
3. `row_lost` - a transaction of the writer that SQLite answers with BUSY is
   rolled back and run again, but the functor takes *new* items from the queue;
   the rows of the first attempt are gone. `part9-reference.adoc:277` says
   INSERTs need not be retried by hand.
4. `retry_invisible` - when SQLite answers BUSY at a prepared INSERT, the exception
   leaves the statement stepped. The functor is run again, its bindings are
   refused without a word, and the row that is written holds the first attempt's
   values (or freed memory, for values bound without a copy); a one-shot insert
   throws instead. `part3-sqlite-interface.adoc:554-558` says the call does not
   fail and contention becomes invisible.

Two limits of the Argos viewer appear as conditions of `ReplayExact` rather
than as runs of their own: with several clocks a collectable that is silent at a
row of its clock cannot be rebuilt there (`SpeaksFor`), and look-backs over the
clocks of several collectables at once are not covered.

## 4. Proofs

Every safety property of the passing runs, every action property and the refinement of
`PipelinePromise` is a theorem of its specification, for all values of the
constants that satisfy the module's assumption:

| assumption | says |
|---|---|
| `PipelineAssumption` | at least one stage and one thread, every stage has a thread, the last stage is on the database thread, the last thread |
| `DatabaseAssumption` | the main thread is a caller; callers are not the reserved owners of the mutex |
| `ConfigAssumption` | apps and stage names are finitely many; a queue of an input's own is no output's queue |
| `AppsAssumption` | schemas are sequences of tables, no two of a name (`Schema::addTable` refuses the second) |
| `ColumnsAssumption`, `RecordsAssumption` | a column occurs once; digits are those of a base above 1; a value fits the digits of its column; NULL is no number |
| `DeltaAssumption` | contents fit the container's capacity; a bin without bytes, no value and no container are distinct; a count byte has two values at least |
| `ArgosAssumption` | classifiers and setups have their types; a heartbeat above 1 goes with one staging per window |

Conjuncts of the inductive invariants that TLC can evaluate were tried on the run of their
module first. In the order of the modules:

### PipelineConfig_proofs

`QueuesAttached` (`Attached`), `EveryStageRuns` (`StagesRun`), `DatabaseApart` (`KindsApart`),
`MergeIsBalanced` (`Balanced`), `DisablerIsWhole` (`DisablerTakesAll`).

The invariant: `PipesInv` (from `noMoreBindings()` on the bindings of a pipeline are between ports that
exist and each input has its queue), `LifeInv` (threads come with `openPipelines()`, and
nothing is built afterwards) and `ThreadsInv` (once there are threads, the first
w of them divide the polled stages, `Spread` and `Evenly`, and the database thread is
behind them). The work is in `OpenPipelines`. `Unmerged` numbers stages by counting
those before each (`Numbering`: in a finite set with a total order that is a
bijection to `0..n-1`, by the pigeonhole); `Merged` numbers the stages of each app's last
pipeline likewise, for whatever order the apps are visited in, and deals number k to thread
k mod w. `Even` says how many numbers below n leave one remainder or another: shifting by
the distance between two remainders is an injection, but for the first number at most.
`DisablerIsWhole` has an invariant of its own, `CacheInv`: the list kept for disablers is empty or is
what runs, and it is empty as long as there are no threads.

### PipelineThreads_proofs

`TypeCorrect` (`TypeOK`), `FrozenIsStill` (`FrozenStill`), `DisablerRestoresAll` (`DisablerRestores`).

The invariant is `TypeOK`, the loops' cursors (`CursorInv`: a thread
inside a stage has a stage, only a thread at `push` holds an item, threads open
in order), the pause handshake (`HandshakeInv`: an acknowledgement that belongs
to the current pause finds the thread at `top` or `parked`; `stop_requested_`
is only set while closing) and the disabler's bookkeeping (`DisablerInv`:
which stages are off at each point of its two loops, and that they are exactly
`offStages`; which threads are paused, and that they are exactly `offThreads`
plus the one being handled). `FrozenStill` alone is not inductive: it says
nothing of the state just before `scopedDisableAll` returns, where some
threads are paused and acknowledged and others are still running; `ThreadsInv`
says that every thread the constructor has passed is still, and the handshake
that it cannot move again before `resume()`.

### PipelineOrder_proofs

`FlushIsExact` (`FlushExact`) and `TeardownIsComplete` (`TeardownDrains`), for every
application; `ItemsInOrder` (`InOrder`) and `PipelineKeepsPromise` (`KeepsPromise`) for one that flushes under a
hard disabler only (`~FlushUnfrozen`). Without that the last two are false: a flush beside running
threads overtakes the item a thread has in hand.

`WorkInv` carries the first two. `CountInv`: queues and hands hold as many items as were submitted, in
whatever order, since each step moves an item from one place to the next. `InOrder` reads the pipeline through the recursive function `Flow`; the invariant does
without it. `OrderInv`: there are positions such that each queue and each hand holds a run of
consecutive numbers and the runs join (`Ordered`); one lemma then evaluates `Flow` on them.
`HandsInv` says who may hold an item: a thread one of its own stages', the main thread only between the
two halves of a stage it runs, and where the main thread runs stages no polling
thread is inside one - during a flush under a hard disabler because the pipeline is
frozen (`PipelineThreads_proofs`), during teardown because all threads are joined (`JoinInv`).
`DrainInv` is about what the main thread has emptied. Such a flush takes the stages in order, so
what it leaves behind stays empty; the teardown takes them thread by thread and may refill
a queue it has left, but then the pass has done work and another one follows. When every
queue but the last and every hand is empty, `CountInv` says that the table has it all.
For the refinement each action maps to a step of
`PipelinePromise` or a stutter, for which a hand holds one item at most (`OneInHand`).

### DatabaseThread_proofs

`TypeCorrect` (`TypeOK`), `Serialized` (`OneTransaction`), `WriterGivesWay` (`Preempted`),
`RowsKept` (`RowsAccounted`), `EvalRunsOnce` (`EvalRan`), `ClosingDrains` (`ClosedDrained`).

* For the first three: `CallInv` (a caller inside `eval()` has a
  task), `OpenInv` (no dormant thread before `open()`), `OwnerInv` (each actor is
  in its transaction body exactly when it owns the mutex), `CleanInv` (between
  transactions nothing is open) and `LateInv` (how many rows the writer may have
  begun late, by where it is in its round). `Preempted` alone is not inductive: nothing in
  it stops the writer from going on after the first late row.
* `RowInv`: committed rows, open rows, the item in hand and the queue are
  increasing and each before the next; with what rollbacks lost they are `1..sent`, once each.
* `TaskInv`: an answer of "ok" stands behind a functor that wrote; every call has a
  task of its own; a task enters the queue once, and is then waiting, in flight or has
  run, a timed-out one too.
* `CloseInv`: who may still be at work at each step of `close()`. The writer is gone before `stop_` is set
  and the dormant thread leaves an empty queue behind, which stays empty as
  `eval()` then runs on the caller's thread.

### AppManagers_proofs

`TypeCorrect` (`TypeOK`), `HooksFollowOrdering` (`HooksInOrder`), `HooksCommitTogether`
(`CommittedTogether`), `StringsReachFile` (`StringsSaved`), `SchemasAgree` (`CopiesAgree`),
`TablesAreReady` (`TablesReady`).

* `BaseInv`: types, and which call can be under way in which phase.
* `RanInv`: what a walk has called and what is left of it is together the whole order, also
  after a retry started it again.
* `RowInv`: the rows of the session in the file are those of finished calls, and the open transaction
  adds exactly those of the apps walked so far.
* `MarkInv`, `SaveInv`: while a manager lives, each string has its row or is pending, and
  the last walk of a teardown empties what is pending. It has to be known that a second
  manager's opening of the file cannot throw, as strings would outlive it: after the first
  one the catalogue lists SimDB's own tables (`Marked`), so nothing is appended again.
* `NameInv`, `SetInv`, `ReadyInv`: whatever `schema_` has beyond the file is what the append under way has yet to
  bring (`Pending`), or what its retry would bring again (`Retryable`); by name after
  a crash tore the file, table by table otherwise. `CopiesAgree` says this of the end of a
  call only, where nothing is pending.

For this a table of the schema is what declaring and reading back can make of one (`AnyTable`).

### RecordStore_proofs

`RowsReadBack` (`RowsAsGiven`), `IdsStayTrue` (`HandleTrue`), `RemovalsAnswered` (`RemovalAnswers`),
`QueriesSelect` (`QueriesSound`).

* `FileInv` (no row lies above the counter), `StmtInv` (each column of the statement is bound to what the
  writer means for it, is known to be stale, or has not been set for the functor's first row).
* `HandleInv`: an id that was handed out is of the row it was handed out for, in the file
  and in the open transaction, or of none and not above the counter, so no later insertion
  gets it.
* `RemovalInv`: what `sqlite3_changes()` says is the removing call's until another count comes.
* `QueriesSound` rests on the order of stored numbers: `Width` digits compared from the left order two numbers as
  their values do. The digits are those of a loop (a recursive function); the
  proof takes the first place where they differ. It assumes only that values fit.

### ContainerDeltas_proofs

`ContigDeltaExact`, `SparseDeltaExact`: for any two contents, the delta between them is
`Told`: either all of its counts fit their bytes and its bins have bytes, and then applying it to the first
gives the second and passes every assertion (`Takes`); or not, and then it cannot be encoded or the
viewer reads other bins than were written (`Misread`). There is one lemma for each kind of record, as
the classifiers distinguish them, and `CountsAll` and `CountsShort` for what is read of a record
whose count fits and of one whose count wraps. `ShownAlwaysExact` (`ShownExact`) and `AlwaysLegible` (`Legible`)
follow with the invariant `ViewerInv`: while records are legible, what is shown is unknown or is what the
checkpointer's base holds, which is what the next delta is computed against. Nothing is assumed of the size of
containers or of their bins.

### ArgosCheckpointer_proofs

`TypeCorrect` (`TypeOK`), `LookBackAnchored` (`Anchored`), `ReplayIsExact` (`ReplayExact`),
`PlayingStaysExact` (`PlaysForward`).

* `Anchored` speaks of rows only; `Inv` ties them to the checkpointers.
  `OrderInv`: rows, waiting ledgers, the open ledger and the clock are in strict
  time order, so (`SpreadInv`) k rows further on at
  least k ticks have passed, and a snapshot sent within the last heartbeat *ticks* is within the last
  heartbeat *rows*. `ChainInv`: data in a chain and a snapshot sent go together.
  `SnapshotInv`: the row of the last
  snapshot is still read while it is fresh. `FreshInv`: when a row speaks for a
  collectable its last snapshot is fresh, because everything
  `encodeForPipeline` can do ends in a fresh snapshot or starts from one
  (`EncodeSends`, from one lemma for each of its branches). `LedgerInv` carries
  the one-staging assumption to where a delta is made.
* Exactness adds `CollectedInv`: what was collected last is the tip of the chain (`TruthInv`);
  windows are used once and reach the chains in order (`WindowInv`), so that a delta's
  predecessor is the node sent before it; only what was heard of is closed (`CloseInv`).
  Then `TellsExactly`: the records of one row take a viewer that has the previous value to the
  new one, and a row that holds a snapshot does so whatever the viewer had. `PlaysForward` is that.
* `ReplayInv` lifts it to the look-back: a viewer that went through a row with a snapshot and
  followed the rows behind it is right at the last one, whatever it had before (`Tracks`). With
  `Anchored` there is such a row, which is `ReplayExact`.

### Recursion

Recursive functions (`Flow`, the walk of the hooks, the digits of a number, the replay of a
row and of several) are reached without induction over data. Such a definition CHOOSEs a
function that satisfies an equation. Once some function is shown to satisfy it, the chosen one
does, and what follows from the equation for every argument follows because the arguments
that fail would have a least one (`Least`, `Climb`), a fact about a set of numbers that needs no
theorem with an operator parameter.

### Only model-checked

Everything about liveness: `DisableReturns`, `TeardownReturns`, `EventuallyWritten`, `EvalReturns`,
`CloseReturns`, `RowsSettle`. Fairness and ENABLED are not in reach of the prover. And, of course, what the
runs that expect a violation refute.

## 5. Not modelled

* Performance reports, logging, profiling, compression, command lines: no control
  other components depend on.
* In the record interface: doubles and `fuzzyMatch`, blobs, ORDER BY, GROUP BY and LIMIT, stepping through a
  result set while rows change, `EXECUTE`, the number
  `removeAllRecordsFromAllTables` returns, the database dump. In the schema:
  default values, unique columns, how types are spelled.
* Several managers over several files: they share the registrations only.
* The pipeline snooper: callbacks of the application, called on a frozen pipeline.
* A teardown while a disabler is alive, for which nothing holds (`flushRunnables` skips the
  stages that are off); the book's disablers are scoped inside the run loop.
* Stages that call `eval()` from inside a flush: the flush holds the transaction
  mutex and the dormant thread waits for it (listed as a hazard; needs the
  composition below). A second `openPipelines`.
* Argos' notifications, type and enum metadata, queue maxima; range queries of the viewer.
* The GUI of the viewer (presentation), examples and tests (used as evidence for
  how the code is called).

## 6. Plan

1. Proofs of what still rests on reading: that `DatabaseThread` implements a store in which each
   functor is one atomic step (the refinement behind `OneTransaction` and `EvalRan`), and `RecordStore`
   one in which a call is one step, where BUSY does not interfere.
2. Deadlock freedom of `PipelineThreads` and `DatabaseThread` as an invariant (which actor can move in
   which state), the half of their liveness that needs no fairness.
3. `PipelineEval`: composition of `PipelineThreads` with `DatabaseThread` for stages
   that call `eval()` in `run_`, with the flush that can then wait for ever.
4. `PipelineSnooper` over `PipelineThreads`.
