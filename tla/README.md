# TLA+ models of the Spectral Stream engine

Formal models of the stateful parts of this repository: the compression
pipelines and the container file they write, the key/value caches, the readers
and caches of the inference engine, and the server: its request queue, its
model table and its production stack. Each component is a TLA+
module translated from its Python source; TLC checks small instances of it, and
for every component TLAPS proofs establish its safety properties for every
value of the constants. `PROJECT.json` lists, for each definition, the source
lines it stands for.

Run a model with `tlc -config X.cfg MCX.tla` and a proof with
`tlapm XProofs.tla`.

Contents: 1 Inventory. 2 Modules and their correspondence to the code.
3 Runs. 4 Bounds. 5 Fairness. 6 Findings. 7 Proofs. 8 What is not modelled.
9 Plan.

## 1 Inventory

Paths are relative to `src/` of the repository, and `ss/` is short for
`spectralstream/`. Most of the package (some 2900 of 3729 files) is numeric codecs under
`ss/compression/methods`, `advanced` and `cutting_edge`: functions on arrays,
without state. The state and the control of the program are in these parts.

| Part | State | Operations | Talks to | What is hard | What makes it correct |
|---|---|---|---|---|---|
| **SSF container** `ss/compression/engine/streaming/ssd_writer.py`, `ss/format/reader.py` | the `.ssf` file; the writer's in-memory index and position | enter, write_tensor_block, finalize, exit; open, list, get_tensor, verify | written by the pipelines, read by the inference engine | a crash or power failure between any two writes; index only in memory until finalize, and without a checksum of its own | what is listed can be read unless the power failed at one moment; verify() tells a whole file from all others |
| **Streaming pipeline** `ss/compression/streaming/unified_streaming_pipeline.py`, streaming mode | loop position, completed names, totals, failures; checkpoint file | compress_model with or without resume; save and remove checkpoint | the writer through its context manager; the compression engine; a progress callback | resume after kill; errors and interrupts at every step; two files that must agree | no tensor dropped in silence; totals are those of the file; a checkpoint means what it says |
| **RAM pipeline** same file, RAM mode | tables of loaded and compressed tensors, failures | load pool, compress pool, write loop | two `ThreadPoolExecutor`s, then the writer | results in any order; an interrupt that drains the pool; skip or write or fail, once | each tensor in the output or in the failures, never in both; the old output not emptied early |
| **KV cache manager** `ss/kv_cache/manager.py`, `intelligence_engine.py`, `eviction.py`, `compressor.py` | entries, packets, byte counter, tier files, memo of retrieve_all, lock | store, retrieve, retrieve_all, evict, clear, prefetch_upcoming, auto-tune | codecs, eviction policies, files of the SSD tier, any thread of the server | memory pressure changes method and evicts inside a store; a memo read outside the lock; loops under the lock | newest value kept; counter covers the bytes; limit holds; nothing stale served; the lock is given back |
| **Paged KV cache** `ss/kv_cache/paged.py` | free blocks, page table, reference counts, valid rows | allocate, copy on write, write, free, defragment, clear | the prefix manager, the serving engine | a pool that runs out in the middle of a call; pages moved under their owners | each block free or in one page; callers see a plain store of pages |
| **Shared prefixes** `ss/kv_cache/novel.py` | prefixes by hash, tenants' sets, eviction list, byte counter | register, lookup, get_prefix_pages, expire by time or tenant, clear | the paged cache, whose pages it owns | several tables beside one another; a list that forgets on its own; shared ownership | a prefix's pages stay its own; the tables agree; the budget holds |
| **Request queue** `ss/serving/request_queue.py` | heap, futures, counters, active table, semaphore | enqueue, dequeue, process_next, cancel | asyncio tasks, HTTP handlers waiting on futures | expiry, cancel and client disconnect between two awaits; a heap edited in the middle | most urgent first; every waiting client has its request; a future is settled once; counters add up |
| Continuous batcher `ss/serving/api/_continuousbatcher.py`, `_sessionstate.py` | session table, always empty: `add_session` raises NameError (`SessionState`, `HAS_INFERENCE` and `Tokenizer` are neither imported nor set) | add, step, remove | the handlers of `ss/serving/unified_server.py` | | |
| **Model manager** `ss/serving/model_manager.py` | models, byte counter, order of use | load, get, unload, hot_swap | the API server | evictions before a load that fails; a swap put back | the counter is that of the table; at most max_models |
| **Circuit breaker** `ss/serving/production_stack.py` 527 to 747 | state, failures, window of outcomes, probes, lock | call, disable, enable, reset | protected functions, which may call it again | functions run under a re-entrant lock; probes without a verdict; decay against cool-down | the state is earned by the calls; an open breaker does not stay open |
| **Rate limiter** same file, 2251 to 2422 | buckets | check | the HTTP middleware | refill against polling; bursts at window edges | no stretch of time sees more than allowed; a client that polls is served |
| **Degradation and self-healing** same file, 781 to 1055 and 3373 to 3584 | level, policy | monitor and healer rounds, set_level, start and stop of the threads | each other, through the level | both read the level outside the lock and set it inside | the level follows evidence; calm restores it |
| **Service manager** same file, 120 to 526 | service state, stop event, watchdogs, restart counter | start, stop, restart, signals, watchdog | components, the operating system | handlers interrupt the main thread between any two statements; watchdogs of earlier starts; a bounce during a stop; a counter read and written apart; no lock | a running service is watched; restarts are bounded; the state reported is the one the components are in |
| **Prefetcher** `ss/inference/streaming_engine.py`, AsyncPrefetcher | buffer, pending set, reader threads | prefetch, get, wait, close | the container files | readers that die; ring and buffer limits | a layer is read once; only a dead reader leaves one pending |
| **Layer arena** same file, L3DCache | arena, entries, byte counter | store, load, clear | the engine | first-fit between entries of several sizes; a counter that drifts | load returns that layer's bytes; a store ends |
| Radix tree, tiered cache `ss/kv_cache/paged.py` | prefix tree | insert, match, evict | reached only through an import (`batching_engine.py:80`) that fails | splits, shared leaves | |
| Older compressors `ss/compression/engine/streaming_compressor.py`, `ss/format/writer.py` | as the streaming pipeline, other checkpoint | compress, resume | `SSFWriter` | no fsync before rename | as the streaming pipeline |
| Batch engine, SSD tiers `ss/serving/batching_engine.py`, `ssd_streamer.py` | stream queues, tier files | step, put, get | threads of the server | bounded queues; moves between tiers | nobody blocks the worker; an entry is on one tier |
| Agents `ss/agents/` | task queue, agent table, checkpoint | run, checkpoint, stop | the language model | tasks in flight at a checkpoint or a stop | no task lost |
| Codecs, world models, attention, embeddings, fine-tuning, converters, command line | none that outlives a call | numeric work, parsing, printing | | none of the above | numeric accuracy |

The parts in bold type have a module. How they meet:

```
 UnifiedStreamingPipeline ──SSDWriter──> model.ssf ──SSFReader──> AsyncPrefetcher ──> L3DCache
        │  ▲                                                        inference engine
        ▼  │ resume                                                 │
   .checkpoint.json                       KVCacheIntelligenceEngine ─> KVCacheManager ─> tier files
                                          SharedPrefixManager ──────> PagedKVCache
 HTTP handler ──future── RequestQueue ──semaphore── handler ─────────┘
      │  RateLimiter, CircuitBreaker around the call
      └── ModelManager (loaded models)
 ServiceManager: start, stop, watchdogs      monitor, healer ──set_level── GracefulDegradation
```

## 2 Modules and their correspondence to the code

Composition: `SSDWriter` EXTENDS `SSFFile` and implements `Archive`. The two
pipelines are written over `Out == INSTANCE Archive`: their file is the abstract
one, and the refinement, checked in `ssd_writer` and proved, is what entitles them
to it. `SharedPrefixManager` EXTENDS `PagedKVCache` and takes its steps: a prefix
manager's operation is one action of both. `PagedKVCache` implements
`PageStore`. The other components share no state with one another.

An MC module EXTENDS what it runs and says how its instance was chosen. Two of
them hold several components that share nothing: `MCProduction` (circuit breaker,
rate limiter, degradation, prefetcher, arena), whose runs look at liveness, too, and
`MCTables` (paged cache, prefix manager, model manager, service manager), which only
looks at safety and may use symmetry. There each behaviour
follows one of them, named by the variable `focus`, while the others stand
still: for parts that share no variable, a property of one holds in every
interleaving exactly when it holds of that one alone. The proof modules
EXTEND what they are about and `TLAPS`: there is one for each of the first five
runs, `ProductionProofs` and `TablesProofs` for the components of the runs so
named. `Selection` holds `Minus`, a list without some of its elements, which
several components need, and `DataLemmas` what the proofs need of sums over tables
and of such lists. Definitions marked "Mutant" in the modules are
plausible wrong versions of the definition that follows them; no specification
uses them, and each makes one of the properties fail when it takes the
definition's place.

### `SSFFile`, the container and its reader

A file is a record: does it have a patched header, what is in each page-aligned
slot, the index, the metadata, the footer. A tensor's bytes are its own
name; `Junk` is anything else (zeros of an unwritten page, a torn write), and `Zeros`
a name or a checksum read from bytes that never reached the disk.
`Opens`, `ReaderIndex`, `TensorNames`, `Lookup`, `GetTensor` and `Verify` are
SSFReader's operations: a header that does not unpack reads as an empty index, metadata
that begin as a gzip stream and break off raise out of `_open` (`EOFError`, `zlib.error`
are not among what it catches), a name written twice finds its last entry, `get_tensor`
checks the entry's own checksum, `verify` that of every entry and the footer's.

`Survivors` is what a power failure may leave of a file: of each part that differs from
its fsynced content, any portion of the new bytes. What that means depends on the part.
The header is 256 bytes in one sector and is written whole or not at all. A portion of a
block fails the checksum of its entry (`Junk`), a portion of the footer the comparison with
the file. The index has no checksum: a page of zeros parses as an entry without a name,
an entry may keep its name and lose its checksum at the end (`TornEntry`), and any mixture
of these is an index that `TensorIndex.unpack` accepts, next to the one it refuses
(`Torn`). So the reader may list a tensor that `get_tensor` then refuses (`Damaged`).
Two simplifications: a torn entry keeps its offset, since one with zeros for an offset
and a checksum is refused by `get_tensor` all the same; and torn pages do not shift the
boundaries of the entries behind them, which would only add entries of names and checksums
that nobody wrote.

### `SSDWriter`, the writing session

| Variable | Code |
|---|---|
| `phase` | where the session is: `open`, between two steps of `finalize`, or ended |
| `index` | `_index`, a list in memory |
| `tell` | the file position, in pages |
| `cached`, `durable` | the file as processes read it, and as of its last fsync |
| `renewed` | whether the truncation of this session is certain to be on disk |

`Enter`, `WriteTensorBlock`, `WriteFails`, `FsyncBlocks`, `WriteIndex`,
`WriteMetadata`, `PatchHeader`, `WriteFooter` and `FsyncAndClose` are the code's
steps in its order. `FinalizeRaises` is an error out of `finalize` at any of them: the
rest never happens, and the file stays as it is and open (phase `raised`). `Stop` is the
death of the process, `PowerLoss` that of the machine.

### `Archive`, what the file promises

Four variables: `open`, `staged` (blocks written), `listed` (what a reader gets
now), `kept` (what it gets if the power fails). Tensors appear to readers all
at once (`Publish`) and become durable at `Commit`.
`SSDWriter` maps to it with `listed <- Readable(cached)`,
`kept <- Readable(durable)`: what can be read, listed or not. A power failure leaves what
was kept or any part of what is not kept yet (`PowerFails`); a committed file it leaves
alone.

### `StreamingPipeline`, compress_model in streaming mode

A behaviour is up to `MaxRuns` runs over one output path and one checkpoint.
Tensors are numbered in the order of the loop, so `sorted_names[:k]` is `1..k`.

| Variable | Code |
|---|---|
| `ckpt` | the checkpoint file: absent, or how many names it lists and the totals it carries |
| `pc`, `outcome`, `pos` | where the run is, how it ended, the loop's tensor |
| `done`, `processed`, `failures` | `completed_tensors`, `processed`, `report.failures` |
| `credit` | per tensor, how many times its bytes are in `total_orig` and `total_comp` |

`Start(resume)` loads the checkpoint, or ignores it, and opens the output;
`OpenModel`/`OpenModelFails`, `SkipCompleted`, `CompressTensor`,
`CompressFails`, `NotifyFails`, `SaveCheckpoint`, `EndLoop` and `Interrupt` are the loop;
`SyncBlocks`, `PublishIndex`, `CommitFile`, `FinalizeFails` are the writer's `finalize`,
which the `finally` runs on every way out; `RemoveCheckpoint` is the end of a
run that returns. `Kill` and `PowerFails` may come at any step.
Two exceptions leave the file open with nobody to close it, outcome `leaked`: the
model file cannot be opened (`OpenModelFails`, line 384, before the `try`), and
`finalize` raises (`FinalizeFails`). `Drop` is the interpreter, which may close the file
object of the abandoned writer at any later time, or never while something refers to it.
Note `SaveCheckpoint`: the code writes `sorted_names[:processed]`, so the model
keeps `processed`, not the set of names that were really completed.

### `RamPipeline`, compress_model in RAM mode

`task` holds the futures of the pool that is running; `WorkerTakes` and
`WorkerEnds` are its threads, `Collect(t)` one turn of `as_completed`, in any
order. `InterruptPool` is an exception in the main thread inside `with
ThreadPoolExecutor`: leaving the block waits for every future (`draining`,
`Drained`). Only then `OpenOutput`, and the writing loop (`SkipPastEnd`,
`SkipFailed`, `WriteTensor`, `Notify`, `WritingRaises`, `EndWriting`), sealed as above,
and leaked as above when `finalize` raises.

### `KVCacheManager`

A vector is the number of the store call that brought it; 0 is a vector nobody
stored (a prefetch dummy, a placeholder, a packet decoded by the wrong codec).
So "the newest" is a comparison of numbers.

| Variable | Code |
|---|---|
| `cache`, `packed` | `_caches`, `_compressed` |
| `total` | `_total_bytes` |
| `method` | `config.compression_method`, which the engine's auto-tuning changes |
| `ssd`, `disk` | `_ssd_paths` and the files they name |
| `version`, `memo` | `_retrieve_all_version`, `_retrieve_all_cache` |
| `lock`, `pc`, `job` | the RLock's holder, where each thread is, its arguments |
| `latest`, `rewritten` | history, for the properties only |

`Store` up to the limit check is one action, then each pass of the
`while` in `_enforce_limit` is one (`EnforceStep`), so that a pass that frees
nothing is visible as a loop; likewise each removal that `prefetch_upcoming`
makes. `retrieve_all` is three actions: `Probe` (memo, unlocked), `Fetch`
(locked) and `Memoize` (unlocked), as in the code. `AutoTune` takes no lock.
A policy is any choice of entries (`Policy = "any"`), or
`StreamingLLMEviction`'s rule (`"window"`), which may answer "none".

### `PagedKVCache`, the allocator, and `PageStore`, what it promises

| Variable | Code |
|---|---|
| `table`, `next` | `page_table` (block and number of tokens of each logical page), `_next_logical` |
| `free`, `refs` | `_free_blocks`, `_physical_ref_counts` |
| `data` | `physical_blocks`: the rows of each block its `valid_mask` marks |
| `moving`, `moves` | the loop of `defragment`: the sparse pages it has not looked at and how many it may still move |

A call is one action, since one thread makes them, but for `defragment`, which
is one action per page moved (`Defragment`, `MovePage`, `MovesOver`). A call that
finds the pool empty half way leaves what it has made: `PagesMade` makes as many
pages as there are free blocks, as the code's loop does before its
`MemoryError`. Which free block a call takes is left open. `PageStore` has one variable, the
rows of each live page, and four kinds of steps: new empty pages, copies, a write to one
page, pages that go away. `PagedKVCache` maps to it by `page <- PagesRead`,
what `read_page` returns of each page; `defragment` must then be invisible.

### `SharedPrefixManager`

`prefix`, `tenantPrefixes`, `lru` and `memory` are the manager's own tables,
`held` is the copies its clients have, `call` a registration between the
allocation of its pages and their entry in the tables, so that the two halves of
`register_prefix` are `RegisterNew` and `Record`. `RegisterKnown`,
`GetPrefixPages`, `LookupStale`, `CleanupExpired`, `ExpireTenant` and
`ClearPrefixes` are the other operations, `TimePasses` is a prefix's time to
live, `ClientFrees` the client, `PoolDefragments` the engine's `auto_defrag`.
`lru` has a maxlen, as the code's deque has: appending to a full one
forgets its oldest prefix, which then can no longer be evicted (`Appended`).
Prompts are known by the hash of their first 64 tokens, as in the code.

### `RequestQueue`

One action for everything between two awaits. `Enqueue`, `Reject`,
`Dequeue` (with the expired requests it drops from the head), `Acquire`,
`Handled`, `Leave`, `TaskCancelled` are the queue and
`process_next`; `Cancel` and `ClientGivesUp` are the two ways a client leaves;
`Expire` is the passing of a request's timeout. `late` is a set instead of a
clock. The heap is a sequence and any arrangement that `heapq` could leave is
allowed (`Heaps`): the model's results depend on the heap order, not on the algorithm.

### `ModelManager`

One lock is held by each operation, so each is one action. `models` is the
size of each loaded model, `used` their order by `last_used`, `totalBytes` the
counter. `Evicted` says how many of the least recently used go before a load:
by number first, and by bytes only in the same loop. `LoadFails` and the second half
of `HotSwap` are engines that cannot be built: the evicted stay away, the swapped
one is put back.

### `CircuitBreaker`

| Variable | Code |
|---|---|
| `bstate`, `probes` | `state`, `_half_open_probes` |
| `failures`, `sinceFailure` | `consecutive_failures`; the age of `last_failure_time` |
| `recent` | the outcomes in the window, how many of each kind and age |
| `depth` | calls whose function is running, one inside the other |
| `verdictLost`, `reenabled` | history, for the properties only |

`call` is split where it runs the function: `CallClosed`, `CallOpen`,
`CallHalfOpen`, `Reject` and `CallDisabled` are what precedes it, `FnReturns`,
`FnRaises` and `FnInterrupted` (an exception that is no `Exception`) what
follows. The re-entrant lock is held in between, so two threads never overlap,
but a function that calls its own breaker gets in: hence `depth`, and
`Disable`, `Enable` and `ResetBreaker`, by other threads, only at depth 0.
Time stamps are kept as ages, and `TickBreaker` makes them older. `Decayed` is
`_check_decay`.

### `RateLimiter`

One bucket of any of the three algorithms; the limiter's lock makes each check
one action (`TakeTokens`, `RefuseTokens`, `EnterWindow`, `RefuseWindow`).
`Refilled` is `refill` of the token bucket, which waits for a whole period, and
`leak` of the leaky bucket, which does not. `grants` is history: what was let
through, by age.

### `GracefulDegradation`, with the healer of `SelfHealingSystem`

Two threads run rounds: `Measure`, then `ReadCalm`, `MonitorAsks` or
`HealerDecides`, which read the level without the lock, then `EnterSet` and
`LeaveSet`, `set_level` with it. `MonitorAsks` is one action per comparison,
since the code reads `self.level` anew in each `elif`. `StartWatcher` and
`StopWatcher` start and stop the threads, which see their event only between
rounds; `SetByHand` is an operator, `PressureChanges` the load. `evidence` is
history: how many reasons were found.

### `ServiceManager`

| Variable | Code |
|---|---|
| `svc`, `running`, `stopEvent` | `state`, `_running`, `_stop_event` |
| `components` | what was started or stopped last |
| `caller`, `thenStart` | the statement of `start`, `stop` or `restart` that the main thread and the signal handler have come to; whether a start follows the stop |
| `watchdog`, `tally`, `spawned` | the statement each watchdog thread has come to; what its `+=` has read; how many there are |
| `aged`, `windowOver` | `watchdog_timeout` has passed since the start, `restart_window` since the first restart |
| `restartCount` | `_restart_count`; the counts beyond the limit are one value |
| `bounces`, `raced` | history: automatic restarts in this window; two watchdogs were in `_check_restart_rate` at once |
| `crossed` | history: a call cut into another or a stop into a bounce, and no start has had the service to itself since |

No lock guards the state, so every statement that reads or writes it is an action.
`Start`, `StartGoesOn` and `Spawn` are `start`: the assignments of lines 338 to 341, the
components, the announcement, the thread. `Restart`, `Stop` and `StopGoesOn` are
`restart` and `stop`, called by the main thread (`MainStops`) or by a handler (`Signal`,
`HandlerStops`). A handler runs in the main thread, which stands still meanwhile
(`Alone`), but may have stopped between any two of those statements.

Each start makes one more watchdog, and those of earlier starts end only when they
look. `WatchdogLooks` is the loop: its condition, the look at `_running` after the sleep,
that at the state, that at the time, each a step; `Crash` the write of CRASHED;
`CheckRestartRate` the statements of that function one by one, the read, the write and the
comparison of `_restart_count += 1` apart; `Bounce` the rest of `_handle_crash`, which
does not look whether the service was stopped in the meantime.

### `AsyncPrefetcher` and `L3DCache`

`AsyncPrefetcher`: `Prefetch` starts a reader thread, `ReadEnds` is its locked
end, `ReadFails` its death when both ways of opening the file fail, after which
the layer stays in `pending`; the engine's thread takes layers
(`GetPrefetched`), waits (`WaitPending`, `WaitOver`) and closes. `Trimmed` gives
up the lowest layers, not the oldest, as `_buffer_max` is applied in the code.

`L3DCache`: the arena byte by byte, each byte known by the layer it was stored
for. `StoreStarts`, `EvictOldest` for each turn of the loop, and `StoreEnds`,
which places the layer in the first gap that is large enough, are `store`;
`LoadLayer` and `ClearArena` the other operations. Storing a layer again
counts it again and forgets its former place, as the code does.

## 3 Runs

State counts are distinct states. The runs marked *refutes* check one
statement of the repository's documentation, comments, messages or tests, which TLC
shows to be false of the code; see section 6.

| Run | Configuration | Checks | Shows |
|---|---|---|---|
| `ssd_writer` (709,073) | `MCSSDWriter.cfg` | `ListedIsReadable`, `VerifiedIsWhole`, `TornOnlyInTheWindow`, `ImplementsArchive` | With errors, a finalize that raises, kills and power failures between any two writes, and the path used again after them: every entry of the index that is whole has its block; a file that lists what cannot be read, or cannot be opened, comes only from a power failure between the patch of the header and the last fsync; `verify()` tells such a file and every unfinished one from a whole one. The writer implements the abstract archive. |
| `pipeline` (312,664) | `MCStreamingPipeline.cfg` | `EveryTensorAccounted`, `FreshRunIsComplete`, `CleanCheckpointIsTrue`, `FreshTotalsMatchFile`, `FileIsClosed` | Three runs, fresh or resumed, with failing tensors, raising callbacks, interrupts and crashes: nothing is dropped in silence, a fresh run without failures has all of the model in its file, totals and file agree whatever raised, and every opened output is closed but for the two exceptions that leak it. |
| `ram_pipeline` (73,597) | `MCRamPipeline.cfg` | `EveryTensorOnce`, `OldOutputSurvives`, `RunEnds` | In whatever order the pool's futures end, each tensor is in the output or in the failures and not in both; the former output survives everything that happens before all is compressed; every run ends. |
| `kv_cache` (557,386) | `MCKVCacheManager.cfg` | `TypeOK`, `NewestIsKept`, `MemoryBounded`, `ServedIsNewest`, `StoreReturns` | One thread, two layers, three stores, all methods, tiering, evictions from the busiest layer, clears, prefetches and tuning: the stored values, the packets, the tier and the counter stay consistent, and every store gives the lock back. |
| `request_queue` (112,995) | `MCRequestQueue.cfg` | `HeadIsFirst`, `NobodyForgotten`, `StatsAreTrue`, `OneOutcome`, `Acquires` | Two tasks, one permit, three requests that expire, are cancelled, abandoned or lose their task: the most urgent stays first although `cancel` removes from the middle, nobody who waits is lost, and futures are settled once. |
| `production` (96,466) | `MCProduction.cfg` | `TypeOK`; breaker: `StateIsEarned`, `OpenEnds`; limiter: `RateHolds`, `LimiterServes`; degradation: `LevelNeedsEvidence`, `CalmRecovers`; prefetcher: `ReadOnce`; arena: `LoadsWhatWasStored`, `StoreFinishes` | Five parts with threads, timers or loops under a lock, one per behaviour. |
| `tables` (1,577,287) | `MCTables.cfg` | `TypeOK`; pages: `BlocksConserved`, `IsPageStore`; prefixes: `PrefixPagesLive`, `TablesAgree`; models: `ModelsAddUp`; service: `WatchedWithinBudget`, `StateIsTrue` | Three tables and who uses them, and the lifecycle of the service, one per behaviour; the properties of the pages are checked with the prefix manager on top, too. |
| `ssd_writer_crash` | `MCSSDWriterCrash.cfg` | `BlockSurvivesCrash` | *refutes* |
| `pipeline_resume` | `MCStreamingPipelineResume.cfg` | `ResumedTensorsAreInOutput` | *refutes* |
| `kv_window` | `MCKVCacheWindow.cfg` | `StoreReturns` | *refutes* |
| `kv_threads` | `MCKVCacheThreads.cfg` | `ServedIsNewest` | *refutes* |
| `kv_decode` | `MCKVCacheDecode.cfg` | `DecodesWithItsMethod` | *refutes* |

The type invariants of `SSDWriter`, of the two pipelines and of `RequestQueue`
are proved for every instance (section 7) and therefore not repeated in the runs.

Some properties are worded with care because the code does less than one would
wish; the exact wording is what the code achieves.

- `EveryTensorAccounted` counts a tensor that a resumed run skips as accounted
  for by its checkpoint, not as present in the output. That it is not there is
  the finding of `pipeline_resume`.
- `CleanCheckpointIsTrue` speaks of runs without a failed tensor and without a
  resume. With a failure it is false: line 503 writes `sorted_names[:processed]`,
  so that a failed tensor counts as completed and a later, completed one does not.
- `ListedIsReadable` speaks of the entries of the index that are whole. An entry may itself
  be torn, and then its tensor is listed and cannot be read; `TornOnlyInTheWindow` says
  when that happens, and `VerifiedIsWhole` that `verify()` never accepts such a file.
- `FreshTotalsMatchFile` is about what raised after a block was written: such a tensor is
  in the file, in the totals and among the failures.
- `FileIsClosed` excepts the outcome `leaked`, that is the two exceptions that no `finally`
  covers; all else that may be raised, the callbacks and interrupts included, reaches
  `finalize`.
- `MemoryBounded`: the counter covers the bytes, and the limit holds between
  operations. The first is an inequality once a position has been stored twice:
  the code adds the new bytes and does not subtract the old, so the counter
  drifts up.
- `ServedIsNewest` allows 0, a value nobody stored: prefetching fills positions
  with dummies, and a packet decoded by the wrong codec comes out as garbage. It
  says that no *older* vector is served, and that no cached position is missing.
  It does not say that an evicted entry is gone from the memo: eviction does not
  change the version, and the memo goes on serving it.
- `NewestIsKept` includes that no packet and no file of the tier is left without
  its entry. Its proof shows that the SSD tier never serves anything: `evict`
  forgets the tier's copy with the entry, so a position found there is always
  still in memory.
- `NobodyForgotten` excepts `abandoned`: `process_next` catches `Exception`, and
  a cancelled task raises `CancelledError`, which is none. The request it held
  is answered by nobody; until then the property names exactly those.
- `OldOutputSurvives` excludes the step of a power failure itself.
- `StateIsEarned` excepts `enable()`, which closes the breaker with the
  failures it has, and lets a half-open breaker stay so only after a probe that
  gave no verdict. That such a breaker may then have used up its probes and
  reject all calls until `reset()` is what the code does.
- `WatchedWithinBudget` bounds the automatic restarts, it does not say they are
  needed: the watchdog takes the time of the start for that of the last sign of
  life, so that a healthy service is bounced once `watchdog_timeout` has passed. It excepts
  a window in which two watchdogs were in `_check_restart_rate` at once (`raced`): both
  may then read the same count, one restart is lost from it, and the components are
  restarted once too often. And it excepts a service that goes on running with its stop
  event set, which is what a signal between lines 339 and 340 leaves: its watchdogs end.
- `StateIsTrue` excepts `crossed`: a signal that cut into a call, and a stop that found a
  watchdog past its look at the state. Such a watchdog goes on to say CRASHED and RUNNING of
  a stopped service and to start its components. The property says that nothing else makes
  the state a wrong one, a watchdog that slept through any number of stops and starts
  included, and that the next start that has the service to itself puts things right.
- `ReadOnce` counts the layers that stay pending for ever: they are as many as
  the readers that died. `wait_pending` then never returns,
  and `ring_depth` of them end all prefetching.
- `StoreFinishes` excepts a counter that has drifted: a layer stored twice is
  counted twice, and when nothing is left to evict the loop of `store` does not
  end.
- `ModelsAddUp` bounds the number of models and not their bytes: the memory
  limit is looked at only while the number is at its limit.

## 4 Bounds

| Bound | Where | Why it is enough |
|---|---|---|
| 2 tensors, 3 pages | `SSDWriter` | a name can be written twice, a page can be lost after a failed write, and a second session can be shorter than the first; more pages only repeat these |
| 4 tensors, interval 2, 3 runs | `StreamingPipeline` | two periodic checkpoints in one run, a failed tensor before and after each, a resume from a resumed run's checkpoint |
| 3 tensors, 2 workers, 2 runs | `RamPipeline` | a future queued behind two running ones; the second run finds an output to lose |
| sizes 256 / 3, limit 512 | `KVCacheManager` | one uncompressed entry is at the first threshold of pressure, two at the limit; compressed ones add little, so both sides of each threshold are reached |
| 2 layers, 3 positions, 3 stores, `Floor` 1 | `kv_cache` | a store over a cached position and one over an evicted one, eviction of more than one entry, a busiest layer that is not the one stored to; the code's floor of 4 entries would only need more positions |
| 2 threads, 2 stores | `kv_threads` | the race needs one store between a fetch and its memo |
| 3 requests, 2 priorities, 2 tasks, 1 permit, 1 refusal | `RequestQueue` | a heap with an inner element to remove; a task waiting for the semaphore while another handles; the queue at its limit |
| threshold 2, volume 3, rate 50 %, 2 probes, depth 2, decay 2, cool-down 1, window 2, ages to 7 | `CircuitBreaker` | both ways to open; a decay of one and of several periods; a probe inside a probe; ages above the sum of all periods are alike; `MaxFailures` and `MaxRecent` 3 pass the thresholds |
| capacity 3, rate 1, period 2, span 2, costs 1 and 2, horizon 5 | `RateLimiter` | a refill that a refused call must not put off, a request dearer than what is left; a horizon of two windows and more |
| 4 levels, 2 thread starts, 1 change by hand | `GracefulDegradation` | the two rounds can overlap anywhere; a thread can be stopped and started before it has ended |
| 2 starts, 2 restarts per window, 1 signal | `ServiceManager` | two watchdogs at once in every statement of theirs, a handler between any two statements of a start or a stop, a bounce over a stop; the budget is reached and passed |
| 4 layers, ring 2, buffer 2, 1 read error | `AsyncPrefetcher` | buffer and ring both full, one of the ring's places lost for ever |
| arena of 3, 3 layers, sizes 1 to 4 | `L3DCache` | gaps before, between and behind entries; an entry too large for any gap although the bytes would do; one larger than the arena |
| 4 blocks, 5 pages, 2 rows, 2 tokens (pages of 4) | `PagedKVCache` | calls that run out half way; pages that are less than half full while under 30 % of the blocks are free, which takes all four |
| 3 prompts of 1 and 2 pages, 2 tenants, 2 prefixes in the list, budget 3 | `SharedPrefixManager` | a third prefix that pushes one off the list; a shared prefix; a registration that evicts itself |
| 4 models, 3 places, memory 3, sizes 0 to 2 | `ModelManager` | an eviction by number that goes on by bytes; a failed swap |

`MaxRuns`, `MaxBlocks`, `MaxStores`, `MaxRequests`, `MaxRejected`,
`MaxFailures`, `MaxRecent`, `MaxDepth`, `MaxAge`, `MaxByHand`,
`MaxThreadStarts`, `MaxStarts`, `MaxSignals`, `MaxReadErrors`, `MaxPages` and
`MaxTokens` bound what is unbounded in the code, each
in the guard of one action or as the last of several alike (`MaxAge`).
`PagedKVCache`'s `MaxPages` counts pages ever made since the last `clear`.

`CHECK_DEADLOCK FALSE` stands in `MCProduction.cfg` and `MCTables.cfg` only: there a
followed part may really stop, because its bounded counters are used up, or
because the engine waits for a layer whose reader died. In the other
configurations every state has a next one. `MCTables` uses symmetry over
blocks: everything it checks is a safety property.

## 5 Fairness

- `StreamingPipeline`: `WF_vars(RunStep)`. A run that is neither killed nor cut
  off by a power failure takes its next step; it waits for nobody. `FileIsClosed`
  needs no more, since `Kill` and `PowerFails` close the file themselves. `Drop` has no
  fairness: nothing says when the interpreter lets go of a writer.
- `RamPipeline`: `WF_vars(PoolStep)` and `WF_vars(MainStep)`. Worker threads run
  while there is a queued or running future, and the main thread returns from
  `as_completed` when one is done. Interrupts, kills and `Drop` have no fairness.
- `KVCacheManager`: `WF_vars(LockedStep(t))` for each thread. A thread that holds
  the lock continues: nothing it does under the lock waits. No fairness is
  assumed for threads to ask for the lock. The counterexample of `kv_window` is
  found under this fairness: the thread does continue, for ever.
- `RequestQueue`: `SF_vars(Acquire(k))`, since `asyncio.Semaphore` wakes its
  waiters in order and a waiting task is therefore not passed for ever; and
  `WF_vars(Handled(k))`, handlers end. The second is an assumption about the
  handlers: the code sets no limit on them.
- `CircuitBreaker`: time passes, functions that were called end, and clients go on
  calling an open breaker (`WF` on `CallOpen \/ Reject`). Without calls an open
  breaker stays open: the code has no timer, only `call` looks at the cool-down.
- `RateLimiter`: time passes, and a client that would be let in again and again
  asks in such a moment some time (`SF` on `Grant`). That is polling; when
  refusals put off the refill, as in the mutant, no such moment comes.
- `GracefulDegradation`: a thread's round goes on (`WF` on `Round`), and the lock of
  `set_level` is not withheld from a thread for ever (`SF` on `EnterSet`); its
  holders release it at once.
- `L3DCache`: a store that was started goes on, since it holds the lock.
- `ServiceManager`, `AsyncPrefetcher` and the parts of `MCTables`: none; their
  properties are of safety.

## 6 Findings

1. **A block does not survive a crash** (`ssd_writer_crash`).
   `ssd_writer.py:110` says "The block is flushed immediately so it survives
   crashes up to this point". The bytes do; the index that names them is in memory
   until `finalize`, and the reader finds a zero header.
2. **Resuming loses the finished tensors** (`pipeline_resume`). The run skips
   what the checkpoint names (`unified_streaming_pipeline.py:382`), but its
   writer has opened the output with `"w+b"` (`ssd_writer.py:83`). The sealed
   result lacks them, and totals and message count them.
3. **A store that never returns** (`kv_window`). `_enforce_limit`
   (`manager.py:619`) loops until enough is freed; `StreamingLLMEviction`
   answers -1 while its window is not full, `evict` then frees nothing, and the
   loop goes on with the lock held.
4. **A stale result under a new version** (`kv_threads`). `retrieve_all` fetches
   under the lock and reads the version after it (`manager.py:385`). A store in
   between makes the old result valid until the next store.
5. **Decoding with another codec** (`kv_decode`). `retrieve` decodes with the
   method selected for the pressure of now (`manager.py:322`);
   `compressor.py:98` documents it as the "method name used during compress".

The notes under section 3 name what else the code does less well than one
would wish, where no text of the repository says otherwise.

## 7 Proofs

11341 proof obligations in eight modules, all checked by `tlapm` to the last
leaf. Nothing is assumed but the named assumptions on the constants that each
module declares, such as `Interval \in Nat \ {0}`, `Junk \notin Tensor` or
`IsFiniteSet(Block)`, and the hypotheses that three theorems about the cache
state: `EntriesFit`, `OneThread` and `Policy = "any"`. TLC evaluates the
assumptions in the runs. Otherwise the theorems hold for every number of tensors, pages,
requests, workers, threads and runs.

Every safety property that a passing run checks is proved: the invariants, the
action properties and both refinements.

| Module | Theorem | Says |
|---|---|---|
| `SSDWriterProofs` | `TypeCorrect`, `ListedReadable`, `VerifiedWhole`, `TornInTheWindow`, `ImplementsTheArchive` | `[]TypeOK`, `[]ListedIsReadable`, `[]VerifiedIsWhole`, the action property `TornOnlyInTheWindow`, and the refinement `ImplementsArchive` |
| `StreamingPipelineProofs` | `TypeCorrect`, `Accounted`, `FreshRunComplete`, `FreshTotals`, `CleanCheckpoints` | `[]TypeOK`, `[]EveryTensorAccounted`, `[]FreshRunIsComplete`, `[]FreshTotalsMatchFile`, and the action property `CleanCheckpointIsTrue` |
| `RamPipelineProofs` | `TypeCorrect`, `TensorOnce`, `FormerOutputSurvives` | `[]TypeOK`, `[]EveryTensorOnce`, and the action property `OldOutputSurvives` |
| `KVCacheManagerProofs` | `TypeCorrect`, `NewestKept` | `[]TypeOK`, `[]NewestIsKept`, for any number of threads, layers and positions, any policy and limit |
| `KVCacheManagerProofs` | `BoundKept` | `[]MemoryBounded`, when an entry fits into what enforcing the limit leaves free (`EntriesFit`) |
| `KVCacheManagerProofs` | `ServedNewest` | `[]ServedIsNewest`, for one thread (`OneThread`) |
| `KVCacheManagerProofs` | `EveryPassFrees` | with a policy that may name any entries, each pass of the loop in `_enforce_limit` removes one at least |
| `RequestQueueProofs` | `TypeCorrect`, `HeadFirst`, `NobodyIsForgotten`, `StatsTrue`, `SettledOnce` | `[]TypeOK`, `[]HeadIsFirst`, `[]NobodyForgotten`, `[]StatsAreTrue`, and the action property `OneOutcome` |
| `ProductionProofs` | `StateEarned`, `RateIsHeld`, `LevelEarned`, `LayersReadOnce`, `LoadsTheStored` | of the breaker `[]StateIsEarned`, of the limiter `[]RateHolds`, of the degradation level `[]LevelNeedsEvidence`, of the prefetcher `[]ReadOnce`, of the arena `[]LoadsWhatWasStored` |
| `ProductionProofs` | `EveryEvictionFrees`, `StuckByDrift` | each pass of the arena's `store` evicts an entry, and `[](Stuck => usedBytes > SizesOf(entries))` |
| `ProductionProofs` | `ProductionTypeCorrect` | `[]TypeOK` of the five parts |
| `TablesProofs` | `PagedTypeCorrect`, `BlocksAreConserved`, `ImplementsPageStore` | `[]PagedTypeOK`, `[]BlocksConserved`, and the refinement `PagedSpec => IsPageStore` |
| `TablesProofs` | `PrefixPagesAreLive`, `ManagerTablesAgree` | `ManagerSpec => []PrefixPagesLive`, `[]TablesAgree` |
| `TablesProofs` | `WatchedAndBounded`, `StateReportedIsTrue` | `ServiceSpec => []WatchedWithinBudget`, `[]StateIsTrue` |
| `TablesProofs` | `ModelBytesAddUp` | `ModelsSpec => []ModelsAddUp` |
| `TablesProofs` | `TablesTypeCorrect` | `[]TypeOK` of the three tables and the service manager |

Each module proves `Init => IInv`, one lemma per action or group of actions
`IInv /\ A => IInv'`, a lemma that combines them over `Next`, and `Spec =>
[]IInv`, from which the theorems follow.

**The hypotheses.** `EntriesFit` says that an entry, with its vectors or without,
is at most four fifths of the limit. Without it `MemoryBounded` is false:
`_enforce_limit` aims at the counter less 80 % of the limit, which is within
the limit only if the store brought no more than those 80 %. With `Full = 24`,
`Stub = Limit = 12` and `Floor = 0` TLC finds a third store that begins its loop at
36 bytes, aims at 27 and stops at 24. In the code an entry is a vector of keys and
one of values, and the limit is counted in gigabytes. `OneThread` is needed
because two threads break `ServedIsNewest`, which is finding 4, and `Policy = "any"`
because the window policy may name no entry, which is finding 3.

**DataLemmas.** The byte counters are compared with sums over tables, the community
modules' `SumFunctionOnSet`. An induction on finite sets is not available as a
rule with a formula for a parameter; but a well-founded order has least
elements, and each lemma takes the least number (`LeastNumber`) or a least
subset (`LeastSubset`) for which it would fail. `SumTakeOut` is the law
everything rests on: any element of the set may be the one that is added
last, although the sum itself chooses its order. From it come `SumOfParts`,
`SumWithout` and `SumChange` (what the sum is when one entry changes), which
is the form in which the proofs use it. `MinusFacts` says of a list what
`Minus` leaves: its length, its elements, each once if they were there once,
and those of one end.

**SSDWriter.** `ListedIsReadable` is not inductive: a power failure replaces the
file by a mixture of two contents, so the index of one could meet the blocks of
the other. The strengthening says why it cannot: the index in the file and the
index that is durable are each good on their own (`IndexIsGood`: every entry that is
whole has its block), the one in memory points only below `tell` and to blocks that are
there (`SessionIsGood`), and once a session has fsynced its blocks are durable while
before it has no index in the file (`BlocksBeforeIndex`). `SurvivorFacts` is the lemma
about the mixture, torn entries included. `VerifiedIsWhole` takes a second invariant,
`SealInv`, that says for each phase of `finalize` which regions already hold their
final content, and of the footer that, if there is one, it is the checksum of a body that
was whole: a mixture that `verify()` accepts is therefore the sealed file itself.
`WindowInv` is the third: outside the window a header on the disk has all it points to
there, so that `Survivors` leaves nothing torn under it; `TornOnlyInTheWindow` follows
step by step. For `ImplementsArchive`, what a reader gets from a file with a good and
whole index is the set of names in the index (`GoodIsReadable`), and until the header is
patched it gets nothing. Hence only `PatchHeader` publishes, and a block's write is the
archive's `Stage`. A power failure leaves less than there was (`LessIsReadable`: what a
torn index lets a reader get is part of what the whole one did), or what was durable,
according to which header survives: the archive's `PowerFails`.

**StreamingPipeline.** `IInv` is the conjunction of `TypeOK`, `FileInv` (which
archive state goes with which place of the run), `LoopInv` (every tensor before
`pos` has been staged, has failed or was skipped, nothing from `pos` on is
staged, and `processed` has not overtaken `pos`), `CreditInv` (a tensor is
credited at most once per run, which bounds what a chain of checkpoints can
carry) and `FreshTotalsMatchFile`, which is inductive with the others. `LoopInv`
at the end of the loop gives `EveryTensorAccounted`. `CleanInv`, inductive relative
to `IInv`, says that a run that neither resumed nor failed has counted every tensor
it has taken; with `LoopInv`, what is staged when it saves a checkpoint is
`1..processed`.

**RamPipeline.** `PoolInv` says that while a pool works, a future has been
collected exactly when its tensor is in a result table or among the failures;
`WriteInv` that afterwards the two partition the model and the loop has written
the compressed ones before `pos`; `IdleInv` ties outcome and place.
`OldOutputSurvives` follows from `IInv` step by step: `PoolInv` at the end of
compression is what makes `OpenOutput` legal.

**KVCacheManager.** `Agree` is `NewestIsKept` of one layer as a relation of its
four tables, with one conjunct more: every position in the cache has a value
stored last. That is what makes it inductive, for without it an entry could
appear that nobody stored. `WithoutAgrees` and `InsertAgrees` show that the two
ways in which the code touches the tables, removing positions and putting one,
keep it; every action is one of them. `LoadAgrees` shows that a load from
the tier brings nothing back.

*Types.* `Control` ties the lock to the place of each thread and the place to the
job it has. `Rooms` is what the types need of `prefetch_upcoming`: it stores
beyond the last cached position, so each layer it has still to come to must have a
position left.

*Memory.* `MemoryIInv` follows the counter through the loop of `_enforce_limit`.
While a thread is in it (`Enforcing`), its target is within the limit, or no layer has
an entry to spare, or there is exactly one such entry and the counter is still above the
target, so that the loop goes on and takes it (`OneOver`). The third case is why
the hypothesis is needed, and why the invariant is not `MemoryBounded`
itself. `Calm` is what remains when the loop is left. That the counter covers the bytes, and
is exact until a position is stored twice, goes from step to step by `BytesPut`,
`BytesWithout` and `MemoryOfChange`.

*Served.* `ServedIInv` says that no memo is of a later version than the manager,
that one of its own version is `Good` for its layer, and that what a thread has probed
covers what is cached and what it has fetched is `Good`. The last is what a
second thread's store would break.

*Progress.* `EveryPassFrees` is the safety half of `StoreReturns`: entries are finitely
many, a pass that does not end the loop removes one, so the loop ends. With
the window policy, which may answer -1, it is false, which is finding 3.

**RequestQueue.** `OwnersInv` says that a request has one owner, the queue or one
task, and that nothing is settled before it comes; with `QueueInv`, the heap
order between each element and the one at half its position, and the two
conjuncts of `StatsAreTrue` it is inductive. `HeadIsFirst` follows without
induction over the heap: if some element were before the first, take the
least position at which there is one; the element at half that position comes no
later, which contradicts the choice.

**CircuitBreaker.** `HalfOpenNeedsLostProbe` speaks of the states between calls
only. `FirstProbeRuns` carries it through them: a half-open phase that has lost no
verdict has had one probe, and its function is still running, so the one
function that ends decides.

**RateLimiter.** What was granted in a stretch of time is not all that counts: tokens
that are there, and those the time since the last refill will add, could be granted
at once. `BucketCovers` puts the two together (`Potential`) below what is allowed; a
grant moves tokens from one to the other, a tick adds a rate to both sides.
The sliding window has no tokens. `WindowRemembers` says that the
requests it still knows are the grants of its span, one by one, and
`WindowsHold` that no stretch of the history as long as the window has more than
the capacity; a longer stretch is cut into windows (`CutInTwo`).

**GracefulDegradation.** That the level is covered by the evidence is not inductive:
a thread that has read the level and not set the next may be overtaken. `Covered` says
it of the level and of each level about to be set, and of both with the reasons
that are found and not yet used up (`AllDue`) added. A measurement adds as much
to one side as to the other, a decision turns one of what is due into one level, and a
setting moves the level to a value that was covered already.

**AsyncPrefetcher, L3DCache.** `ReadOnce` and `LoadsWhatWasStored` are inductive with
the types. The least layer that `Trimmed` forgets, and the first slot that a store
takes, exist because a set of numbers has a least one (`LeastNumber`). For the type
of the counter `ArenaMore` says that it covers the sizes of the entries, the order of
last use naming each once. `EveryEvictionFrees` and `StuckByDrift` are the safety
half of `StoreFinishes`: the loop takes an entry each time, and when none is left,
the store fits unless the counter has drifted.

**ServiceManager.** `Guarded` strengthens `Watched` to the states in the middle of a
call: while `running` and the stop event is clear, a watchdog is there or a start is past
its `clear()`. `RoomLeft` says that starts and watchdogs are counted alike, `Unmade` that
there are none beyond those counted. `Counted` carries the restart limit through the
statements of `_check_restart_rate`: as long as at most one watchdog is in it, the
restarts granted are among those counted, one less while it compares; only between the
two writes that begin a new window (`reset`) the count may be below. `Serial` is for
`StateIsTrue`. While nothing has crossed there is one call at a time (`OneCall`), and
`Holds` says for each statement it may have come to what is true there: a stop has
found no watchdog past its look at the state (`NobodyActs`), and as long as the state is
not RUNNING none passes it; a service that is on has its components up, or a bounce is
about to start them (`Provided`). `WatchdogKeeps` is one lemma for all steps of a
watchdog but for the counts.

**PagedKVCache.** The conservation of blocks is inductive with the types. The
refinement takes `TokensAreRows`: a page has as many tokens as its block has
valid rows. `MovePage` copies the page's tokens and not the block's rows, and
would cut rows off otherwise. With it, each of the allocator's
steps is mapped to one kind of step of `PageStore`: allocation to `Alloc`, a
copy to `Copy`, a write to `Write`, `free_page` and `clear` to `Free`, and the
steps of `defragment` to none.

**SharedPrefixManager.** `Apart` is `PrefixPagesLive` of any table of prefixes, so
that it can be said of the table in the middle of `Record`, when the new prefix has
joined it and none is evicted yet. `CallInv` says that the pages of a registration
in progress are live and nobody's, and `held \subseteq 0..(next - 1)` that a new page
never has the number of a copy that some client still holds, even of one it has freed.
`DropPreserves` is one lemma for evictions and all expirations: it holds of
any set of registered prefixes, so that it does not matter which ones
`_reduce_memory` picks.
`AccountIInv` adds to `TablesAgree` that the list names registered prefixes only,
each once: that a prefix which fell off the list stays counted is what `_evict_lru`
then meets, and the sum over those that stay registered is still the counter.

**ModelManager.** `ModelsIInv` says of the order of use that it lists each loaded model
once. Hence the models evicted by number and bytes, a prefix of that order, are
distinct, and their bytes are the sum over them that the counter loses.

Only model-checked are the liveness properties (`FileIsClosed`, `RunEnds`,
`StoreReturns`, `Acquires`, `OpenEnds`, `LimiterServes`, `CalmRecovers`,
`StoreFinishes`): they need fairness and ENABLED, which are outside the prover's
reach.

## 8 What is not modelled

In the modelled parts:

- `SSFReader`: its LRU cache and `close()`, partial row reads, quality reports and
  the version-2 index. They only read the file.
- `SSDWriter`: a second call of `finalize` after one that raised; and bytes that Python's
  file buffer still holds when a write raises, which could reach a file that a later run
  has opened when the leaked writer is dropped. The bytes of a write that raised are on the
  file or lost, and later ones of that writer do not come.
- `StreamingPipeline`: a power failure cannot undo the removal of a checkpoint, nor bring
  back an older one;
  an interrupt inside `finalize` or in the cleanup is covered by `FinalizeFails`
  and `Kill`. Progress output, reports and memory estimates are left out.
- `KVCacheManager`: statistics and quality metrics; `_progressive_compress`;
  `prefetch_upcoming` fetches one token per layer and call; the engine's memory
  limit and the manager's are one.
- `PagedKVCache`: a caller that writes beyond a page's tokens, which would leave
  rows that are not valid between valid ones; the counters of hits and copies.
- `SharedPrefixManager`: the inverse table, which is only written.
- `RequestQueue`: two requests with the same `created_at`; `peek`, `size`, `stats`
  only read.
- `CircuitBreaker`: `on_state_change` callbacks and the registry.
- `GracefulDegradation`: the response cache; remediations that only report.
- `ServiceManager`: resource limits, systemd, pid files, which only the log reads,
  in-flight counting, which nothing uses. `_check_restart_rate` takes the time once, at its
  first line; the model looks at the clock where the code compares.
- `AsyncPrefetcher`, `L3DCache`: the engine around them, its tiers of immutable
  layers and its statistics.

The parts without a module are listed in `PROJECT.json` with the reason. Most of
the package by far is numeric: codecs, transforms, scores and
estimates over arrays, with neither shared state nor a protocol, for which a
model checker has no question. The stateful rest is in the plan;
the hazards found there while reading, and those of modelled parts that no
property covers, beyond those `PROJECT.json` lists:

| Place | Hazard |
|---|---|
| `unified_streaming_pipeline.py:544` | a run that is interrupted before any tensor failed removes the checkpoint it could be resumed from |
| `unified_streaming_pipeline.py:703` | in RAM mode a raising callback leaves the writing loop through the `finally`, which seals an archive that lacks the rest |
| `kv_cache/manager.py:408` | an evicted entry stays in the memo of `retrieve_all` until the next store |
| `kv_cache/novel.py:623` | prompts are one prefix when their first 64 tokens are alike |
| `kv_cache/novel.py`, `clear` | the prefixes are forgotten and their pages not freed |
| `kv_cache/paged.py:376` | a leaf that a sequence is using can be evicted |
| `kv_cache/paged.py:403` | a split moves the pages to a node that never gets on the LRU list, and leaves an empty node on it: the pages cannot be evicted |
| `serving/production_stack.py:676` | the protected function runs with the breaker's lock held: one slow call stops all; a call of a disabled breaker asks for `_execute`, which does not exist |
| `serving/model_manager.py:62` | two files with one stem have one identifier |
| `serving/model_manager.py:69` | the eviction comes before the load: when the load raises, the evicted model is gone all the same (the model does so, no property forbids it) |
| `inference/streaming_engine.py:454` | the buffer gives up its lowest layer, not its oldest: after a wrap to layer 0 that is the one just read |
| `compression/engine/streaming_compressor.py:1065` | the checkpoint names the first tensors, the failed among them, and line 1072 removes it at the end of every run that returns, those with failed tensors too |
| `format/writer.py:268`, `compression/engine/_io.py:383` | files are closed or renamed without an fsync |
| `serving/ssd_streamer.py:108` | two threads that miss one tensor both load it, since the lock is released in between |
| `serving/ssd_streamer.py:446` | `on_disk` is cleared before `_promote` tests it: the entry stays in the cold table as well, and a compressed one is decoded from the `None` its demotion left |
| `serving/batching_engine.py:2493` | a full stream queue blocks the worker of all requests |
| `serving/request_queue.py:82` | expired requests count towards `max_queued` until they reach the head |
| `agents/engine.py:2666` | a checkpoint restores two counters, not the tasks that were pending |
| `agents/swarm.py:407` | `stop` forgets a worker that outlives its five seconds, and the next `start` adds a second one |

## 9 Plan

The modules were written in this order: the container and the archive it
implements, since both pipelines depend on it; the two pipelines; the key/value
cache; the request queue; the production stack from the breaker to the service
manager; the engine's prefetcher and arena; the paged cache, its abstract
store and the prefix manager over it; the model table.
Next, in this order:

1. `streaming_compressor` and `SSFWriter` as a second implementation of
   `Archive`, without the fsyncs that `SSDWriter` has.
2. `KVCacheTieredStorage` (`serving/ssd_streamer.py`): an entry is on one tier.
3. The loop of `UnifiedBatchEngine` and its stream queues; it would share
   `RequestQueue`'s questions.
4. `AutonomousTaskLoop` and the swarm's batcher (`agents/`): no task lost over a
   stop or a checkpoint.
5. `RadixTreeCache` with the page allocator, once a caller reaches it.

To prove next: the safety half of the other liveness properties, as `EveryPassFrees`
does for the cache and `EveryEvictionFrees` for the arena (a run of the
pipelines comes nearer to its end with each step); an abstract
store of layers that `L3DCache` implements; and for `KVCacheManager`, what several
threads may rely on in place of `ServedIsNewest`.
