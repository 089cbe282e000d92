# A TLA+ verification of vllm-mlx

vllm-mlx serves language models on Apple silicon: an HTTP server, an engine that
batches the requests of many clients into one continuous batch, and the caches and
managers around it. This project models the parts of it whose correctness depends on
the order in which things happen, checks them with TLC and proves the most important
invariants with TLAPS. All paths below are relative to `src/vllm_mlx/` in the
repository.

## 1. The system

| Component | Source | State | Operations | Hard behaviour |
|---|---|---|---|---|
| Scheduler | `scheduler.py` | `requests`, `waiting` (deque), `running`, the two uid dictionaries, `_pending_abort_ids`, the `BatchGenerator` | `add_request`, `abort_request`, `remove_finished_request`, `step` | two threads without a lock, deferred aborts, retry after cache corruption, three kinds of recovery |
| Request | `request.py` | status, output tokens, prompt cache, remaining tokens | `append_output_token`, `set_finished`, `__eq__` | comparison by Python code inside `deque.remove` |
| EngineCore | `engine_core.py` | collectors, stream states, finished events, `stream_thread_fallback_used` | `add_request`, `stream_outputs`, `generate`, `abort_request`, `_cleanup_request`, `_engine_loop` | clients cancelled at any await, step on a worker thread or, after a mismatch, on the loop |
| OutputCollector | `output_collector.py` | pending merged output, stream interval | `put`, `get`, `clear`, `should_send` | producer faster than consumer |
| BatchedEngine | `engine/batched.py` | the engine and the tokenizer | `start`, `stop`, `chat`, `stream_generate` | start and stop against calls under way |
| SimpleEngine | `engine/simple.py` | generation lock, system-prompt KV snapshot | `generate`, `stream_*`, `stop` | cancellation while a worker thread generates |
| ResidencyManager | `lifecycle.py` | per model: engine, state, load/unload tasks, waiters, `active_requests` | `acquire`, `release`, `ensure_loaded`, `unload_if_idle`, `shutdown` | loads shared and abandoned, idle unload against acquire |
| ModelManager | `model_registry.py` | loaded/loading models, reservations, waiters | `acquire`, `_execute_load`, eviction, preemption | admission by memory, cancelled loads, lost wakeups |
| PagedCache | `paged_cache.py` | blocks, reference counts, free queue, hash index | allocate, share, fork, free, evict | stale hashes, copy on write, double free |
| PrefixCache | `prefix_cache.py` | trie, LRU list; block tables per request | fetch, store, release | eviction of a prefix in use |
| MemoryCache | `memory_cache.py` | entries, byte counter, LRU order | fetch, store, evict, spill | byte accounting, supersequences, trimming |
| SSDCache | `ssd_cache.py` | index, writer queue, files | spill, lookup, promote | writer thread, crash between file and index |
| MLLMScheduler | `mllm_scheduler.py`, `mllm_batch_generator.py` | as Scheduler, output queues; pending, prefilling and generating requests, deferred removals | `add_request`, `abort_request`, `stream_outputs`, `step`; `insert`, `remove`, `next` | aborts between steps, long prefills interleaved with decoding, a forward pass that fails half-way |
| Vision caches | `mllm_cache.py`, `vision_embedding_cache.py` | LRU maps | get, put, evict | budget |
| Server | `server.py` | models, engines, managers | HTTP handlers, idle loop | disconnects, timeouts |
| MCP | `mcp/` | connections, tool table | connect, call, reconnect | retries, timeouts |
| Tool and reasoning parsers | `tool_parsers/`, `reasoning/` | per-stream parser state | extract | text split over chunks |
| Constrained decoding | `constrained/` | grammar state | logit masks | external libraries |
| API models, models and patches, plugin, command line, audio, embeddings, utilities | `api/`, `models/`, `patches/`, ... | none of their own | conversions, tensor code, argument parsing | no ordering hazards |

### How the parts interact

```
 HTTP handler --acquire/release--> ResidencyManager / ModelManager --load/unload--> BatchedEngine | SimpleEngine
      |                                                                                  |
      +--add_request / stream_outputs / generate / abort_request--> EngineCore <---------+
                                                                      |  step() on the worker thread
                     collectors, events <-- outputs --                v
                                                                  Scheduler --insert/remove/next--> BatchGenerator (mlx_lm)
                                                                      |
                                                                      +--fetch/store--> Prefix / Paged / Memory cache --> SSD tier
```

* The HTTP handlers, the clients (`stream_outputs`, `generate`) and `_engine_loop`
  are coroutines of **one event loop**: they interleave only at awaits.
* `_engine_loop` runs `Scheduler.step()` on a **one-thread executor**. While it
  runs, every other coroutine may call `add_request`, `abort_request` or
  `_cleanup_request`: they change `waiting`, `requests` and `_pending_abort_ids`
  under the feet of `step()`, with no lock. Aborts are therefore deferred:
  `abort_request` only enqueues an id, and `step()` processes it first thing.
* Results flow back as one `SchedulerOutput` per step, which the loop distributes
  to the collectors and events without awaiting in between.
* After a stream or thread mismatch the engine recovers the batch and then runs
  `step()` on the event loop itself: from then on nothing interleaves with it.
* `MLLMScheduler` has no worker thread: its `step()` runs on the event loop from its
  first line to its last, and clients act between steps.
* The prompt cache is shared by the event loop (`fetch`, in `add_request`), the step
  worker (promotion, `store`) and the SSD writer thread.

### What makes each part correct

* **Scheduler**: the uid dictionaries, the batch and the generator's sequences are
  one correspondence (tokens go to the right request); no request is queued twice,
  lost, revived after it finished, or finished in silence; the batch never exceeds
  `max_num_seqs`; an abort holds; `max_tokens` and the sampler settings are
  honoured; everything submitted finishes.
* **EngineCore, OutputCollector**: no token is lost, repeated or given to another
  client on its way; the finished event and the final output appear together; each
  client that stays gets exactly one answer, which agrees with the request's end.
* **ResidencyManager**: one load at a time; a request holds the engine that is
  loaded; nothing is unloaded under a request; a cancelled waiter never cancels
  others; everyone who waits is answered.
* **ModelManager**: memory reserved is memory of a load or a resident model; no
  eviction of a model in use; waiters are woken.
* **PagedCache, PrefixCache, MemoryCache, SSDCache**: reference counts equal
  holders; free and used blocks partition the pool; a hit returns KV of exactly the
  tokens asked for; the byte counter is the sum of the entries; nothing accepted for
  the SSD is lost by a shutdown that drains it.
* **MLLMScheduler**: scheduler and generator agree on where each request is; one
  token per request and step; what the end of a stream says is true; whoever waits is
  answered, failing forward passes included.

## 2. The modules and what they cover

| Module | Covers | Composes or extends |
|---|---|---|
| `Scheduler` | queue, batch, aborts, retry, recovery | |
| `CompletionService` | what the engine promises its clients | abstract specification |
| `EngineCore` | clients, collectors, events, the engine loop | extends `Scheduler`, implements `CompletionService` |
| `ResidencyManager` | acquire, load, abandon, unload, shutdown of one model | |
| `ModelManager` | admission, eviction, preemption, shutdown over several models | |
| `TieredCache` | RAM cache, SSD tier, and the scheduler's fetch, promotion, reuse and store | |
| `PagedCache` | blocks, sharing, the hash and prefix indexes | |
| `MLLMScheduler` | the multimodal scheduler and its batch generator | |
| `Collections` | parts of a sequence, sums over a set | used by the three modules above that filter and sum |
| `SchedulerProofs` | theorems about the scheduler | extends `Scheduler` |
| `EngineProofs` | theorems about the engine, and its step simulation of the service | extends `EngineCore` and the scheduler's theorems |
| `ResidencyProofs`, `RegistryProofs`, `PagedProofs`, `TieredProofs`, `MLLMProofs` | theorems about the residency manager, the model manager, the paged and the tiered cache, and the multimodal scheduler | extend `ResidencyManager`, `ModelManager`, `PagedCache`, `TieredCache`, `MLLMScheduler` |
| `QueueTheorems` | the lemmas on queues, parts of sequences and sums all of them share | extends `Collections` |
| `MC...` | the instances TLC checks | extend the module of their name |

What would extend it: `reset` and the engine's `start` and `stop`.

## 3. The modules

### Scheduler

`phase` is the program counter of `step()`: each action of the worker is the code
between two points at which a call from the event loop could change something the
worker reads next. The calls of the event loop may happen in every phase.

| Model | Code (`scheduler.py`) |
|---|---|
| `AddRequest`, `AbortRequest`, `RemoveFinishedRequest` | `add_request`, `abort_request`, `remove_finished_request` |
| `AbortBegin`, `AbortRemove`, `AbortRemoveRaises`, `FinishAbort` | `_process_pending_aborts`, `_do_abort_request` |
| `PromoteDone`, `PromoteRaises` | `_try_promote_ssd_pending`: its scan of `waiting` |
| `ScheduleOne`, `ScheduleRaises`, `ScheduleDone` | `_schedule_waiting`, `_ensure_batch_generator` |
| `Generate`, `GenerateRaises`, `ProcessRaises`, `CleanupRaises` | `batch_generator.next`, `_process_batch_responses`, `_cleanup_finished` |
| `EpilogueRaises` | what `step()` does after its `try` |
| `Handle` | the `except` clauses of `step()` |
| `RecoverFromGenerationError`, `RecoverFromCacheError`, `RescheduleOne` | the functions of those names |
| `RecoverStreamThread`, `RequeueDone` | the engine's use of them after a stream/thread mismatch |

Abstractions. Tokens are counted (`outputTokens`, and `emitted` for the tokens since
the last insertion, which is what the generator holds against `max_tokens`).
`BatchGenerator` is external: it holds a set of uids, counts uids from 0, answers for
any subset of its sequences with one token each, and finishes one on a stop token or
at `max_tokens`. `_reschedule_running_requests` moves the requests in the order of the
dictionary; the model leaves the order open, which only adds behaviours. `mutated`
remembers that the event loop appended to `waiting` while the worker iterates over it,
which is exactly when CPython's deque raises.

An exception is a pair of a site and a kind, the kind being what the `except` clauses
distinguish: corruption, another `TypeError`, stream mismatch, anything else. There are
six sites, and every kind may come from each:

| Site | What has happened when it raises |
|---|---|
| `create`, `insert` | a request is off the queue, in no collection |
| `next` | nothing was generated |
| `process` | responses exist, any part of them is counted, some requests have their final status, no output was returned (`scheduler.py:2788` to `:2835`) |
| `cleanup` | the outputs are in the result, some of the finished requests are out of the batch, the others still in it (`scheduler.py:2875`) |
| `epilogue` | the requests are cleaned up, and the output is lost (`scheduler.py:3233`) |

Two more exceptions have actions of their own, those of the deque races. No other is
modelled: none in the processing of aborts, in the exception handlers themselves, in
promotion but for its scan, or in `add_request`.

Two history variables, which no action reads, name the requests to which a property
does not apply. `spoiled` has those with a response in a step that failed at `process` or
`cleanup` and was not answered by errors (`_recover_from_generation_error`), or with an
output in a step that failed in its epilogue: their tokens or outputs are gone. `missed`
has the aborted requests that the worker failed to take off the queue, because of the
race or because their owner had forgotten them first.

### EngineCore

Adds the clients and the way outputs reach them. `Submit` is `add_request` and the
start of `stream_outputs` or `generate`; `StreamTake` and `GenerateTake` are their
consumption; `Leave` and `Cleanup` are the two halves of a cancellation,
`abort_request` and `_cleanup_request`, between which no coroutine runs (`LoopFree`)
but the worker does. `Deliver` is the distribution of a step's result, `StepFailed`
the logged exception, `SwitchThread` and `ThreadSwitched` the fallback. `Merge` is
`RequestOutputCollector.put`.

Once `fallback` is set, `step()` runs on the event loop and `ClientsRun` keeps clients
out of it, except between steps.

### CompletionService

What the engine promises the owner of a request, without scheduler, batch or
collector: tokens are produced, streams receive all of them in order, a waiting client
gets the final count, everyone who stays is answered exactly once. `EngineCore`
implements it with `produced` read as `outputTokens`; the property
`ServiceImplemented` is that refinement, fairness included.

### ResidencyManager

One model, the clients that acquire it, the load tasks they share, the idle loop and
`shutdown`. Everything runs on one event loop and no section under the manager's lock
awaits, so an action is the code from one await to the next: a client that resumes from
a cancelled load drops its place among the waiters and starts the next load in one
step. A load task has a stage for each await of `_load_engine` (`creating`,
`preparing`, `starting`, and `stopping` or `failing` while it awaits `engine.stop()`);
`cancelled` holds the tasks whose cancellation has been asked for and not been
delivered. Task identities are reused when nothing refers to them any more, so the
model is finite without a bound on the number of loads.

| Model | Code (`lifecycle.py`) |
|---|---|
| `Request`, `EnsureLoaded` and its four alternatives | `acquire`, `ensure_loaded` |
| `ResumeUnloaded`, `ResumeLoaded`, `ResumeFailed`, `ResumeCancelled` | the same, after their awaits |
| `Leave`, `Abandoned`, `WaitersAfter`, `Abandons` | a cancelled client in `_release_load_waiter` |
| `LoadBegins` ... `StopInterrupted` | `_load_engine`, `_prepare_engine_start`, `_cleanup_cancelled_load` |
| `UnloadIfIdle`, `UnloadEnds` | `unload_if_idle`, `_unload_engine` |
| `ShutdownChecks`, `ShutdownResumes` | `shutdown` |

`StopAwaits` says whether `engine.stop()` of an engine that is not fully loaded yields:
that of `BatchedEngine` does once its `EngineCore` exists (it closes the SSD tier on a
thread), that of `SimpleEngine` does not. A client is cancelled once at most, and a load
that was just created has taken its first step before its client can be cancelled, as
the ready queue is first in, first out; `shutdown()` may come before that step.

### ModelManager

Several models under one memory budget. The manager runs on one event loop and never
awaits under its condition's lock, so an action is again what one task does between two
awaits. `loaded`, `loading` and `unloading` are the three tables; a load, its future and
its engine are named after the client that started it, as a client loads at most once. A
model has one size, which is reserved before its load (`model_registry.py:807`) and
charged after it; the code estimates it again when the engine exists (`:1303`, `:1220`),
and what it would do with another amount is not covered.
`alive` is not in the code: it is the engines that take memory, whatever the tables say,
and is what the budget is really about. `stops[t]` is what the unload task `t` (the
reaper, a client's eviction, or `shutdown`) still has to stop.

| Model | Code (`model_registry.py`) |
|---|---|
| `Acquire` and its alternatives, `Timeout` | `acquire` and the contention policies |
| `LoadEnds`, `LoadEndsTooLate`, `LoadAborted`, `LoadFails` | `_execute_load` |
| `ResumeLoaded`, `ResumeFailed` | a sharer of a load, after its await |
| `Candidates`, `MakingRoom`, `BeginUnload`, `StopEnds`, `StopRaises`, `UnloadIdle` | idle candidates, eviction, the unload tasks |
| `Release`, `ReleaseUnknown`, `Cancel` | `release`; the server's `_wait_with_disconnect` |
| `ShutdownBegins`, `ShutdownResumes`, `ShutdownEnds` | `shutdown` |

### TieredCache

`MemoryAwarePrefixCache`, the SSD tier and the scheduler code between them. Three threads
act: the event loop (`AddScan`, `AddHit`, `AddMiss`, `AddRaises`, `Clear`), the step
worker (`Reserve`, `Read`, `Promote`, `QuarantineDirectory`, `QuarantineRow`, `Schedule`,
`Finish`) and the SSD writer (`WriterTake` ... `WriterDrop`). A KV state *is* the sequence
of tokens it holds, so an entry whose key and contents disagree differs from one whose do
not, and trimming is cutting a sequence. `fetch` takes no lock: `AddScan` finds an entry,
`AddHit` touches it or, when the worker evicted it in between, `AddRaises` refuses the
request with the `KeyError` the code raises. The writer's actions are the points at which
a crash leaves the disk in a different state: old directory removed, new one renamed into
place, row inserted, a victim's directory removed, then its row. `WriterFails` is an
exception at any of them, which the writer loop logs before it takes the next spill
(`ssd_cache.py:731`); `unenforced` remembers how many writes ended like that, or in a
crash, after their row went in. Reads of a promotion may fail too, but not SQLite under
it. `StopEngine`,
`Detach`, `ClosePut`, `CloseJoin`, `CloseTimeout`, `StartEngine` and `Crash` are the life
of the process and of the tier.

### PagedCache

`PagedCacheManager` and the `BlockAwarePrefixCache` over it. Each call of the pool is
locked, a fetch and a store are many such calls: `fetch` and `store` are their program
counters, `Clear` may come between any two of them. `torn` remembers that it did. A
block's data is the sequence of *all* tokens up to its end, since its KV depends on them.
`FetchClaim` takes a reference and adds the block to the request's table, `FetchRebuild`
is `reconstruct_cache`; `StoreShare`, `StoreAllocate`, `StoreFill` and `StoreFinish` are
the steps of `store_cache`.

### MLLMScheduler

`MLLMScheduler` and `MLLMBatchGenerator`, with and without interleaved prefill, in one
model, since a request moves between their collections in one call. `loop` is how far
`step()` is; everything else happens while it is "idle".

| Model | Code (`mllm_scheduler.py`, `mllm_batch_generator.py`) |
|---|---|
| `AddRequest`, `Deliver`, `AbortRequest`, `Leave` | `add_request_async`, `stream_outputs` and its `finally`, `abort_request` |
| `StartStep`, `ScheduleWaiting` | `step`: `process_pending_removals`, `_schedule_waiting`, `insert` |
| `PrefillChunk`, `FinishPrefill`, `StartPrefill`, `PreprocessFails`, `NoLongPrompt` | `_chunked_next` |
| `NewBatch`, `ExtendBatch`, `ProcessPrompts` | `_next` up to the forward pass, `_process_prompts` |
| `Generate` | the rest of `_next`, `_generation_step` |
| `ProcessResponses` | `_process_batch_responses`, the queues, `_cleanup_finished` |
| `StepFails`, `ProcessFails`, `FailRequests` | `_process_loop` and `_fail_requests_after_step_error`, after a forward pass or a detokenizer raised |

Uids are never reused, so a request stands for its uid; a row of the batch is a request
and a count, and the same request may have two. The inputs of a request are its kind: a
short or a long text, audio, an image. `_preprocess_request` may fail for each request by
itself, a prefill for all that are processed together, a forward pass for everybody, and
so may the detokenizer, between two responses of a step: what comes before is counted,
and nothing is sent. No queue is ever full, as none has a bound.
`_aborted_request_ids` is left out: `step()` begins with the removal of what was aborted,
so no prefill ever finds an id of its own in it.

## 4. The runs

| Run | Question | Result |
|---|---|---|
| `SchedulerSafety` | Are maps, queue, batch size and finality right, and does an abort hold, with three requests, an exception of any kind at any of the six sites, submissions racing the SSD scan and the abort, and an owner that aborts a request and forgets it? | holds, 1.2 million states, up to `spoiled` and `missed` |
| `SchedulerService` | Does every request finish and is none dropped, when exceptions strike twice in the generation call, or are fatal in what follows it, and no race interferes? | holds |
| `EngineSafety` | Is any answer lost or misdirected with `stream_interval` 2, clients that leave at any point of a step, both deque races, and an exception of any kind at any site but those of an insertion? | holds, 1.6 million states, up to `spoiled` |
| `EngineService` | With `stream_interval` 1 and `PlainFaults`, does a stream get every token, and does the engine implement `CompletionService`, liveness included? | holds |
| `ResidencySafety` | One engine at a time, pinned while used, exact counts, with three clients and everything that can fail or be interrupted? | holds, 0.8 million states |
| `ResidencyService` | Is every load unregistered and every waiting client answered, when `stop()` does not yield and nobody shuts down? | holds |
| `RegistrySafety` | Is the budget kept, are leases of live engines and counted exactly, do requests and `shutdown()` end, with failing loads and stops, cancelled requests and three policies? | holds, with the exceptions the properties name |
| `TieredSafety` | Is memory accounted and bounded, does no entry hold other tokens than its key, is the spill queue drained, does `stop()` return, with clears, damaged directories, writes that fail anywhere, restarts and crashes? | holds, with the exceptions the properties name |
| `PagedSafety` | Are references, the free queue and the two indexes exact while a clear may cut a fetch or a store in two? | holds |
| `PagedForeignContext` | `SameContext`: does reused KV come from the same context? | violated, finding 1 |
| `MLLMSafety` | Do scheduler and generator agree, are answers honest, is everybody answered, in both prefill modes, with preprocessing, prefills, forward passes and detokenizers that fail? | holds, 0.4 million states |
| `MLLMDoubleRow` | `OneTokenPerStep` with interleaved prefill | violated, finding 2 |

Several properties have an exception: `spoiled`, `missed`, `torn`, `inlined`,
`Preemptive`, `replayed`, `unenforced`, `LeftBehind`. Each names the one way in which the
code leaves the property, described in section 6; the property says that there is no other.

**Bounds.** Three requests and `MaxNumSeqs = 2` are the least with a full batch and a
request that waits; `MaxTokens = 2` gives a token that ends a request and one that does
not; `MaxRetries = 1` is the code's default. `MaxFaults` bounds how often something raises:
`SchedulerService` takes 2, a corruption whose retry fails as well. In `SchedulerSafety`
one request at most is aborted, the others being there to be disturbed by it. Requests are
submitted once since ids are fresh. In `SchedulerSafety` all requests have the same
sampler settings and are interchangeable, which is its symmetry; a request with other
settings, for which the generator is rebuilt, is in `SchedulerService` (that it may also
join a running batch is in the model and covered by the proofs). The liveness runs use no
symmetry. `EngineSafety` and `EngineService` have two clients, so that one can leave in the
middle of a step for the other. `PlainFaults` of `EngineService` are what the service
allows: any failure that is answered by errors, or a `TypeError` of the generation call,
which changes nothing. The others lose outputs, or restart requests whose tokens stay
counted (section 6); they are in `EngineSafety`.

Three clients are the least with two that join a load a third has abandoned; six task
identities are enough for every task they, the resident and `shutdown()` can refer to.
`RegistrySafety` has two models that fit together and one that needs the room of both,
four requests, and one policy of each sort with an order of requests that is hard for it:
no waiting; waiting with a timeout, two requests for the large model behind two small
ones; waiting without a timeout and then preempting, where a model is preempted by the
large one, loaded again, and that load shared.

`TieredSafety` has prompts of two and three tokens, one a prefix of the others, one that
diverges and one that is the first with its answer: exact, prefix, supersequence and
longest-common-prefix matches all occur, for models whose KV can be trimmed and others.
Room for two entries, a spill queue of one and one entry on disk make each of them
overflow; two events are a clear and a stop, or a crash during the restart after one.
`PagedSafety` has four blocks for three requests of one or two blocks and two clears, one
in the middle of a call and one of what that call left.

`MLLMSafety` has a request of each kind that the code treats differently in a batch
(long text, audio, which joins like a short text but may fail when it does, and an
image), two places for them, and a prompt of three chunks, of which the one between the
first and the last may take in requests; `MLLMDoubleRow` has four, as it needs two of those.

**Deadlock** is not checked: when all requests are finished and forgotten nothing is
left to happen.

**Fairness.** The worker thread is scheduled by the operating system and the engine
loop by asyncio: weak fairness of their steps. `BatchGenerator.next` advances all its
sequences, so each is answered for again and again: strong fairness of `GenerateFor`
per request. A coroutine that is ready is resumed, as asyncio's ready queue is first
in, first out; but it cannot be while `step()` runs on the loop, so the fairness of
`StreamTake` and `GenerateTake` is strong. Nobody has to submit, and nobody to leave.
Of the residency manager, loads and unloads end, and a coroutine that can go on does
(weak fairness); strong fairness of `GetsEngine` and `GetsLoad` says that a client next
in the ready queue is not overtaken for ever by idle unloading, which needs the idle
time to pass first, or by others that start loads and abandon them. The model manager's
tasks run on one loop: weak fairness of all progress together, while nobody has to ask, be
cancelled or time out and nothing has to fail. In `TieredCache` the promotion, the writer
thread and `close()` are weakly fair each, and clients, clears, stops, failures and crashes
are not. Of the MLLM scheduler the process loop and each client that stays are.

## 5. The proofs

`SchedulerProofs` proves, for any set of requests, any `max_num_seqs`, any faults and
both races: `TypeCorrect`, `UidMapsCorrect`, `QueueCorrect`, `CapacityCorrect` and
`FinishedStaysFinished`; and `NothingLost` on the assumption `InsertionSafe` that
building the `BatchGenerator` and inserting into it do not raise. The assumption is
needed: a request popped from the queue is in no collection when they do (section 6).

`spoiled` is part of these statements: a step that fails after tokens were generated, and
is not answered by errors, leaves requests in the batch that have finished or whose
sequence has ended, and the properties say how far the harm goes. Maps and batch still
agree, nothing is credited to another request, and what is out of the batch stays out.

The inductive invariant `SchedulerInv` joins the properties with what they rest on. All
steps that raise are one case (`RaisingStep`): `Sound` says what is true of the state an
exception finds, and `HandleOutcome` what the handlers make of it.
`UidMapsExact` is not inductive alone: a new `BatchGenerator` counts its uids from 0
again, and that is safe only because every uid in use is below `nextUid` (`UidsFresh`)
and no uid outlives its generator. Queue exclusiveness needs that the request being
taken out of the queue by an abort is the one remembered in `aborting`, and that status
and place agree. The preservation proof has one lemma per action, stated for `AnyStep`:
the worker's steps and *unguarded* calls of the event loop. So the results do not
depend on callers keeping the contract (aborting once, forgetting after the end), and
`EngineProofs` reuses them for the engine, whose clients do forget requests that are
still running: `EngineKeepsSchedulerInv` shows that every step of `EngineNext` is an
`AnyStep` of the scheduler or leaves it alone.

The second part of `SchedulerProofs` says what the steps of the scheduler do to results.
Each step is quiet, makes one output for each request it finishes, or hands the result
over (`StepEffect`);
`OutputsInv` states that a finished output tells how its request ended and that no request
has two. From them follows `EveryEndReported`. `AbortsTakeEffect` needs no assumption: only
requests in the batch are ever requeued, so `AbortInv` just adds that one abort at a time is
under way and that what is aborted has been submitted.

`EngineProofs` carries this to the clients. `AnswerInv` ties the finished event, the final
output in the collector and the result a client was given to the end of the request, as
long as nobody but a client that left aborts it; it needs all the facts at once, since
the end of a request travels from the step's result to the collector to the client.
`EngineInv`, `SchedulerInv` and `OutputsInv` with it, is inductive without assumptions and
gives `EventsCorrect` and `AnswersCorrect`, for requests that are not spoiled: one whose
responses were lost may be restarted with its answer already made. `ClientsRemembered` assumes `InsertionSafe`, as
`NothingLost` does and for the same reason. `StreamsLossless` assumes `StreamInterval = 1`,
since a longer interval drops tokens (section 6): its invariant accounts for each token of
a streaming request, with the client, in the collector, or in the step's result, or, for a
request that was aborted with an error, as the one token its failing step counted.

It also proves `EngineImplementsService`: the engine's initial states are initial
states of `CompletionService` and each of its steps is a step of the service or a stutter,
the safety half of `ServiceImplemented`, for any number of clients. Beside
`StreamInterval = 1` it assumes `FailuresAnswered`: no failure puts a request back in the
queue or takes a result along, and one that strikes after tokens were generated is answered
by errors. A request that is put back starts over while the tokens it had stay counted, so it may end with
more than `max_tokens` (section 6), which the service does not allow. Without such failures
the generator and the request count the same tokens (`TokensExact`), hence "length" means
`max_tokens` exactly.

`ResidencyProofs` proves, for any number of clients and load tasks, whatever fails, is
cancelled or interrupted, `ResidencyTypeCorrect`, `StateCorrect`, `OneEngine`,
`EnginePinned`, `WaitersCorrect` and `CancelledWithoutWaiters`. `SingleEngine` is not
inductive: that no second load starts while an engine is being stopped rests on
`LiveIsRegistered`, that a load task which has begun or is about to is the registered
one, and on the published state, which says "loading" for as long as one is registered.
With these (`LoadInv`), `EngineInUse` is preserved because nobody can hold an engine
before shutdown while the state is not "loaded". The counts need more (`CountsExact`):
whoever awaits the load under way is a waiter the count is about, and the count is never
about another load than that one; a client that resumes from an older load drops out and
counts for the next in one step, so each step is split at the counts without it
(`CountsBut`). `LoadsUnwind` has two assumptions, that `engine.stop()` does not yield
and that nobody shuts down; each names one of the two ways in which the code leaves a
finished task registered (section 6, "Residency").

`PagedProofs` proves `PoolCorrect`: for every number of requests and blocks, every block
size, and wherever the clears fall, a block is free or referenced and never both, and no
block is queued twice. The inductive invariant `PoolInv` speaks of the pool alone, with
`Distinct(free)` for the count of the queue: a block leaves the queue exactly when its
count leaves zero, and a clear, which restores both, may come anywhere because no call
keeps a block between two steps without either.

It then proves `RefsCorrect`, `MapsCorrect` and `HitsCorrect` (`RefsExact`, `MapsTrue`,
`HitCovers`), for every number of requests, every prompt and every block size. Their
common invariant is `CacheInv`: as long as no clear has cut a call in two (`~torn`), every
map entry, table, fetch and store names blocks that hold the tokens it was made for
(`HoldsFrom`), just enough of them (`Spans`). That is inductive because data only grows
(`Grows`): a block is empty until it is filled, is filled once, and is in no map or table
before that; so what a fetch read from the maps stays true while a store runs. A request's
own table must be known to cover the head of its prompt (`Covers`), or `store_cache`, which
continues after what the table covers, would pair blocks with other chunks.
Reference counts are cardinalities (`EntryAdded`: a new table entry is a new pair).
What a longest match returns, `Max` of a set of block counts, is characterised through the
least element of the distances to its bound (`MaxIsMax`), and that from the library's
`WFMin`, since an induction theorem cannot be instantiated. The only assumption is that
tokens are natural numbers. `~torn` is needed: after a clear inside a call, a map may name
a block that the clear emptied (hazards of `paged_cache.py:896`, `prefix_cache.py:457`).

`RegistryProofs` proves `BudgetCommittedOnce`, `EnginesFitTheBudget` and
`LeasesAreHonoured`, for any set of models of any sizes, any budget, any number of
requests, every policy and fault. The budget alone is not inductive: that a load ends
where it began, and that what is claimed, woken or stopped has the size that was
reserved, needs that an entry of a table names an engine or a load of its own model
(`TablesOK`), that nobody else ends a load (`LoadersOK`), that a request awaits or holds an
engine of the model it asked for (`UsersOK`), and that only a request which awaits an
unload has one under way (`StoppersOK`); with the budget, or `relisted`, they are
`ManagerInv`. It holds under preemption too, and is as much as can be said there. Without
preemption `LeaseInv` adds that the tables are apart (`Apart`), that until shutdown every
engine which takes memory is in one of them (`Covered`), that each engine to be stopped is
in `_unloading` and stopped once (`StopsOK`), and that the count of each engine is that of
its holders (`LeasesCounted`). Then `relisted` never becomes true, because a sharer that is
woken with an engine finds it in use (`FuturesOK`) and hence not evicted; and the engines
fit in the budget because their sum is that of the models listed (`ListedFit`,
`TotalImage`).

`TieredProofs` proves `MemoryIsAccountedFor`, `FetchFindsTheLongest`,
`PillDrainsTheQueue`, `IndexKeepsItsCapacity` and `KeysTellContents`, for all prompts and
limits. `BaseInv` joins the types, a sound cache (`CacheInv`: keys distinct, limits kept,
counter exact while no promotion is under way) and what the promotion relies on
(`WorkerInv`: its request still waits, and the counter is the entries plus the
reservation, or a clear took both away). The eviction loop is a least count of entries to
drop, which exists because dropping all of them makes room. `FetchFindsTheLongest` is
about the two neighbours of the prompt in the sorted keys: between them and any other key
in lexicographic order no longer common prefix can hide, so the best match is among
them; it needs the order to be total on keys of any length, and the longest common
prefix as a least position of disagreement. `PipeInv` follows the shutdown pill:
it is queued last, only while the tier is detached, and nothing is spilled
then. `IndexInv` follows the writer between insertion and enforcement, and the writes that
failed in between: each adds one to what the index may hold, and the next one that
finishes has evicted for all of them. `HonestInv` says of
each store, of each entry on its way between two of them, and of each request how far its
KV state and what remains to be processed make up its prompt; a request that re-fed its
last token is remembered by `replayed`, which is what `CacheHonest` excludes. A promotion
reads a directory by the key of a row that may have been evicted or rewritten since, so
that what it reads has the right key is part of the invariant, not of the step.

`MLLMProofs` proves `SchedulerAndGeneratorAgree` and `AnswersAreHonest`, for any number of
requests of any kinds, all limits and both prefill modes; like the properties, the
invariants speak of behaviours in which no chunk took in short requests. `GeneratorInv`
says that the uid maps follow `running`; that the four places of the generator hold each
request at most once and have none in common (`Placed`); that a removal is pending only
between steps, and errors only while the step decodes; and that until `next()` answers the
generator holds what runs and what is to be removed, nothing else (`StepOK`). Between
`next()` and the scheduler a request that ended is still running and no longer held:
`ResponsesOK` says that it then has a response that ends it, and that one with any other
response is still in the batch. `AnswerInv` relates three counts: the row of a request
counts its `output_tokens` (and one more between `next()` and the scheduler), so that
"length" comes with the last of `max_tokens`; a request outside the batch has none, so the
count 0 in an error is right; and a queue continues what its client got (`QueueOK`), which
makes the count after a failed forward pass right too, and one too high when the step failed
after it had counted the token (`ProcessFails`). Only a request that is no longer tracked
has an output that ends its queue, so nothing follows it but the end mark, and its status
no longer changes.

`QueueTheorems` holds the facts these proofs share: about `Append`, `Tail`, `RemoveAt`,
concatenation and slices (range, distinctness, length), about parts of a sequence
(`WithinFacts`) and about sums over a set. A part of a sequence is a recursive function of
its prefix; what it contains is proved from the existence and uniqueness of such a
function for every length, by the least counterexample (`SetInduction`, from `WFMin`). A
sum is the number of units in a disjoint union (`Total`), so that its laws are those of
finite sets.

Only model-checked: everything about liveness (`Served`, `AcquireEnds`,
`ShutdownReturns`, `StopReturns`, `MLLMServed`, and the fairness of `ServiceImplemented`).
Every invariant and every action property that a passing run checks is stated by a
theorem, some of them under the assumptions named above.

## 6. Findings

Two runs refute a statement of the repository; `PROJECT.json` quotes it.

1. `SameContext` (`paged_cache.py:878`): blocks are found by the hash of their own tokens,
   so a request is given KV computed after other tokens than those before it, while
   `paged_cache.py:19` promises a hash chained to the parent block.
2. `OneTokenPerStep` (`mllm_batch_generator.py:3066`): a chunk of an interleaved prefill
   takes short requests into the batch but leaves them pending, so the next chunk adds a
   second row for each, and one step appends several tokens of independent continuations.

Further behaviour of the code that the models have, or that was met while modelling, and
that no run is about:

Scheduler and engine

* A request popped from the queue is lost when building its `BatchGenerator` or inserting
  it raises (`scheduler.py:2266`).
* A submission during the SSD scan of the queue raises and fails every running request
  (`scheduler.py:3522`); one while `deque.remove` compares requests loses the abort that
  was being processed (`scheduler.py:2194`).
* A client that leaves forgets its request before its abort is processed, so a queued
  request is generated to its end for nobody (`engine_core.py:470`): the worker, which does
  not find it any more, takes it out of the batch only (`scheduler.py:2193`). `missed` names
  these requests and those of the second race above.
* An exception while a step goes through its responses, or cleans up what has finished,
  loses outputs unless `step()` answers it by errors (`scheduler.py:2801`, `:2997`):
  a corruption is retried, which restarts requests whose tokens are counted and requests
  that have finished, and overwrites the outputs of the first attempt; a stream mismatch
  restarts them too; after another `TypeError` a finished request stays in `running`
  without a sequence, and one whose last response was lost without a status either, so that
  its client waits until a later failure clears the batch. A client may get the finished output of
  the failed attempt while the request runs again. When the exception is answered by errors
  the token of the failed step is counted and never sent. `spoiled` names the requests.
* `stream_interval` above 1 drops tokens instead of accumulating them
  (`engine_core.py:347`, against `output_collector.py:178`).
* A retry after cache corruption keeps the tokens the request had (`scheduler.py:3098`),
  so its output may exceed `max_tokens`; a request with other sampler settings joins the
  running batch (`scheduler.py:1690`).
* An exception of `mx.eval` in the epilogue of `step()` leaves the `try` behind it, and
  with it the outputs of requests that are already finished (`scheduler.py:3233`).
  `EpilogueRaises` is this failure.
* `stop()` wakes none of the clients that wait (`engine_core.py:170`); `add_request`
  leaves its collector behind when the scheduler refuses the request
  (`engine_core.py:452`).

Residency

* A client that leaves while the engine of its failed load is being stopped wedges the
  model: later requests spin on the finished task (`lifecycle.py:335`).
* The second client that joined an abandoned load gets `CancelledError`
  (`lifecycle.py:160`).
* `shutdown()` waits for ever on a load it cancelled before its first step
  (`lifecycle.py:271`), and returns while a client is about to retry an abandoned load,
  which then loads the model (`lifecycle.py:284`).

Model manager

* A cancelled load keeps its reservation and an unresolved future: later requests for the
  model, and `shutdown()`, wait for ever (`model_registry.py:969`). One engine whose
  `stop()` raises leaves the rest of its batch in `_unloading` (`:1015`). `LeftBehind` is
  the disjunction of the two.
* A model that is being preempted is neither claimable nor loading, so it is loaded again
  over its first engine, which nobody stops: more engines exist than the budget allows,
  although `docs/guides/model-registry.md:308` says it is enforced (`:938`).
* What the tables list may exceed the budget too: a request whose engine was preempted,
  and its model loaded again, releases it by name, which counts down the engine that
  succeeded it (`:868`); that one becomes idle under its loader and is evicted for
  another load; then a sharer of the finished load resumes
  with the `LoadedModel` of its future and registers it again (`:938`), unloaded as it is.
  `relisted` remembers that this happened; `CommittedBounded` says that only it exceeds
  the budget and that it takes a preempting policy, and the first scenario of
  `RegistrySafety` reaches it.
* A cancelled sharer cancels the shared future, and with it every other sharer.
* Preemption and shutdown cancel helper tasks that are already done, so no request is
  cancelled, against `docs/guides/model-registry.md:201`; nothing wakes
  `wait_then_preempt` when `preempt_after_s` has passed; a timeout surfaces as
  `TimeoutError`, which the server answers with 500 instead of 503.

Prompt caches

* A promotion from SSD that covers the whole prompt re-feeds its last token
  (`scheduler.py:2306`), which the comment at `scheduler.py:2271` says corrupts the
  context; so does a paged hit with nothing left to process. `replayed` marks the
  requests concerned, and the entries stored from them hold one token more than their key.
* `fetch` takes no lock: an entry evicted by the worker in between raises `KeyError` and
  the request is refused (`memory_cache.py:1128`).
* A spill that fails, or crashes, between its row and its evictions leaves the SSD index
  above its limit until the next spill finishes (`ssd_cache.py:925` to `:943`);
  `unenforced` counts them.
* `save_to_disk` overwrites entry files in place and writes the index last; a crash in
  between pairs old keys with new states, and duplicates are counted twice on load
  (`memory_cache.py:1676`). A quarantine may take a directory that was just rewritten.
  Directories without a row are collected when the tier is opened, except those with a
  `.tmp` name, which never are (`ssd_cache.py:1236`). `remove` ignores
  spills that are still queued.
* A tier whose `close()` timed out stays detached when the engine starts again.
* Paged blocks are never released (`scheduler.py:2906` says that "LRU eviction will clean
  up"): a full pool stores nothing more until it is cleared. A clear in the middle of a
  store leaves a hash or an index entry for a block that is free.

Multimodal scheduler

* Rows of aborted requests stay in memory while the server is idle: removals wait for the
  next step, and no step runs without requests (`mllm_scheduler.py:563`).
* `completion_batch_size` bounds each extension, not the batch
  (`mllm_batch_generator.py:1929`); image requests wait while text and audio keep joining.
* The last chunk of an interleaved prefill samples with the generator's default sampler
  unless `top_k` or `min_p` is set, ignoring the request's temperature and `top_p`
  (`mllm_batch_generator.py:3101`).
* When detokenizing a response raises, the tokens of the step up to it are counted and not
  sent, so the error answer reports one more than its client got, and requests that the
  step had finished are told "error" (`mllm_scheduler.py:700`, `:872`).
* An exception inside the error handler ends the process loop while `_running` stays
  true, and `stop()` answers nobody who waits.
* `clear_runtime_caches` and `reset` use `self.vision_cache`, which is never set
  (`mllm_scheduler.py:1295`, `:1324`).

## 7. Not modelled

* Of modelled components: `start`, `stop` and `close` of the engine; exceptions in the
  processing of aborts and in the handlers of exceptions; the validation errors of
  `add_request`; a model whose size is estimated differently after its load; `reset` and `deep_reset`; chunked prefill and MTP of the text scheduler, MTP and the
  assistant drafter of the multimodal one; `register_model` of the residency manager; the
  trie of `PrefixCacheManager`, the legacy prompt cache, quantisation, and the RAM cache's
  own `save_to_disk` and `load_from_disk`. They would enter as further actions and sites
  of faults of the modules above.
* The server's handlers appear as the clients of those modules; the map from response ids
  to request ids, which its cancel endpoint ignores (`server.py:3937`), does not.
* Parsers of tools and of reasoning, API conversions, constrained decoding, tensor code
  and model patches, audio and embeddings, the command line, benchmarks and the vLLM
  plug-in make up most of the source. They are string matching, arithmetic on arrays,
  I/O, or delegation: no state whose ordering matters. `SimpleEngine` serialises requests
  by one lock around generators of `mlx_lm`; MCP talks to processes outside the
  repository.

For that reason the definitions stand for a small share of the repository's lines,
although for most of the code that schedules, caches and loads: the largest files
(`server.py`, `engine/simple.py`, `models/mllm.py`, `bench_serve.py`, `cli.py`) hold
handlers, tensor code and tools.
