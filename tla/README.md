# A verification project for LLM-SteadyInfer

LLM-SteadyInfer is a single-GPU serving runtime for LLaMA and Qwen models. Most of
its core logic is bookkeeping that decides *which* KV block a token is written to
and *who* may read it: a paged block pool with reference counts, a content-hash
prefix cache that shares blocks between requests, and a continuous-batching
scheduler that admits, chunks, preempts, resumes and retires sequences over both.
Underneath, one host thread keeps a CUDA stream busy: pinned staging buffers,
captured graphs and a caching memory pool whose lifetimes must outlast work that
is still queued. Below that, three model families chain some twenty kernels per
layer over buffers that are shared, aliased and sliced, and the kernels cut a row's
positions into splits, quads, tiles and quantized groups. On top, benchmark
drivers submit requests on a schedule and account for what became of them. This
project models those layers in TLA+, checks them with TLC on small instances, and
proves with TLAPS, for every size, that the two pools are correct, that sharing KV
through the prefix cache is sound, that the scheduler keeps its books and its promise
to those who wait, and that the step pipeline runs every forward pass on its own
inputs.

Paths below are relative to the repository's root as `src/...` in
`PROJECT.json`; `scheduler.cpp` and the like are under
`src/src/source/scheduler/`, their headers under `src/src/include/scheduler/`.

## 1. Inventory

| Component | State | Operations | What is hard |
|---|---|---|---|
| **Block allocator** `block_allocator.{h,cpp}` | free list (LIFO), reference count and pin per block, block table and busy flag per row, reclaim hook | allocate, append, mount a shared prefix, free from an index / all, pin, evict | a block is FREE, ALLOCATED or CACHED by two flags and a list that several operations update apart; an allocation that fails after its hook has already evicted |
| **Prefix cache** `prefix_cache.{h,cpp}` | hash map of entries, intrusive LRU list, statistics | lookup, commit a mount, insert committed blocks, evict | entries outlive the row that wrote them; eviction runs inside an allocation; hashes may collide |
| **Scheduler** `scheduler.{h,cpp}`, `sequence.h` | waiting queue, running sequences, finished history, per-sequence progress; the rows of the batch under construction | `add_request`, `step()` = admit, build the batch (growing and preempting), execute, record, update, requeue; `all_finished` | preemption in the middle of batch building; progress booked before the forward pass; a failing forward pass; sequences set back and resumed repeatedly |
| **KV manager** `kv_manager.{h,cpp}` | device KV tensors, S4 (quantized) pools, slot flags, owns the allocator | size the pool, deallocate a slot | the size it gives the pool decides whether anybody is ever preempted |
| **Step pipeline** `Scheduler::execute_batch`, `model.{h,cpp}` | pinned staging of the step's rows; one captured graph and scratch per batch size, an LRU of them; the model's stream | stage, capture, validate, replay, fall back, evict, sample, drain | staging rewritten under a queued upload; a captured graph bakes in addresses and geometry that other objects own; calls that fail halfway |
| **Device memory pool** `alloc_cu.cpp` | regions, split blocks, busy flags, waterlines | allocate (best fit, split), release (merge), free idle | fragmentation, retry after a failed `cudaMalloc`, locking |
| **Buffers, tensors** `buffer.cpp`, `tensor.cpp` | ownership of device memory | allocate, copy, resize | lifetime against asynchronous kernels |
| **Sampler** `argmax_sampler.cpp` | staging buffers, event | batched argmax | host buffer read only behind the event; staging reused while a copy is queued |
| **Attention and cache kernels** `kernels/cuda/mha_kernel_bf16.cu`, `kernels/cpu/` | K and V pools, residual ring | scatter, quantize a group, paged split / prefill / flash / single attention | every position read exactly once across splits, quads and tiles, from the pool it is in by then |
| **S4 quantized KV** `sequence.h`, the same kernels | packed pool, ring of the last tokens of each slot | pack a group when its last token arrives | which step packs a group, and which rows of that step already read it packed |
| **Transformer models** `qwen2.cpp`, `qwen3.cpp`, `llama3.cpp`, `model.cpp` | layers, fused layers, views into them, shared buffers | load, fuse and re-point, move to the device, batch / graph / single pass | buffers reused within a pass, stacked outputs viewed without a copy, fused weights viewed by the layers they replaced |
| **Operators, GEMM kernels** `op/` | none | matrix product (dense, AWQ), norm, RoPE, SwiGLU, add, embedding | ranges of slices, tiles, vectors and packed words at sizes that do not divide |
| **Tokenizer, checkpoint reader** `encode.cpp`, `tiktoken.h`, `unicode.cpp`, `safetensors_reader.cpp` | tables | encode, decode, load | sequential text and file processing |
| **Serving drivers** `benchmark/` | arrival schedule, submission window, accounts | size the batch, warm up, submit, step until finished, report | a scheduler that runs empty between arrivals, warm-up requests in the history, rejected and dropped requests in the accounts |
| **Demo, tools** `demo/`, `tools/` | none that outlives a call | chat, data preparation | interactive I/O |

How they interact: one thread drives everything. The driver calls
`add_request` between steps and `step()` while `all_finished()` is false.
`step()` calls the allocator directly (claim a row, mount, append, free) and,
through the allocator's reclaim hook (`set_reclaim_source`, set in the
scheduler's constructor), the allocator calls *back* into the prefix cache,
which calls `evict_cached` on the same allocator. The forward pass reads the
block tables and writes KV on the device.

Two things interleave here, though the code has no second host thread.
*Sequences* do: within one step, handling one sequence changes the pool, the
cache and other sequences, and the following ones are handled in the state that
results. The models explore every arrival time, every mix of prompts, every point
at which a forward pass fails. *Host and stream* do: the host enqueues copies and
kernels and goes on, and what it rewrites, releases or reads back must be past
the queued work that uses it. The models explore every delay between the two.
The device pool is called under a mutex, so its operations are steps. Kernels of
one stream run in order; *within* a launch, rows are written at once, and the models
let either of two conflicting writes win.

What makes each component correct:

* pool: `invariant_holds()` (its own runtime check), no block handed out while
  it is read, no block stranded, room to grow whenever the pool was sized for
  its rows;
* cache: the pins and the entries agree, a match can be mounted, a mounted
  block holds the KV of the prompt that mounts it, and nobody writes to it;
* scheduler: every accepted request ends, exactly once, in order, with exactly
  its tokens; a row or a block never falls between two lists; the batch handed
  to the device writes only to private blocks; preemption neither disturbs the
  batch under construction nor costs its victims anything for nothing;
* step pipeline: a copy carries the rows of the step that queued it, no queued
  work touches memory that is gone, a replayed graph belongs to the buffers and
  the geometry that are there now, a step's tokens come from its own logits, and
  the host gets out of every wait;
* device pool: blocks tile their regions, an owner has its memory to itself until
  it lets go, the ledger is exact, idle memory comes back;
* attention and cache: each row's attention is the softmax over exactly its own
  prefix, whatever chunks, cuts and shared blocks came before, and no two rows
  write different data to one place;
* models: a pass computes the logits of its own tokens and leaves their K and V, and
  only theirs, in the cache, through every aliased buffer and fused weight;
* drivers: the report is about the requests of the window and all of them, stamps
  are causal, a fitted pool can be allocated, the run ends.

`PROJECT.json` lists the hazards behind these at the line where they bite.

## 2. Modules

```
BlockAllocator  <- proofs in BlockAllocatorProofs
     ^  INSTANCE (Pool)
PrefixCache                      effects of the cache on itself and the pool
     ^                           <- facts about them in PrefixCacheProofs
     ^ EXTENDS          ^ EXTENDS
PrefixSharing          Scheduler --INSTANCE (Promise)--> RequestLifecycle
     ^                     ^
MCPrefixSharing        MCScheduler                values for the constants

PrefixSharing  <- proofs in PrefixSharingProofs, over PrefixCacheProofs
                     ^ INSTANCE (SP): the scheduler's rows are such rows
Scheduler      <- proofs in SchedulerProofs, over SchedulerBooksProofs

RequestLifecycle <--INSTANCE (Lifecycle)-- ServingDriver <- MCServingDriver
                                           ^ proofs in ServingDriverProofs

StepPipeline  <- MCStepPipeline                   host and stream of one step
     ^ proofs in StepPipelineProofs
DevicePool    <- proofs in DevicePoolProofs       device memory

PagedAttention <-EXTENDS- KvQuant <- MCKvQuant    cache contents and attention

Dataflow <-EXTENDS- Qwen2Forward, Qwen3Forward, Llama3Forward   calls of a pass
   ^                    | INSTANCE (Q2, Q3, L3)
   +----EXTENDS---- ForwardPass <- MCForwardPass  loading, fusing and running them
Kernels <-EXTENDS--     ^                         products and the add
```

The modules meet where the components call each other:

* `Scheduler` and `StepPipeline` meet at `execute_batch`: to `Scheduler` a forward
  pass is one step that writes the KV of the whole batch or fails; `StepPipeline`
  opens it up and shows why the step may be taken as one.
* `StepPipeline` and `DevicePool` meet at the lifetime of memory: the pool gives a
  released block to the next owner at once, which is why releases in the pipeline
  must be behind the stream.
* `Scheduler` and `KvQuant` meet at the batch: `KvQuant` receives any batch of
  chunks and decode rows a scheduler could build, with cuts, resumed slots and
  mounted prefixes between them, and shows what the kernels make of it.
* `KvQuant` and `ForwardPass` meet at one attention call: to `ForwardPass` attention
  over a complete, correctly placed prefix is a value; `KvQuant` shows that it is.
* `ServingDriver` runs over `RequestLifecycle`, the promise `Scheduler` is shown to
  keep (`Lifecycle`), and assumes nothing else of the scheduler.

### BlockAllocator

The variables have the names of `BlockAllocator`'s fields. A block table is the
sequence of its entries other than -1 (they are always contiguous). Each public
operation with a caller is an action: `AllocateBlocks`, `AppendBlocks`,
`ReserveSharedPrefix`, `FreeBlocksFrom` (`free_all` is start 0), `MarkCached`.
What the reclaim hook evicts is a parameter of the allocating actions, so the
module stands for the pool under **any** hook: `Evictions(n)` allows any
distinct parked blocks, never more than the free list is short of. The failure
branches are modelled: an allocation that still falls short keeps the evicted
blocks on the free list. Calls that return -1 or false without a change are
stuttering steps. `inc_ref` and `dec_ref` have no callers and are left out.

### PrefixCache

`lookup` (longest chain of hits; a hit compares hash, predecessor hash and
tokens and requires a mountable block), `commit_mounted` (the LRU touch),
`insert_committed` one block at a time (skip when the hash is taken, evict one
at capacity, refuse at the hard cap, else pin and list), and the LRU eviction
that is the pool's reclaim hook. `BlockHash` is a constant operator: a run
chooses one without collisions or one with. The eviction walk is the one for a
single block, the only one the scheduler's calls make (`append_blocks(row, 1)`),
so its scan cap never matters: it only stops walks that have already evicted.

### PrefixSharing

The cache and the pool under the sequences that use them, in *any* order a
scheduler could choose: claim, mount, grow, prefill, decode, record, be cut
anywhere, finish. `kv` is a ghost variable: the prompt prefix whose KV a block
can be relied on to hold. A block that is free or newly handed out can be
relied on for nothing. The granularity is a block.

### Scheduler

`add_request` and `step()` in the paged layout. The passes of `step()` are the
values of `phase`; a pass handles one sequence (or one block of it) per action
and `todo` is what it has left. The correspondence:

| `scheduler.cpp` | actions |
|---|---|
| `add_request` | `AddRequest` (both rejections use up an id) |
| `try_admit_sequences` | `Resume`, `ClaimRow` + `MountPrefix`, `EndAdmission` |
| `ensure_blocks_for` | `Grow`, `PlanPreemption` |
| `try_preempt_for`, `truncate_sequence` | `PreemptionPlan` (both rounds, repeat victims last, deeper cut when the tail is shared), `Preempt` |
| `build_batch_rows` | `PlaceDecode`, `PlaceChunk`, `PlaceShrunkChunk`, `ForceFinish`, `EndDecodeRows`, `EndPrefillRows` |
| `execute_batch`, `force_finish_all` | `Forward`, `ForwardFails`, `AbortOne`, `EndAbort` |
| `record_committed_prefill` | `RecordBlock`, `EndRecord` |
| `update_sequences`, `retire_finished` | `RetireDone`, `EndUpdate` |
| `flush_preempted` | `FlushPreempted` |

Sampling is greedy, so the answer to a prompt is a function of the prompt: a
request carries `eos`, the number of its first sentence-ending token. Tokens
are abstract. The loops over sequences are recursive functions (`Filtered`, `RowsOf`,
`Considered`), so that they can be proved about. `kv` is a ghost at the granularity of a slot: for each slot of
each block, the context (all tokens up to that position) whose KV the last
forward pass left there; `retired` is the ghost of all retirements, in order, that
`finished`, which forgets, is compared with. `preempt_count` is not counted past the
threshold it is compared with (2).

### RequestLifecycle

The abstract specification: what the driver is promised about a request.
Requests are first admitted in the order they were accepted, one that had to
yield is resumed before any new one starts, at most `MaxBatch` run, and a
request that is done has exactly the tokens it was going to have. Aborting is
allowed only if forward passes may fail or the pool is undersized. `Scheduler`
implements it: `Promise` maps the state of each sequence, its generated tokens
and the length of its full answer; `Lifecycle == Promise!Spec` is a property of
a run and a theorem.

### StepPipeline

`pc` is where the host is in `execute_batch` and `decode_step`; `stream` is what
it has queued. A queued operation names what it reads, what it writes and the
memory it touches, and takes effect when `StreamRuns` executes it. Data is the
number of the step it came from, so "the right data" is an equality of steps.

| Code | actions |
|---|---|
| scheduler constructor, destructor (`cudaStreamSynchronize`, then the buffers go) | `NewScheduler`, `DestroyScheduler` |
| `execute_batch`: rows into pinned staging | `StageRows` |
| `forward_batch`, its error | `Forward`, `ForwardFails` |
| drain of a pure prefill step | `DrainPrefill` |
| `sample_bf16_on_stream`, the event | `Sample`, `TakeTokens` |
| `decode_step`: entry, limit | `FindEntry`, `EvictEntry` |
| `BatchScratch::ensure`, inputs, block table upload | `StageInputs` |
| validation of the baked-in pointers and geometry | `DropStaleGraph` |
| begin / end capture, instantiate | `CaptureGraph`, `CaptureFails` |
| `cudaGraphLaunch` | `LaunchGraph`, `LaunchFails` |
| the direct path of an exhausted or failed entry | `DirectForward`, `DirectFails` |

Waits are guards (`Drained`, `Sampled`), so a missing one shows up as a queued
operation that outlives what it reads. `Addrs` lets a new scheduler get the
addresses of the old one, and `Shapes` another geometry at the same addresses.
The block table is a queue entry of its own because the code uploads it straight
out of the scheduler's staging, outside the graph.

### DevicePool

The blocks of a pool are a set of records with the names of the code's fields;
addresses are integers within `DeviceMem`, so overlap, adjacency and splitting
are arithmetic. `Reuse` (best fit, split), `Grow`, `RetryGrow` and `OutOfMemory`
(idle regions go back first) are `allocate`; `Release` marks, merges and flushes
above the waterline; `FreeIdle` is the request to give everything back. The driver
places a region anywhere it fits and may refuse a `cudaFree`; what it refused
when last asked is the ghost `refused`. `live` is the ghost of the owners.

### PagedAttention and KvQuant

`PagedAttention` has the walks of the attention kernels as operators: which positions
a warp reads (`Walk`: whole quads below the quantization boundary, whole quads past
it, then one at a time), how a row is cut into splits (`SplitRange`, `FlashRange`),
which warp computes which head (`WarpOutput`, `HeadGroups`), which CTA stages which
prefill rows (`PrefillCtas`), and what the online softmax makes of a step (`Absorb`,
`Combine`, `LegacyAbsorb`). A weight `exp(s - m)` is its exponent, an accumulator the
list of terms it has added, so rescaling is an addition and equality is exact.

`KvQuant` is one layer's cache under the batches of the scheduler: what a cell holds
is the text up to its token, so KV of another prompt, of another position or of a
stale step is a different value. Conflicting writes of one launch leave `Torn`.

| Code | definition |
|---|---|
| admission with or without a mounted prefix, preemption, retirement | `Admit`, `Cut`, `Retire` |
| a step's rows: decode rows in front, then runs | `BatchOf`, `Step` |
| the perplexity driver's chunk (last position as decode row) | `ScoreChunk` |
| `paged_kv_scatter`, `paged_kv_group_quantize_kernel` (`value_at`), `paged_kv_residual_scatter_kernel`, in the order of `forward_batch` | `RowWrites`, `GroupWrites` (`GroupKey`), `RingWrites`, `WriteKV` |
| `seq_last_pos`, the boundary of a row | `LastPos`, `Boundary` |
| `paged_attention_dispatch` and the kernels behind it | `Attention`, `SplitAttention`, `PrefillAttention`, `FlashAttention`, `HostAttention`, `LegacyAttention` |

`AttentionExact` is the question of the module: not what one kernel does to one row
but that writers and readers agree about *when* a group is packed, over any history.

### Dataflow, Qwen2Forward, Qwen3Forward, Llama3Forward, Kernels, ForwardPass

`Dataflow` is the vocabulary of the model files: dimensions (`ModelInfos`), tensors as
a place (cell, first segment, segments per row) with a width, and constructors for
the calls. The three family modules translate `qwen2.cpp`, `qwen3.cpp` and
`llama3.cpp` function by function into sequences of calls: which layers are created
with which shapes and biases, what is fused and re-pointed, what `to_cuda` moves,
`forward_batch`, and the single-sequence `predict`.

`ForwardPass` runs them. `SkipGroup`, `FuseLayer` and `ToCuda` are loading
(`init_mem`), `Begin` chooses a pass, `Launch` makes one call, `Finish` ends it. A
buffer segment holds a *value*: an intermediate result of the transformer with its
layer and its token. A call on the right operands yields the next such value and
`Junk` on any others, so a stale buffer, a wrong alias, a wrong layer's weight or a
row of another token cannot reach the logits unnoticed. A layer's `check()` is
`Checks`; a refusal is `stage = "fatal"`, the program's `STATUS_CHECK`.

`Kernels` is the arithmetic of how matrix products and the add divide their work:
split-K slices and Tensor Core tiles of the AWQ kernel, its packed words and groups,
the per-column product of older devices and the CPU, the strided dense product, the
vectorised add. `MatmulWrites` requires that every row and column of a call is
computed from every input exactly once and from the codes of its own columns.

### ServingDriver

The three benchmarks around a scheduler that keeps the promise of
`RequestLifecycle`: a call of `step()` is the phases of `turn`, and everything else
is the driver's thread.

| Code | action |
|---|---|
| batch fitted to free memory, `Scheduler` and `KVManager` construction | `BuildScheduler` (`AutoBatch`, or the number asked for if the free memory is unknown; `EstimatedBytes`, `PoolBytes`) |
| warm-up rounds, priming, draining | `WarmUp`, `Prime`, `Drained` |
| start of the window; submission of everything | `OpenWindow`, `SubmitAll` |
| the loop's condition, the clock read at its top | `LoopTop` (`MoreToDo`) |
| arrivals that are due, with the stamp of their schedule | `Arrive`, `ArrivalsEnd` |
| `step()` | `CallStep`, then `Admit`, `AdmissionEnds`, `Forward`, `ForwardFails`, `Retire`, `StepReturns` |
| per-request statistics | `Report` |

## 3. Runs

| Run | States | What it shows |
|---|---|---|
| `block_allocator` | 98,952 | 4 blocks for 3 rows of 2: sequences of operations under any hook keep `invariant_holds`, rows stay owned, no held block is handed out, only parked blocks lose their pin; while at most 2 rows are in use, each finds a free or an evictable block |
| `prefix_sharing` | 628,896 | three prompts over branching prefixes, 2 rows, 4 blocks, capacity 1 (hard cap 2): entries and pins agree and stay within the cap, KV is that of the reader's own prompt, shared blocks are read-only, every match can be mounted |
| `scheduler` | 199,091 | the pool as KVManager sizes it (2 rows of 3 blocks), failing forward passes, rejected prompts: nothing is lost, KV is intact, nobody is preempted or starved of a block, each request lives the life `RequestLifecycle` promises |
| `scheduler_preempt` | 422,725 | 6 blocks for 3 rows of 4, four contending requests: preemption, re-prefill, re-decode, chunk shrinking and force-finishing; KV is intact, the batch is sound, a request that may be admitted finds a row, a plan frees what it promised, and every step is one of `BlockAllocator` or changes nothing of the pool, so the pool's theorems apply; every request ends, although sequences preempt one another and one request more than there are rows waits |
| `scheduler_history` | 3,905,077 | six short requests, failing forward passes, a history of 4: after every order of retirements it is the latest of them without a gap, each request was retired once, and the counters say how many there were and how many were dropped |
| `step_pipeline` | 1,497,822 | three batch sizes over two graph entries, every call may fail, schedulers are rebuilt at the same or other addresses: what a step that succeeded queued is settled, no queued work touches memory that is gone, kernels run with the current geometry, every pass carried through read its own inputs, tokens are the step's own |
| `step_pipeline_aborted` | violation | disagreement 1 below |
| `device_pool` | 116,316 | 12 bytes, alignment 2, requests of 1, 4 and 5, waterline 5, a driver that refuses frees at will: tiling, ownership, idle regions whole, the ledger exact and its waterline kept |
| `kv_quant` | 156,825 | five model geometries (int4 and bf16 paged, grouped heads that divide and do not, the slot layout, the CPU), two sequences with chunks of 1, 3 and 6, cuts, re-used slots, shared prefixes: attention is exact for every row, no place is written twice in a launch, every partial is published by one warp |
| `forward_pass` | 223,578 | the three families on GPUs with and without Tensor Cores and on the CPU, dense and AWQ, fused and not, tied and not, in nine passes of five kinds: logits and cache are right |
| `mixed_checkpoint` | violation | disagreement 2 below |
| `serving` | 883,966 | the three drivers, all arrival patterns and window lengths, rejected prompts, failing forward passes, empty schedulers between arrivals: the report is about exactly the window's requests, stamps are causal, a fitted pool fits, every run ends |

The remaining modules have no run of their own: `RequestLifecycle` is the target
of two refinements, `Dataflow`, `Kernels` and the families are run by
`forward_pass`, `PagedAttention` by `kv_quant`. The type invariants of
`PrefixSharing`, `Scheduler`, `StepPipeline` and `KvQuant` (`TypeOK`) hold on the
bounds of their modules' runs and are not repeated there.

`CHECK_DEADLOCK FALSE` is said where the system really stops. The runs of
`Scheduler`: the driver stops when everything is finished and the bound on
requests is used up; that nothing stops earlier is `EveryRequestEnds`. Those of
`StepPipeline` end when `MaxSteps` steps are executed and `MaxSchedulers`
schedulers were built. `KvQuant`
offers chunks of some sizes only, and a sequence longer than what they add up to
may be alone with no block left. `ForwardPass` ends with its one pass and
`ServingDriver` with its report; that it gets there is `RunEnds`.

### Bounds, and why they are enough

* Blocks of two tokens (`BlockSize`) are the smallest that have a boundary, an
  inside and a partially filled last block. Prompts of 1 to 7 tokens include
  ones that end on a block boundary and inside a block, and prompts that share
  none, one or two blocks.
* Budgets are scaled with them: `PrefillReserve` 3 or 4 instead of 512, so that
  prompts are both shorter and longer than a chunk and two prefills compete for
  one.
* `MaxEntries` 1 to 3 makes the cache evict at capacity and reach its hard cap
  of twice that.
* `HistoryLimit` 4 in `scheduler_history`: the fifth retirement drops two records at
  once, the sixth refills the history, so a batch that is booked as one record, or
  dropped from the wrong end, shows. Its sequences fit one block of four tokens, so that
  six of them stay cheap. Elsewhere the limit is 0 (unlimited).
* `MaxRequests` bounds the requests a driver submits (3 over 2 rows, 4 over 3, and 6
  over 2 in `scheduler_history`): more than there are rows, so one always waits.
* In the undersized pool deep and shallow cuts, cuts of shared tails, repeat
  victims and force-finishes all occur. Plans with two victims do not occur at
  these bounds.
* Three batch sizes over two graph entries, or two over one, evict an entry that
  comes back later; `MaxSteps` 3 to 4 are enough to capture, replay, be evicted,
  and capture again, and two schedulers enough for one to take the addresses of
  the other. `MaxCaptureAttempts` is the code's 2. A queue never grows past what
  three unfinished steps leave in it, because a step that succeeds waits.
* `DeviceMem` 12 with `Alignment` 2 holds six granules: enough for a region split
  in three, for neighbours on both sides of a released block, and for adjacent
  regions. Sizes 1 and 5 are rounded up; splitting 6 or 4 by 2 leaves a tail
  that is kept. Sizes and regions are multiples of the alignment, which is also
  the smallest tail kept, so the branch of `Split` without a tail is the exact
  fit. Waterline 5 is crossed by three free granules and not by two.
* `KvQuant` scales the kernels' sizes and keeps their ratios: a quad of 2, groups of
  two quads, blocks of two groups, prefill tiles of two quads. Texts of 10 and 9
  tokens pass one block boundary and end inside a group; a chunk of 6 completes
  a group in the middle and is longer than the ring of 4, one of 3 ends anywhere.
  Chunks of 2 warps per CTA leave the last CTA of a run partly filled. Four heads
  over three KV heads divide unevenly.
* `ForwardPass` gives every kind of buffer a width of its own, so that nothing fits
  by accident (Qwen3's heads are together wider than its residual stream), and
  two layers, so that the first layer's leftovers meet the second. The kinds of
  pass are those the scheduler, the graphs, the perplexity driver and the chat
  demo make: seven rows fill more than one block of rows of the GEMM, the
  prefill-only one has no logits. Tile 2, three warps, chunks of 2 inputs and
  inputs of 16, 20 and 24 leave slices short and tiles unfilled; one AWQ group is
  two chunks.
* `ServingDriver` has datasets of two prompts with the refused one first, last or
  absent, gaps and windows of 0 and 2 ticks within a clock of 5: two arrivals at
  once, one after the scheduler ran empty, one at the end of the window and one
  past it. Pools with one and with two quantization groups per block and three
  sizes of free memory give batches of none, one and the cap.

### Two kinds of pool

`KVManager` sizes the pool at `max_batch * max_blocks_per_seq` blocks. For such
a pool `RoomForEveryRow` (proved for all sizes) says an append never fails,
because cached blocks that no row reads can always be evicted; so preemption,
chunk shrinking and force-finishing cannot happen in the deployed
configuration: `SizedPoolSuffices`, proved as `FullTablesSuffice`. That code
exists for smaller pools, which the allocator accepts; `scheduler_preempt` models
the scheduler's contract over such a pool.

### Fairness

`Scheduler!Spec` assumes weak fairness of `Step`, everything `step()` does, and
nothing about arrivals. The drivers justify it: the benchmarks and the demo loop
`while (!all_finished()) step();` on one thread, and inside `step()` nothing
waits. No fairness is assumed for the outcome of a forward pass or for any
particular sequence.

`ServingDriver!Spec` assumes that time passes (`Tick`), that the driver's thread runs
(`Drive` or `Step`), and, strongly, that forward passes which could generate a token
do so again and again. The last stands for the scheduler's own promise: with its steps
refined to "some of the running rows get a token", a schedule that only ever
prefills would be possible, and `EveryRequestEnds` says `Scheduler` has none.

The other specifications have no fairness: their properties are safety properties.

## 4. Disagreements

Where the code does something else than a comment, a document or its own checks say.
The first two are runs; each of the others is stated by a property of the model and
shown by the configuration named with it, or was met while translating.

1. **An aborted step leaves its upload queued** (`step_pipeline_aborted`).
   `decode_step` enqueues the block-table upload out of the scheduler's pinned
   staging and may then fail, for instance in `cudaGraphLaunch`;
   `execute_batch` calls `force_finish_all` and returns (`scheduler.cpp:1073`, and
   `:1138` on the prefill branch) without waiting for the stream. The next step
   rewrites the staging under the queued copy, which is what the comment at
   `scheduler.cpp:1146-1148` says must not happen. The drain behind that comment
   is reached only when the forward pass succeeded. The damage is limited:
   `ForwardOwnInputs`, `StagingSettled` and `BuffersLive` hold with all failures
   enabled, because the torn copy belongs to a step already given up and the next
   step uploads its own table behind it.
2. **A mixed layer pulls the storage from under the layers before it**
   (`mixed_checkpoint`). Layers are fused one by one, and the projections of a fused
   layer become views of its weight. When a later layer's group is part dense and
   part AWQ, the builder clears *all* fused layers of the group
   (`qwen2.cpp:315-318`, and the same in the other families) and goes on unfused:
   the earlier layers' projections are left with views of storage that is gone.
   `model.h:533-536` says the caller then "keeps the unfused projections".
3. **Hash collisions are not always a miss** (`KVIntact` of `PrefixSharing` with
   `BlockHash <- CollidingHash`, `Prompts <- CollidingPrompts`). `prefix_cache.h:78-79`
   says a 64-bit collision "is then a miss, not silent KV corruption". `lookup` does
   compare tokens and predecessor, but `insert_committed` skips a block whose hash is
   *taken* without comparing (`prefix_cache.cpp:169`), advances its chain over the
   foreign entry, and inserts the next block behind it. A later prompt that
   legitimately owns the foreign entry then matches the child, whose KV was computed
   behind another first block. It takes two blocks that collide, which is improbable
   for 64 bits.
4. **Eviction strands the children of an entry** (`EntriesReachable` in the
   configuration of `prefix_sharing`). `block_allocator.h:26-29` says cached KV "stays
   shareable until the pool needs the block back". The blocks of a prompt are recorded
   in order, so the *first* block of a chain is the least recently used; evicting it
   (`prefix_cache.cpp:229`) leaves the rest pinned but unreachable, since `lookup` stops
   at the missing first block. They are reclaimed in their turn (`CacheCoherent`,
   `RoomToGrow`), so no capacity is lost for good; hits are.
5. **An exhausted graph entry stays exhausted** (`ExhaustedAgainstCurrent` in the
   configuration of `step_pipeline`). `model.cpp:305-307` says a rebuilt scheduler "also
   un-sticks an entry whose attempts were exhausted against the old buffers". The reset
   is inside a branch that requires a captured graph (`:288`), and an exhausted entry
   has none: it stays on the direct path. Results are the same; the speed of the graph
   is lost for that batch size.
6. **The single-sequence attention kernel rescales the wrong way**
   (`AttentionExact` with `Configs <- Single`). Past its first tile,
   `multi_head_attention_kernel` multiplies what it has by `exp(m_j - m_i)`, the new
   tile's maximum minus the old one (`mha_kernel_bf16.cu:414`), where the online
   softmax needs the inverse, over a running maximum. Tiles with different maxima get
   wrong relative weights. Only `predict` uses it; the serving path has other kernels
   (`kv_quant` shows those exact).
7. **The S4 counters count a token too many** (`CountedTokensPacked` in the
   configuration of `kv_quant`). `sequence.h:39-46` says the K of tokens below
   `k_quantized_tokens` is packed; `sync_kv_quant_state` derives it from a length that
   includes the token just sampled (`sequence.h:58`), whose KV the next step writes.
   Nothing reads the counters.
8. **The online driver's accounts do not close when a prompt is rejected**
   (`LedgerCloses` in the configuration of `serving`). `online_serving_benchmark.cpp:850`
   checks "submitted = completed + rejected + dropped" and warns otherwise, but a
   rejected prompt is not counted as submitted (`:499-500`, `:533-535`). The offline
   driver states the same sum (`offline_batch_benchmark.cpp:410-412`) over the same
   counts. What does hold is `completed + dropped = submitted` (`LedgerOfWindow`).
9. Without a property: `prefix_caching_benchmark.cpp:427` says its time to first token
   starts at the arrival, the code subtracts `admit_time` (`:440-447`), so queueing is
   not in it. `kv_manager.cpp:125-129` says the default channel group is 32, the code
   below uses 8. `argmax_kernel.cu:16` skips a reduction step when either side holds
   `SIZE_MAX`, so a thread whose share of a row has nothing comparable (all NaN or
   -inf) refuses what the threads behind it hand on; the comment at `:125` reserves
   `SIZE_MAX`, and token 0, for a row without any comparable value.

## 5. Proofs

`BlockAllocatorProofs` proves, for every `NumBlocks`, `NumRows`,
`MaxBlocksPerSeq` allowed by the assumption `PoolSizes`, and for every reclaim
hook:

* `TypeCorrect`, `PoolConsistent`: `Spec => []TypeOK`, `Spec => []InvariantHolds`.
  The inductive invariant is `IInv == TypeOK /\ InvariantHolds`. None of the
  four parts of `InvariantHolds` is inductive alone: a block popped off the free
  list is in no table *because* its count is 0 (`ThreeStates`) and counts are
  exact (`RefCountExact`), which needs tables without aliases (`NoAlias`).
  There is one lemma per effect (`TakeKeeps`, `FallShortKeeps`, `MountKeeps`,
  `FreeKeeps`, `PinKeeps`); `HoldersChange` is the cardinality argument they
  share, and `ToppedUp`, `PoppedBack`, `CutInjective` are about sequences.
* `HeldStaysHeld`, `UnpinIsSafe`: the action properties of the
  `block_allocator` run. `StepKeepsHeld` shows both for each operation, from
  `TakeHolders` (who holds what after a take) and `CutHolders`.
* `RowsStayOwned`: unowned rows mount nothing, tables keep within their width.
* `RoomForEveryRow`: if the pool has a full table for every row in use, a row with
  room finds a free or a parked block. It is a counting argument: were there
  none, every block would be referenced, hence the tables, one of them not full,
  would map onto all blocks, which are at least as many as there are entries in
  full tables.

`DevicePoolProofs` proves, for every device size, alignment, waterline and set of
request sizes allowed by `DeviceConstants`, wherever the driver places regions
and whatever it refuses to take back:

* `TypeCorrect`, `Tiled`, `Backing`: `TypeOK`, `RegionsTiled`, `LiveBacked`. The
  inductive invariant is `Sound(blocks, regions, live)`, their conjunction. None
  is inductive alone: that a released address names one busy block needs
  `LiveBacked` and `Apart`, that a returned region leaves no block behind needs
  `Inside`, and that merging swallows exactly the idle neighbours needs the
  tiling before it and that idle blocks were merged already. `Sound` takes its
  blocks, regions and buffers as parameters because an operation is one or two
  changes of them, each with a lemma: `SplitKeeps`, `FreshKeeps`, `DropKeeps`,
  `ReturnKeeps`; a failed allocation that first gave regions back, or a release
  that crosses the waterline, is two of them in a row.
* Merging is the core. `RunShape` shows that of the idle blocks which the merge
  loop collects each lies directly beside the released one, because the rest
  had no idle neighbours; so there are at most three, with a first and a last
  (`RunEnds`), and one block from the first to the last tiles what they tiled
  (`MergeTiles`).
* `LedgerKept`: `LedgerExact`, the counters against the sums of block sizes, with the
  bound the waterline sets. A sum over a set is a fold, and the induction a fold calls
  for is not available as a theorem. The fold reads its value from a table of the sums
  of all subsets; that there is such a table, and that the tables of two sets agree
  where they meet, is shown by looking at a smallest subset for which it fails
  (`SmallestOf`, `TableExists`, `TablesAgree`). From that come the facts the proof uses: a
  sum grows by what is added (`BytesWith`), and splits along a partition (`BytesParts`).
  The rest follows the changes of `Sound`: a split, a merge and a returned region move
  bytes between idle, busy and reserved and lose none.
* `IdleWhole`: `IdleRegionsWhole` follows from the tiling: the block that covers
  a region's first cell starts there, and the one behind it would be idle and
  adjacent.

`PrefixCacheProofs` has no theorem of its own but what every user of the cache needs:
one lemma per effect of `PrefixCache` (`ClaimKeeps`, `MountMatchKeeps`,
`AppendBlockKeeps`, `InsertBlockKeeps`, `ReleaseKeeps`) that says which tables, pins,
entries and free blocks it leaves as they were, that `CacheInv` (the pool's `IInv` and
`CacheCoherent`) survives it, and that it is a step of the pool (`PoolMoveKeeps`). The
lemmas of `BlockAllocatorProofs` enter through an instance of that module.

`PrefixSharingProofs` proves, for every pool, capacity, set of prompts and hash allowed
by `CacheSizes` and `PromptsFit`:

* `PinsAreEntries`, `SharingImplementsPool`, `WritersAlone`: `CacheCoherent`,
  `PoolSpec` and `SharedReadOnly`, whatever the hash does. The inductive invariant is
  `SharingInv`. `CacheCoherent` alone is not inductive: `insert_committed` pins the
  block at a place of a row's table, and that it is not pinned for another entry
  already is known only because an entry for a block the row wrote has the hash of the
  row's own chain (`EntriesNamed`), which needs the chain to be that of the prompt
  (`ChainsOwn`) and the blocks not yet written to be the row's alone (`WritableOwn`).
  That again survives a mount only if whatever two rows hold is pinned
  (`SharedPinned`) and survives an eviction because what is evicted is held by nobody.
  `SharingImplementsPool` is the refinement of `BlockAllocator` by its users, step by
  step: every action is one of the pool's, with the blocks the cache gives up as its
  reclaim hook, or leaves the pool as it is. So `HeldStaysHeld`, `RoomForEveryRow` and
  the other theorems about the pool hold here.
* `SharedKVIntact`, `MatchesMount`: `KVIntact` and `MatchMountable`, from the assumption
  `NoCollisions` that no two different prefixes of the prompts end in the same hash.
  `block_hash` is 64 bits wide, so this cannot hold of all prompts there are; it is an
  assumption about the prompts submitted, and disagreement 3 is what happens without
  it. The run's prompts and hash satisfy it. The invariant adds `KVInv`: what a row has
  committed is there (`KVHeld`), and what an entry points at is the prefix its hash
  stands for (`EntriesHold`).

`SchedulerBooksProofs` and `SchedulerProofs` prove, for every pool, budget, cache
capacity, history and set of requests allowed by `CacheSizes`, `SchedulerSizes` and
`RequestsGiven`, whatever the hash does, and under `AbortsClean`:

* `NothingLost`, `BatchesSound`, `AdmissionsFindRows`, `FullTablesSuffice`,
  `SchedulerTyped`: the invariants of the runs that need no more. `HistoryCounts`:
  `HistoryExact`, by following one retirement. What it compares the history with is
  `retired`, all retirements in their order, which the model keeps and the code does not;
  `History` carries it along, beside `Inv`.
  `SchedulerPinsAreEntries` and `SchedulerImplementsPool`: `CacheCoherent` and `PoolSpec`
  under the schedule the scheduler really makes. `LifecycleKept`: the refinement of
  `RequestLifecycle`.
* `AbortsClean` says that forward passes fail only in a pool with a full table per row
  (`Roomy`). `KVManager` builds no other. In a smaller pool a step may finish a sequence
  for want of a block and then fail; `force_finish_all` passes over the finished one and
  clears the list it is on, with its row. So the theorems hold of the deployed scheduler
  with failures, and of one over any smaller pool without.
* The inductive invariant is `Inv == Base /\ SP!SharingInv`. `Base` says what is true of
  every sequence at each point of a step, in named parts: who is on which list
  (`Queues`), in which order (`Ordered`), who holds which row (`Holdings`), how far it
  has come (`Measured`), that it has the blocks for that and, unless it is complete, none
  it does not need (`Provided`), what rows are placed (`Batched`) and whose cuts are
  planned (`Planned`). `AdmissionNeverBlocked` needs `Holdings` with `Ordered`: every
  sequence that waits with a row is ahead of all that wait without. `SizedPoolSuffices`
  needs `Provided`, which bounds a table by the width of a row, so that
  `RoomForEveryRow` applies, and the fact that a plan is only made when the pool is
  exhausted.
* `SharingInv` is that of `PrefixSharing`: `SP` is the instance whose rows are the
  scheduler's sequences (`RowPrompt`, `RowWritten`, `RowChain`), and every action of the
  scheduler is shown to be one of `PrefixSharing`'s or to leave its variables alone. What
  is written of a row is what forward passes have been over (`Committed`), which is less
  than `prefilled` while a chunk is in the batch, since the code books it first. That
  batches write only blocks nobody else reads (`BatchSound`) is then `WritableOwn`. The
  ghost `kv` of the instance stays blank.
* `BlockSize * blocks` and rounded quotients are not linear; their few facts
  (`FullBlocks`, `InBlocks`, `FitInBlocks`) come first. Plans and counts of rows are
  recursive functions, whose solution and range follow from one lemma on steps
  (`Recursion`); `RowsFacts` and `PlanFacts` are what is needed of them: how a count
  grows with a row, and that a plan cuts each victim once, never one with a row in the
  batch, and leaves it a block.
* `SchedulerKVIntact`: `KVIntact`, from the assumption `SP!NoCollisions`, as for blocks in
  `PrefixSharing`, but of single positions and at every point of a step. The invariant
  `KVInv` adds what a sequence has been over (`KVHeld`; not after a failed pass, when it
  is about to be dropped) and what an entry stands for (`EntriesHold`). It survives a
  batch because a batch writes only blocks of the row's own (`WritableOwn`), a mount
  because an entry found under a hash is for the prompt's own prefix, and a cut because
  a sequence that is set back counts less as computed.
* `PlansSuffice`: `PreemptionSuffices`. The invariant it needs, `PlanCovers`, says that the
  free blocks and those the remaining cuts of a plan will free (`Available`) cover what
  the pass is short of. A plan reckons with the blocks of a victim that are mounted
  once and not cached (`GainCounts`); those of two victims are different
  (`OnceMounted`, `GainedApart`), so a plan's account adds up (`ConsiderPays`, `PlanPays`); and
  a cut frees its own without spoiling what the plan reckons with elsewhere
  (`CutFrees`, `CutsElsewhere`). A block that victims share is not reckoned with, so a cut
  may free more than was planned, never less.

`StepPipelineProofs` proves, for every set of batch sizes, addresses and geometries, any
number of graphs, steps and schedulers allowed by `PipelineConstants`, and every
pattern of failing calls:

* `Types`, `StagingIsSettled`, `QueuedBuffersLive`, `QueuedGeometryCurrent`,
  `ForwardsReadOwnInputs`, `StepsReturnOwnResults`: the invariants of the
  `step_pipeline` run. The properties look at one operation of the queue or at the end of
  a step; the inductive invariant `IInv` says what the queue looks like at every line
  of the host's program. Its parts: where the host is and what is true of its step there
  (`HostInv`); whose scratch and which geometry a captured graph has, with the one
  exception of the graph that is about to be dropped (`PoolInv`); the stream holds the work of
  one scheduler in the order of its steps, within its memory and the scratch of
  current entries (`StreamInv`); uploads of the running step read its rows
  (`SourceInv`); for each operation, the step's inputs and block table *arrive*
  before it, because their copy is queued ahead of it or has run with nothing older behind
  it (`Arrives`, `ForwardInv`); and what the last operations are while the host
  waits (`TailInv`).
* One lemma per action and part. Two facts do the work: an entry that is evicted or
  regrown gives its scratch back behind a drained stream, so that what is queued never
  names it; and steps that fail leave copies of *older* steps only, which the order of
  the stream puts before anything the next step queues.

`ServingDriverProofs` proves, for every dataset, window, arrival process, warm-up, shape
of pool and amount of memory allowed by `DriverConstants` and `GeometriesGiven`:

* `LedgerIsOfWindow`, `StampsCausal`: `LedgerOfWindow` and `ArrivalsCausal`. The first looks
  at a report only; the invariant `IInv` keeps its books at every step (`Books`): the
  refused are counted by position, the accepted are the positions behind the requests
  that are not warm-up, and there are as many as were counted. With `Course`, which
  says that a report comes after everything ended and everything due was handed in,
  that is the report. `StampsCausal` needs to know of the next stamp that it is no
  earlier than any so far (`Stamps`) and that the loop's reading of the clock lies in the
  past (`Times`). What the drivers know of the scheduler is only what the actions of
  `RequestLifecycle` allow (`SchedulerStep`).
* `PoolFits`: `FittedPoolFits`, from `EstimateCovers`: whenever the device told
  how much memory is free (otherwise nothing is fitted), for plain and quantized pools, what
  `KVManager` allocates for a batch is at most the batch times the driver's estimate,
  although one halves the channels of each row, rounding down, and the other all
  elements of a sequence at once.

Only model-checked:

* `AttentionExact`, `LogitsRight` and `CacheRight`: what the cache holds and what a pass
  computes. The accumulators of the softmax, the slices of a product and the layers of a
  pass are folds that carry a state from place to place, whose values for all inputs
  call for induction over data, which the installed provers cannot instantiate; the way
  around it in `DevicePoolProofs` works for sums over the subsets of a finite set.
* `WritesDisjoint` and `PartialsPublished` are in reach (section 7).
* Liveness (`EveryRequestEnds`, `RunEnds`), which is beyond the prover.

## 6. Not modelled

* The continuous (slot) layout of the scheduler and its degenerate pool (its attention
  and cache writes are in `KvQuant`).
* In `StepPipeline`: the S4 slot table apart from the other inputs (same buffers,
  same order), decoding with graphs disabled (the path of a mixed step),
  growth of the sampler's buffers (nothing is queued on them then), the single
  sequence path of the demo, `resize_internal_kv_cache`, which nobody calls.
* In `DevicePool`: several devices, allocations of 0 bytes, a second release of the
  same pointer and foreign pointers (the code ignores or passes them on), the
  teardown.
* Floating point: a kernel's result is the value it should be if it reads the right
  operands. Scales and zero points, rounding, shared-memory staging, vector loads
  of the attention kernels and the internals of norms, RoPE and SwiGLU are abstract;
  so is the reduction of the sampling kernel (disagreement 9).
* In `ForwardPass`: the bytes of a checkpoint, encode and decode, profiling, and the
  early return of `forward_batch` when a position is out of bounds (the scheduler's
  limits exclude it). One pass per behaviour: what an earlier pass left in a buffer
  is `Junk`, what it left in the cache is taken to be right (`CacheRight` is why).
* In `ServingDriver`: percentiles and the other statistics, the sampling of GPU
  counters, the text of a report, the comparison of two rounds. Preemption: with the
  pool `KVManager` sizes there is none (`SizedPoolSuffices`).
* The scheduler's statistics, and its time stamps apart from the arrival.
* Reference counts of buffers, copies and strides of tensors; the tokenizer; the
  checkpoint reader; demo and tools: sequential code without shared state.
* A failed forward pass together with a force-finish in the same step: it needs
  an undersized pool, and `force_finish_all` then passes over the sequence that
  is finished already. The undersized runs leave forward failures out, and so do the
  theorems (`AbortsClean`).
* `CHECK`s on construction and environment variables, except those that decide
  which path is taken.

## 7. Plan

Next modules, most important first:

1. `ChunkBudget`: short-prompt-first chunking under unbounded arrivals
   (is a long prompt served in the end?).
2. The slot layout of the scheduler, as a second layout over the same passes.
3. The byte-pair merge of the tokenizer as a function, against a definition.
4. `Buffer` ownership and reference counts over `DevicePool`.

Next theorems: of the walks of `PagedAttention`, that `SplitRange` tiles a row for every
length and number of splits, and from it `PartialsPublished`; of `KvQuant`, `WritesDisjoint`
from the slots and blocks of a batch.
