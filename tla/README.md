# glmserve in TLA+

glmserve serves one large language model over an OpenAI-style HTTP API, on the
CPU or on one or several GPUs (tensor and pipeline parallel ranks). This
directory holds TLA+ models of its stateful core, TLC configurations that check
them on small instances, and TLAPS proofs that hold for every instance. Paths
below are relative to the repository.

    tlc -config MCMtpCache.cfg MCMtpCache        model-check a run of PROJECT.json
    tlapm GpuEngineProofs.tla                    check a proof module

PROJECT.json lists the components, the runs with their properties, a mutant per
property (a plausible bug under which the property fails), the source lines each
definition stands for, the hazards and the theorems.

## 1. Inventory

| component | state it keeps | operations | correct when |
|---|---|---|---|
| Engine (`src/server.cpp`, `include/server.hpp`) | `gen_mu_`, `gpu_active_`, `gpu_committed_`, per request `all_tokens`, `c`, `gpu_seed`, `mtp_gpu_active` | `run` (prefill, plain decode, speculative groups, record, finish), `handle_chat`, `handle_completions`, probes (`prefill_logits`, `profile`, `check_*`), `reset_prefix_cache` | a request gets the model's tokens for its own prompt, however the last request ended and whatever is drafted; it ends for the reason reported |
| Device KV cache and passes (`src/model_gpu.cpp`) | rows of K/V, `cur_len`, `chunk_row0`, scratch arena, DSA index rows, MTP cache, `mtp_prefill_absorb_` | `forward_gpu_prefill`, `_prefill_from`, `_decode`, `_chunk(_greedy)`, `gpu_rewind`, `mtp_gpu_absorb`, `mtp_gpu_draft` | a pass attends over rows of one stream; assertions on positions and widths never fire; the draft cache follows the stream |
| Custom all-reduce (`cuda/custom_ar.cu`) | per rank: call counter `seq`, slots and flags in double-buffered staging memory that peers write | create, open, run (push, flag, wait, sum), destroy | a sum is over the data of its own call; nobody waits for ever |
| Model load and upload (`load_gguf`, `shard_linear_*`, `upload_to_gpu`) | shards of the weights, staging buffer, page cache of the node, prefetch thread | parse in turns, prefault, build, pack, copy, evict, join | a shard holds its own rows and scales; the device holds the right layer; nothing is evicted that a rank still needs |
| Communicator (`src/nccl_comm.cpp`) | rank, world, TP and PP communicators, custom-AR handle | rendezvous through a file, `init_custom_ar` vote, `all_reduce_sum(_rows)`, pipeline send and receive, `bcast_int`, barrier, `partition_layers` | all ranks join one communicator, choose one all-reduce, make matching calls; layer ranges tile the model |
| CPU forward (`src/model_glm52.cpp`) | `SequenceKV.length` | `forward`, `mtp_draft_logits` | the KV length follows the accepted tokens |
| Paged KV cache (`src/kv_cache.cpp`) | free list, block table of a sequence | `allocate`, `free`, `reserve`, `release` | a block has one owner; nothing leaks when `reserve` fails half-way |
| Scheduler (`src/scheduler.cpp`) | running set, cancelled set, condition variable | `admit`, `complete`, `cancel`, `is_cancelled` | no more than the limit runs; a waiter is woken |
| HTTP server (`src/http_server.cpp`) | listening socket, running flag, detached threads | `listen_and_serve`, `handle_connection`, `read_request`, `start_sse`, `send`, `stop` | one head per response (which `serve_error` refutes); a failed request leaves the server up; shutdown outlives threads |
| Streaming of text (`run`'s `flush`, `record_token`) | `c.text`, `emitted` | record, flush, final flush | a streamed byte is never taken back; deltas end on characters |
| N-gram drafter (`ngram_draft`) | none (pure) | lookup | continuation of the latest longest match, within the cap |
| MTP draft block (`model_gpu.cpp`) | MTP cache rows, draft seed | absorb, draft | every slot it attends over belongs to the stream |
| Sampler, tokenizer, JSON | penalties are recomputed | sample, encode, decode | numeric and string code without lasting state |
| Loaders (GGUF, safetensors, config, tensors) | file mappings | load, dequantize | parity tests cover them |
| CUDA arithmetic kernels | none across launches | launch | parity tests cover them |
| Checkpoint tools (`tools/*.py`) | part files, outputs on disk | download, resume, convert, replace | a crash at any point leaves something a second run completes |
| Command line, benchmarks | none | `serve`, `generate`, `bench` | options reach the engine |

**How they interact.** A connection thread parses a request and calls
`Engine::run`, which takes `gen_mu_` for its whole duration: one request runs at
a time. `run` admits itself to the scheduler, takes a `SequenceKV`, drives the
device through `GLM52Model`, and hands text to the connection through the
`on_delta` callback, whose result says whether the client is still there. Every
layer of a pass ends in all-reduces of the communicator; short ones go through
the custom all-reduce. Pipeline stages send hidden states, and sometimes a DSA
mask, to the next stage. Between two requests the device cache and
`gpu_committed_` persist: the next request may skip the prefill of a common
prefix.

**What is hard.** The cache outlives a request that may end in a dozen ways (a
stop token in the middle of a verified group, a client gone, the context full, an
exception after half a pass). Speculation writes rows of tokens that are later
rejected. The custom all-reduce has no lock: ranks write each other's memory and
only flags, parities and a counter keep calls apart. Ranks that disagree on the
next collective block each other. Connection threads are detached. Downloads and
conversions are killed and resumed. `PROJECT.json` gives each hazard its line.

## 2. Modules

| module | models | composes |
|---|---|---|
| `GreedyService` | what callers of `Engine::run` are promised | |
| `GpuEngine` | `Engine::run` on the GPU path over the device cache | refines `GreedyService` |
| `StreamLemmas` | lemmas: prefixes and concatenations of sequences, least and greatest numbers | extends TLAPS |
| `GpuEngineProofs` | inductive invariant, safety theorems, the refinement | extends `GpuEngine`, `StreamLemmas` |
| `AllReduce` | what an all-reduce over ranks promises | |
| `CustomAR` | the kernel and launch of the peer-to-peer all-reduce | refines `AllReduce` |
| `CustomARProofs` | inductive invariant, safety theorems, the refinement | extends `CustomAR`, TLAPS |
| `MtpCache` | the two drafters: n-gram lookup and MTP block with its cache | extends `GpuEngine` and refines it |
| `MtpCacheProofs` | the refinement, inductive invariant of the draft cache, safety theorems | extends `MtpCache`, `GpuEngineProofs` |
| `CpuEngine` | `Engine::run` on the CPU path, scheduler, paged KV cache, CPU forward | |
| `CpuEngineProofs` | inductive invariant, safety theorems | extends `CpuEngine`, `StreamLemmas` |
| `Startup` | ranks from rendezvous over load and upload to the vote on the all-reduce | its outcome is what `CustomAR` starts from |
| `StartupProofs` | inductive invariant, safety theorems | extends `Startup`, TLAPS |
| `Pipeline` | one pass after another over stages of tensor-parallel ranks | |
| `PipelineProofs` | inductive invariant, safety theorems | extends `Pipeline`, `StreamLemmas` |
| `Serve` | accept loop, connection threads, generation lock, streaming of text, SIGINT | its `Record` is the text side of `run`, whose tokens are the engines' |
| `ServeProofs` | inductive invariant, safety theorems | extends `Serve`, `StreamLemmas` |
| `MCCpuEngine`, `MCPipeline`, `MCMtpCache`, `MCServe` | instances for TLC | |

### GpuEngine

One action per pass over the device or per decision between two passes: `Begin`
(clamp, prefix reuse, forget `gpu_committed_`), `PrefillChunk` and `PrefillLast`
(the two loops over chunks), `StartDecode` or `Refuse` (the checks on MTP
requests, which the code makes after the prefill), `Sample`, `SpecGroup` (draft,
verify, accept, rewind), `StopToken`, `Record`, `RecordLast`, `AfterGroup`,
`Decode`, the exits `LoopDone`, `GroupNoRoom`, `DecodeNoRoom`, and `Abort` for an
exception out of any pass. `Probe` is what the diagnostic entry points do to the
same cache.

The abstraction that makes correctness visible: a **row of the cache is the
stream of tokens it was computed from**, its own and all earlier ones. A causal
pass (`Pass`) extends the stream of the row before it; when the rows it attends
over do not belong together, what it writes is `Dirty`. Logits are the row they
come from, and `Greedy` is an arbitrary function from streams to tokens. "The
cache is right" is then `Holds(rows, stream)`, and "greedy output is right" is
`all[i] = Greedy(all before i)`.

Choices the model leaves open, because no property may depend on them: the tokens
of a draft (n-gram or MTP, of any length up to the code's cap), sampled tokens,
when a stop string completes or a client leaves, how much of its rows and of
`cur_len` a failing pass has written. The model covers a single pipeline stage
(`pp_size = 1`: with more stages the code never reuses a prefix; stages are in
`Pipeline`); the CPU path is `CpuEngine`, the text side `Serve`, the real drafters
`MtpCache`. `Request.stop` stands for
EOS and stop-token ids together. An exception while a token is being recorded
(memory exhausted in a string append) is not modelled.

The probes clear `gpu_committed_` before they take `gen_mu_`. Called beside a
running request they could clear it too early; no command does that, so `Probe` is
one step between two requests.

### CustomAR

One action per ordered step of a block of the kernel: push tiles to one peer,
fence, raise the flag on one peer, see the flag of one writer, pass the barrier,
sum. `Launch` is `custom_ar_run`, which stream order delays until the rank's last
kernel is complete. Data is the number of the call it was contributed to, so "the
sum is right" is "every slot read holds this call". Flags and `seq` wrap at
`SeqMod` (2^32 in the code). A tile is one grid-stride step of a block, so which
block owns a tile depends on the width of the call, as in the code.

Grain: the pushes of one block to one peer are one step, and so are the reads of
one block's sum. That is sound because during the whole push no other writer
touches the slot and nobody reads it before its flag, and because `ReadsThisCall`
holds throughout the sum: cutting these steps finer shows no other value.

### MtpCache

`GpuEngine` lets a group draft any tokens that fit. `MtpCache` takes every action of
`GpuEngine` together with what it does to the draft cache (`slots`, `mtpLen`, `prev`)
and to the hidden states in the scratch rows that `mtp_gpu_absorb` reads (`scratch`,
`row0`), and drafts as the code does: `Ngram` is `ngram_draft` as a pure operator over
the context (longest match first, the hit with the longest continuation, the latest of
these, enough agreement before it), and if it finds less than a group the MTP block
drafts. **Slot p of the draft cache is the stream its pair of hidden state p and token
p + 1 came from**; the slots of the block's own later steps are `Dirty`, and what it
drafts from its slots is arbitrary. `scratch` is emptied when an absorb overwrites it,
so an absorb after the wrong pass shows as a wrong slot. `ImplementsGpuEngine` is the
specification `Spec` of `GpuEngine` itself: all that is proved of the engine holds
with the real drafters.

### CpuEngine

As in `GpuEngine`, a slot holds the stream it was computed from, here twice: for K/V
and for the DSA index key, because the code writes them under different conditions.
Slots sit in **blocks that keep their contents when they are freed**, so what a former
owner left is there to be read. `Forward` is `reserve` and a pass, `Exhausted` a
`reserve` that takes the last block and then throws, with the blocks in the table.
`Group` runs the whole draft as one pass; `Accept` and `Reject` compare one draft each,
as the loop does, `Reject` rewinds and `Redo` runs the model's token instead. The drafts
behind the first are any tokens (`mtp_draft_logits` works on caches of its own). Every
way out leads to `Release`, after the loop or in the catch block.

### Startup

Each rank is a process with a program counter (`pc`); what the ranks share is the
rendezvous file, the collectives and one node's page cache, kept by layers. A
**collective is matched by its place in the rank's order of calls** (`coll`), as NCCL
does: `Met` is "all others have entered as many". `Configure` parses the tensor
directories for the configuration on all ranks; the turns of `GLMSERVE_SERIAL_GGUF_LOAD`
follow with `load_gguf`'s own barrier inside them. The upload has its packing workers
(`Pack`, one action per worker and layer), the bulk copy, the prefetch thread that paces
itself by `up`, eviction behind a lag and the cold drop. `Create`, `Vote`, `Decide` are
`init_custom_ar`: a rank's allocation may fail, mapping stops at the first peer that
fails. `Die` is an exception anywhere between collectives: the process ends, after
joining its prefetch thread (`unwind`).

### Pipeline

A **hidden state is what it was made from**: the tokens embedded and, layer by layer,
the keys attended to (all rows, a layer's own selection, the shared one, a window, or
garbage). Launches are data (`Configs`): layers, ranks and stages, `indexer_types`, which
layers have indexer weights, the form of the weights. `Load` cuts the linears:
`head` says whether the head is quantized, the only kind that is divided. `ShardLayer` gives for every input of a rank's slice the output of the first linear, the
element of the second and the group of scales it meets, so a slice that takes another
rank's scales shows in `SumsWhole`. `Transfer` is a send with the receive it is matched
with, by order alone. What a rank gives to the collectives of its stage is kept, in
order, in `calls`: a collective joins the entries of one place (`Given`), so a rank
that runs ahead cannot lend another the value of a later pass. `FromLogits` (summed slices of zeroed buffers) and `FromPairs`
(gathered winners) are the two ways the head is combined.

### Serve

Threads write **items** (a head, a body, an event) that a socket of limited room holds
for its client; clients read, stall for good or leave. Text is a sequence of **bytes of
which only kinds matter**: whether one begins or continues a character, and the stop
strings made of them; a token is any of a set of pieces. `Record` is `record_token` with
the cut and the hold-back of `flush`, `Called` what the handler makes of the result of
`on_delta`, `LastFlush` the final flush. A handler that returns goes to `closing`; one that
threw (`Throw`, before or during a pass, or a bad request) to `caught`, where the error is
sent with a head of its own, into a stream as well. `got` is a history variable: how much
of the text is in the deltas that the client is sent.
`Listen`, `StartLoop`, `Interrupt`, `LeaveLoop` are the accept loop with SIGINT between any
two steps. `ReadThrows` is a Content-Length that does not parse: it is read outside
every try block and ends the process.

## 3. Runs

| run | shows | instance |
|---|---|---|
| `engine` | the engine with its real drafters: types; between requests the claimed rows are resident (`CommittedResident`); passes attend over the request's own stream (`CacheFollowsStream`); greedy output is the model's (`EmittedGreedy`); device assertions hold (`DeviceChecksHold`); a group begins with a draft cache in step with the stream (`DraftCacheInStep`); what a draft wrote first stays right (`DraftedSlotStays`); refinements (`ImplementsGpuEngine`, `ImplementsService`); every request ends (`Served`) | 2 tokens, context of 5, chunks of 2 and 1, groups of up to 3, nine kinds of request in any order, for ever |
| `engine_cut_off` | a speculative request is ended with "length" while plain decode would go on | as above |
| `cpu_engine` | types; no block is lost or owned twice (`BlocksConserved`); rows and logits are those of the request's stream (`RowsFollowStream`); greedy output is the model's (`EmittedGreedy`); the pool is enough for the context (`PoolFitsContext`); every request ends (`Served`) | 2 tokens, context of 4, blocks of 2 with one to spare, sparse past 2 rows, nine kinds of request |
| `cpu_index_keys` | the selector of a request grown past `index_topk` reads keys nobody wrote for it | as above |
| `custom_ar` | types; sums read their own call (`ReadsThisCall`); skew of at most one call; slots are overwritten only when read; refinement (`ImplementsAllReduce`); every call completes (`AllCallsComplete`) | 2 ranks, 2 blocks, calls of 1 or 2 tiles, 3 calls, no wrap |
| `custom_ar_wrap` | after the counter wraps a sum reads old slots | 2 ranks, 1 block, wrap at 4, 5 calls |
| `startup` | types; collectives pair up (`CollectivesMatch`); one rank parses at a time inside the turns (`OneRankParses`); the page cache stays in its window (`WindowBounded`) and loses only uploaded layers (`EvictsOnlyUploaded`); the device holds the right rows (`DeviceHoldsLayers`); all ranks or none use peer memory (`AllOrNone`); all get to serve (`AllServe`) | 2 ranks, 4 layers of 3 rows, 2 packing workers, prefetch 1 ahead, eviction lag 1 |
| `pipeline` | types; of complete checkpoints, sends meet the receives meant for them (`TransfersMatch`); a pass over stages attends and sums as one process does (`AttendsAsSerial`); ranks of a stage run one stream (`StageInLockstep`); the head is the first maximum on every rank (`HeadsAgree`); passes end (`PassesEnd`) | thirteen launches, 5 tokens, dense and sparse passes |
| `pipeline_generate` | stages that generate go on with different tokens | two stages of two ranks |
| `serve` | types; a handler that returns leaves a whole response or a stream of all its text up to `[DONE]` (`ResponseWhole`); streamed text is final and complete (`StreamFaithful`); requests are answered (`Answered`) | 2 connections, 4 bytes, 3 pieces, two stop strings, sockets with room for 1 item |
| `serve_error` | an exception puts a second head into a stream (`OneHead`) | 1 connection that streams |
| `serve_utf8` | a character is split between two deltas | 1 connection, no stop string |

**Bounds.** *GpuEngine*, *MtpCache*: `GpuEngine` has no run of its own: `MtpCache` takes its
actions with the drafts the code makes, those of the block being any tokens, and the
theorems of section 4 are about every draft. The context of 5 lets a prompt be clamped, be
prefilled in one, two or three chunks with and without a reused prefix, with absorbs
between chunks, and lets plain and speculative decode run into the end of the cache;
groups of 3 give every outcome of accepting (none, some or all drafts). The requests share
prefixes with each other and with generated text and diverge from them; a plain one
between speculative ones leaves rows to reuse that have no slots. `MCGreedy` depends on
every token and its position, so that a wrong row shows in the output, and repeats itself,
so that the lookup finds drafts as wide as the group and past it. `MaxCtx` and the tokens a
request asks for bound the state; requests are unbounded in number.
*CpuEngine*: three blocks and a context of two let a request cross a block's edge,
outgrow the context, exhaust the pool in the prefill, in a decode and in a group,
and find blocks with another request's rows; the order of the free list is kept.
*CustomAR*: 3 calls make a parity be reused while the other one is in flight; two
widths make the number of blocks change between calls, so flags and slots of a
block are older than the last call. `MaxCalls` is the bound on calls.
*Startup*: 4 layers with lag 1 and prefetch 1 have layers ahead, in and behind the
window; 3 rows for 2 workers do not divide; a file that is absent, stale or new; a
page cache that starts cold or warm. *Pipeline*: launches that split a group of shared
layers or not, with a stage without an indexer, an empty one and a negative one, with
all three forms of weights, slices that fit or do not, a head that is divided or not;
logits that tie across shards; five tokens, so that four passes follow each other and the
last ones are sparse.
*Serve*: a stop string that comes in two tokens, the shorter one first in the list; a
character in two tokens; one item of room makes a writer wait in every state. Texts are
bounded by `max`.

**Deadlock.** Checked in the runs of `MtpCache`, `CpuEngine` and `CustomAR`; off in those of `Startup`, `Pipeline` and `Serve`, which really may stop:
ranks that have died leave the others in a collective, launches end, servers exit. That
nothing else stops is `AllServe`, `PassesEnd` and `Answered`.

**Fairness.** *GpuEngine*, *MtpCache*, *CpuEngine*: weak fairness of `Work` (`MWork`), the steps `run` takes by
itself: between two steps it waits for nothing but the device; in the CPU engine also
for a scheduler slot, which must be shown to come back. Nothing is assumed of clients,
errors and probes. *CustomAR*: weak fairness of each block (at most 32
blocks of 256 threads: all are resident and keep running) and of each rank's
launches (the ranks run the same passes and so make the same calls: `StageInLockstep`
of `Pipeline`, and `AllOrNone` of `Startup` before it). *Startup*: weak fairness of each
rank, of its prefetch thread and of each packing worker, which the system schedules;
time-outs and deaths may happen and need not, and `AllServe` claims nothing once a rank
died or read the id of an earlier launch. *Pipeline*: weak fairness of each rank; a
collective all are in, and a send that meets its receive, return. *Serve*: weak fairness
of each thread's own steps and of clients that read. `Answered` claims nothing once the
process has ended, or while a client stalls for good: sockets have no time-out, and that
client's request holds the lock.

**Disagreements met.** (1) `run` ends a speculative request as soon as a whole
group might not fit, so near the end of the context the stream is shorter than
that of plain decode, which the comment says it equals (`src/server.cpp:414-420`).
(2) The wait of the all-reduce compares 32-bit counters with `<` and is wrong
after 2^32 calls, though the comment says `seq` increases monotonically
(`cuda/custom_ar.cu:10-14, 78`). (3) The CPU path writes index keys only in sparse
passes (`src/model_glm52.cpp:968, 998`), so a request that grows past `index_topk` selects
by keys that were never written or belong to a former owner of the block; the GPU path
writes them at every position for that reason (`src/model_gpu.cpp:1356-1360`), and the
CPU path is called its oracle (`src/server.cpp:564-566`). (4) Without stop strings `flush`
sends a token's bytes as they come, half a character included (`src/server.cpp:46,
342-345`), while `docs/serving.md:18-19` says characters are never split. (5) Over several
pipeline stages the sampled token reaches only the ranks of each stage
(`src/nccl_comm.cpp:395-417`), and the comment in `run` says all ranks then decode the same
sequence (`src/server.cpp:507-511`). (6) An exception in a pass of a streamed request is
answered with `send_json`, a second status line, head and body inside the event stream and no
`[DONE]` (`src/http_server.cpp:130-136`), while `include/http_server.hpp:23-24` asks for one
`send` or one stream and `docs/serving.md:17-18` says that frames end with `[DONE]`.

Smaller ones, met while modelling and part of the models, but without a run:

- `load_glm52_config_gguf` parses the tensor directories on all ranks at once, before
  the turns that are to prevent that (`src/server.cpp:169, 193-197`).
- Under serial loads the barrier of the prefault pairs with the other ranks' turn
  barriers, so it no longer means that every stripe is warm (`src/model_glm52.cpp:689-693`).
- "A reused prefix keeps its MTP rows" (`src/server.cpp:331-333`) is false after a plain
  request, which absorbs nothing; only the quality of drafts depends on it.
- With several stop strings the first in the request's list cuts, not the earliest in
  the text; ended by length, the final flush may stream the beginning of a stop string.
- A SIGINT between the handler's installation and `running_ = true` is lost.
- `--max-seqs 0` makes `admit` wait for ever (excluded by `ParamAssumption`).
- Where indexer weights are missing, which `docs/glm52_tensor_map.md:53-58` allows, the
  receiver of a pipeline hop goes by the types alone and the sender also by the selection
  it does not have (`src/model_gpu.cpp:1822-1838`). `TransfersMatch` without its premise
  `Complete`, which is `HopsAgree`, is false of the launch of `MCConfigs` without indexer
  weights: stages run a pass apart, and a receive for a mask takes the hidden state of the
  next pass. One process lets such layers attend to a window.
- `partition_layers` gives the last stages negative ranges for some counts (premise
  `Splits`); such a stage dies while the others wait.

## 4. Proofs

Everything below is checked by TLAPS for **every** value of the constants that
satisfies the named assumptions: any context, chunk widths, group width, any set
of requests, any argmax; any number of ranks, blocks, tiles.

*GpuEngine* (assumptions `ParamAssumption`: sizes are positive and the suffix
chunk is no wider than the first; `RequestAssumption`: requests are well formed;
`GreedyAssumption`: the argmax is a token). The safety properties are not
inductive: `EmittedGreedy` needs to know that the logits in hand belong to the
stream, that needs the rows below them to, and at the start of a request that
needs `gpu_committed_` to be true. `IndInv` says it for each `pc`. Its heart is
`Verified`: while a group is being recorded, the rows, `cur_len` and the logits
are those of the stream *with* the accepted tokens still to record. The proof
goes action by action; the lemmas about `Pass` (what a pass over a clean prefix
writes, and that it leaves the rows below alone) and about `Accepts` (an accepted
prefix is greedy) carry it.

| theorem | says |
|---|---|
| `TypeCorrect` | `Spec => []TypeOK` |
| `CommittedIsResident` | `Spec => []CommittedResident` |
| `PassesSeeOwnStream` | `Spec => []CacheFollowsStream` |
| `EmitsGreedyTokens` | `Spec => []EmittedGreedy` |
| `NoDeviceCheckFails` | `Spec => []DeviceChecksHold` |
| `EngineImplementsService` | `Spec => ImplementsService`: each step is a step of `GreedyService` or a stutter |

*CustomAR* (assumptions `CustomARAssumption`: there is a rank, a block, a tile, and
the counter's modulus is even; and in each theorem `NoWrap`, `MaxCalls < SeqMod`,
without which `custom_ar_wrap` shows the claim false). `ReadsThisCall` is not
inductive. The invariant follows the data: what a block has pushed has arrived
(`PushedArrived`), a flag of a call that its reader has not finished vouches for
the data behind it (`FlagsVouch`), so what a lane has seen has arrived
(`SeenArrived`); and a call returns only when every rank has made it (`InStep`).
The one real argument is in the push: a push of call n can only meet a flag or a
slot of the same parity, hence of call n - 2 or older, and by `InStep` its reader
is through with that one.

| theorem | says |
|---|---|
| `TypeCorrect` | `Spec => []TypeOK` |
| `SumsReadThisCall` | `Spec => []ReadsThisCall` |
| `SkewIsAtMostOne` | `Spec => []SkewAtMostOne` |
| `SlotsAreRead` | `Spec => OverwritesOnlyReadData` |
| `KernelImplementsAllReduce` | `Spec => ImplementsAllReduce`: a launch is `Enter`, the last block's sum is `Return`, all else stutters |

*MtpCache* (the assumptions of `GpuEngine` and `NgramAssumption`: matches are at least
two tokens long). That its steps are steps of `GpuEngine` rests on two bounds: the lookup
takes one of its hits (`BestHitFound`: the longest continuation, then the latest, exists)
and continues it by no more than its cap (`NgramFits`); the block drafts no more than the
group, which the cap allows (`DraftsFit`). Every theorem about `GpuEngine` then holds with
the real drafters. `DraftCacheInStep` speaks of the moments a group begins; `DraftInv` says
what is being prepared for it meanwhile: during the prefill the slots up to `pos` are
`Paired` with the stream, after a pass the scratch rows hold the hidden states of the
verified stream from `row0` on (`InScratch`), and they still do when the accepted tokens
have been recorded one by one.

| theorem | says |
|---|---|
| `EngineWithDrafters` | `MSpec => ImplementsGpuEngine` |
| `DraftInvariant` | `MSpec => []DraftInv` |
| `DraftCacheStaysInStep` | `MSpec => []DraftCacheInStep` |
| `DraftsKeepTheirSlot` | `MSpec => DraftedSlotStays` |

*CpuEngine* (assumptions `ParamAssumption`, `RequestAssumption`, and `GreedyAssumption`: the
argmax of a row is a token, for rows no deeper than the pool). `IndInv` has three parts that
need each other. The free list behind the block table is a **permutation** of the blocks
(`Permutation(free \o table)`), so that a write into a block of the table reaches no other
block. `Lengths` ties the cache's length, the table and the tokens together at each `pc`; it
gives `PoolFitsContext`, since a table of k blocks leaves all the others. `Computes` says of
the rows below the length, found through the table, that they were computed from the
request's own tokens, and of the logits in hand that they are the last row's, unless the
sparse path crossed rows without keys (`Crossed`), which `cpu_index_keys` shows to go wrong.

| theorem | says |
|---|---|
| `Invariant` | `Spec => []IndInv` |
| `TypeCorrect` | `Spec => []TypeOK` |
| `BlocksAreConserved` | `Spec => []BlocksConserved` |
| `RowsAreTheStreams` | `Spec => []RowsFollowStream` |
| `OutputIsGreedy` | `Spec => []EmittedGreedy` |
| `PoolIsLargeEnough` | `Spec => []PoolFitsContext` |

*Startup* (assumption `ParamAssumption`: two ranks or more, a layer, a row, a worker). The
ranks decide on their own which collective to enter next. `Places` says that how many a rank
has entered is a function of where it is, of the turn it counts and of the layers it has
uploaded, and `Scripted` that which kind the n-th one is does not depend on the rank; with
`Skew` (a collective that a rank has left has been entered by all) that is
`CollectivesMatch`. Only the last collective depends on a decision, the vote; `Votes` says
that a rank that took the custom all-reduce knows every rank's mapping, and that one that
did not has freed its own, so nobody can decide otherwise later. The prefetch window holds
since a prefetch thread starts when every rank is through with prefaulting (`Begun`).

| theorem | says |
|---|---|
| `Invariant` | `Spec => [](IndInv /\ WindowBounded)` |
| `TypeCorrect` | `Spec => []TypeOK` |
| `CollectivesAgree` | `Spec => []CollectivesMatch` |
| `TurnsExclude` | `Spec => []OneRankParses` |
| `PrefetchIsPaced` | `Spec => []WindowBounded` |
| `UploadIsWhole` | `Spec => []DeviceHoldsLayers` |
| `VoteIsShared` | `Spec => []AllOrNone` |
| `EvictionTrailsAll` | `Spec => EvictsOnlyUploaded` |

*Serve* (assumption `ServeAssumption`: kinds of bytes do not overlap, pieces and requests are
of their types, a socket has room for an item). `IndInv` is, for each connection, a relation
between the place of its thread, what is on the wire, what is still to be sent and the text
(`ConnInv`), and across connections that the lock is held by exactly the thread that is in
`run` (`LockInv`). For a client that stays, `Shape` says that what it was sent and
what is still to be sent together make the response that belongs to the place of the thread
(a stream that an exception ended is let go: `OneHead` is false of it), and `Told` that the
deltas it was sent bring the text up to `emitted`, unless one is still to be sent.
With `emitted` the whole text at the end, that gives `ResponseWhole`. For `StreamFaithful` the text is split at `emitted`: while
no stop string is in the text, one that a new token completes begins no earlier than where
the hold-back does, since that is as long as the longest stop string but its last byte
(`HoldBackCovers`). So the cut is behind what the client has (`CutBehindStreamed`).

| theorem | says |
|---|---|
| `Invariant` | `Spec => []IndInv` |
| `TypeCorrect` | `Spec => []TypeOK`, mutual exclusion of `gen_mu_` included |
| `ResponsesAreWhole` | `Spec => []ResponseWhole` |
| `StreamsAreFaithful` | `Spec => StreamFaithful` |

Where a proof needs an induction, over a list of stop strings or the blocks of a table, it
takes the least counterexample (`Least`, `Greatest` in `StreamLemmas`, from the library's
well-foundedness of the naturals): the induction theorems themselves take an operator, which
the provers cannot instantiate.

*Pipeline* (assumptions `ParamAssumption`, `ScoreAssumption`: logits are numbers, and
`ConfigAssumption`: launches are well formed; any number of stages, ranks, layers and
passes). A collective joins what its ranks gave at one place in their order of calls, so
that a rank gets a value of the right pass only if all ranks of a stage have made the same
calls before. `Streams` says so: how many calls a rank has made is a function of the tokens
it has and of where it is (`PlacedAt`), and every token after the prompt is the one the
root of its stage gave to the broadcast of that pass (`StreamAt`). That is inductive with
the types, for stages that generate as well. On it rest, in this order:

- `Passes`, what a rank has done besides calls: how many passes its layers have run
  (`rows`), and that what it was given came from stages whose shards are loaded, its own
  included once a collective of its stage has returned (`LoadsAt`).
- `Hops`, under `Complete`: what a rank has sent is what the next one was given, pass for
  pass (`HopAt`), and in a sparse pass the mask in hand at a layer without an indexer is
  the selection of the last layer with one, over all stages (`MaskAt`). Both are needed at
  once: a sender asks whether it has a mask to share, a receiver only the types, and it is
  `MaskAt` and a complete list that make them agree.
- `Hidden`, under `Complete` and `OneStream`: the hidden state of a rank in a pass is made
  of its own tokens and of what all layers so far attend to on one process (`Trace`).
- `Heads`, under the same: what was given to the i-th divided head is the stream of the
  i-th pass (`GaveAt`), no other call of a rank having that place in its order
  (`HeadPlaces`). Mates have equal tokens, so all shards are of one stream, and
  `CombinedIsWhole` says that both ways to combine them take the first maximum over the
  whole vocabulary.

That a stage's sums are whole is arithmetic (`ShardsSumWhole`): a shard that fits begins at
a group of scales, or at a block, so the i-th product is on the rank whose slice i is in,
with its own scale, and nowhere else. `Complete` and `OneStream` are premises of the
properties themselves: checkpoints with an incomplete list, and stages that generate,
really fail (section 3).

| theorem | says |
|---|---|
| `AlwaysStreams` | `Spec => []Streams` |
| `TypesHold` | `Spec => []TypeOK` |
| `AlwaysPasses`, `AlwaysHops`, `AlwaysHidden`, `AlwaysHeads` | `Spec => []Passes`, `[]Hops`, `[]Hidden`, `[]Heads` |
| `StagesInLockstep` | `Spec => []StageInLockstep` |
| `MasksAreExpected` | `Spec => []TransfersMatch` |
| `PassesAreSerial` | `Spec => []AttendsAsSerial` |
| `HeadsTakeFirstMax` | `Spec => []HeadsAgree` |

**Model-checked only.** Liveness everywhere (`Served`, `AllServe`, `PassesEnd`, `Answered`,
`AllCallsComplete`), since the prover does not reason about ENABLED; and of course the
claims that runs refute.

## 5. Not modelled, and the plan

Not modelled, and why:

- Arithmetic of layers and kernels, floating-point sampling, dequantization: numeric
  code with parity tests; here it is abstracted to which data a result depends on.
- Parsing of GGUF, safetensors, configuration, JSON, tokens, command lines: sequential,
  without lasting state.
- The checkpoint tools (`tools/*.py`): scripts run by hand; a resume that trusts the size
  of a partial file is listed as a hazard.
- `Scheduler::cancel` has no caller; `mtp_draft_logits_gpu` is used by a command of its own.
- The detached threads' use of an engine that `main` has destroyed is undefined; in
  `Serve` they run until the process has ended.
- An exception on one tensor-parallel rank of a running server, which leaves the others
  in a collective: the server is started with one rank only.

Next: `Resume`, the tools' partial files, crashes and replacement.

Runs stay small enough to finish in a minute or two; at most one passing run per
module, and others only where a claim of the source fails.
