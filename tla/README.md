# wLLM in TLA+

A model of the serving engine of [wLLM](../src/README.md): the paged KV cache, the
continuous batching scheduler over it, what a step does to the tokens, hypotheses and
batches it works on, the asyncio engine that runs the scheduler, the text pipeline that
turns tokens into a completion, and the gate in front of the handlers. The models are written
from the code under `src/src/wllm/`; `PROJECT.json` maps every definition to the
lines it stands for. Paths below are relative to `src/src/wllm/`.

    clients
       │   RateLimit, APIKeyAuth, AccessLog                                       ApiGate
       │
    api/server.py ── StopStringFilter ── IncrementalDetokenizer                   TextStream
       │  generate() / generate_beam_search()
    AsyncEngine: one asyncio task runs step()                                     AsyncEngine
       │  add_request, cancel, step
    Scheduler: waiting / running / swapped, beam groups                           Scheduler
       │      ├─ append_token, sample, guide, n-gram drafts                       TokenLoop, Sampling
       │      ├─ BeamGroup.step                                                   BeamSearch
       │      └─ _decode_active: CUDA graph lane, eager lane, LoRARegistry        DecodeLanes
       │  prefill, decode, swap, free
    LlamaForCausalLM ── KVCacheManager ── BlockAllocator                          KVCache, SequenceStore

Everything runs on one thread. A call of `Scheduler.step()` has no `await` in it, so
the cache is only ever touched by one call at a time; what interleaves is requests
inside a step, coroutines at their awaits, and sequences that share blocks.

## 1. Inventory

| Component | State | Operations | Modelled in |
|---|---|---|---|
| Block allocator, KV cache manager (`engine/kv_cache.py`) | free list, reference counts; per sequence a block table and a context length; K/V tensors; prefix index in both directions; host copies of swapped sequences | create (from a prefix), reserve, write, advance, rollback, free, match, register, swap out/in, discard | KVCache, SequenceStore |
| Forward passes (`models/llama.py`, and gemma, qwen2 over it) | none of their own; they drive the cache | prefill, continue_prefill, prefix-reusing prefill, batched decode | KVCache (what they reserve, write, advance, read) |
| Scheduler, Sequence (`engine/scheduler.py`, `sequence.py`) | waiting, running, swapped; beam groups; status and tokens of each sequence | add, cancel, step: swap-in, prefill (chunks), draft, decode in two lanes, preempt, finish, beam groups | Scheduler |
| Speculative drafting (`engine/speculative.py`) | none | propose_ngram_draft | TokenLoop; a choice of drafts and hits in Scheduler and KVCache |
| Beam search (`engine/beam_search.py`) | beams, finished hypotheses, result | step | BeamSearch; its blocks in Scheduler, its effect on the prefix index in KVCache |
| CUDA graph decoder (`engine/cuda_graph_decoder.py`) | buckets, scratch sequences, static buffers | capture, decode | DecodeLanes; the lane inside a step in Scheduler |
| Async engine (`engine/async_engine.py`) | loop task, a queue and a count per request, a future per beam group | start, stop, generate, generate_beam_search, the loop | AsyncEngine |
| Detokenizer, stop strings, finish of a completion (`engine/detokenizer.py`, `api/stop_strings.py`, `api/server.py`) | token ids, text seen, text shown, flags | add_token, `__aiter__`, the handlers' loop | TextStream |
| API gate (`api/auth.py`, `rate_limit.py`, `logging_config.py`) | a window of hits per client | dispatch | ApiGate (without the access log, which keeps no state) |
| LoRA registry (`engine/lora.py`) | adapter → weights | load, unload, apply | DecodeLanes; the adapter a block was computed with in KVCache |
| Sampling (`engine/sampling.py`) | none | mask, penalty, filters, choice, log-probability | Sampling, over integer weights |
| Guided decoding (`engine/guided_decoding.py`) | a guide per sequence | mask, advance | TokenLoop, for a given automaton |
| Embeddings, quantization, attention kernel, configuration, CLI, baseline | – | floating point, file I/O, argument parsing | not modelled |

### How they interact, and what is hard

* **Sharing.** A prefix hit puts blocks of another sequence into a new table. There
  is no copy-on-write: nobody may write into a shared or registered block, a block
  is freed with its last holder only, and the index must forget it at that moment.
  Tests free sequences in one or two orders.
* **Memory runs out in the middle.** `reserve()` allocates block by block and raises
  when there is none left, keeping what it got. Its callers differ: the eager and
  graph lanes preempt and retry, speculation preempts its own sequence, chunked
  prefill and beam search let the exception out of `step()`.
* **Preemption in two ways.** By recomputation the sequence loses its output and
  starts over, ahead of the queue; by CPU swap its blocks are copied out and come
  back in other blocks. Both must agree with speculation (rollbacks, extra blocks),
  with chunks, with cancellation, and with what has already been streamed.
* **Order inside a step.** A sequence may be prefilled, drafted, decoded, preempted
  or finished in one step; each has to get its token exactly once.
* **Coroutines.** A generator may be closed at any yield or await, before, between or
  after the steps that finish its sequence; the loop may die, be stopped, restarted.
* **Two lanes, one batch.** A decode is split into a replay of a captured graph, with
  static buffers padded to a bucket, and an eager pass with one adapter per row; tokens,
  tables, adapters and logits must meet again row by row.
* **Hypotheses and drafts.** Candidates are pruned per beam before they are ranked, stop
  tokens take no slot; drafts are accepted row by row, and end in the middle.
* **Forgetting.** The rate limiter drops old hits from a deque and still has to know how
  many there were in any window, for clients told apart by what they claim to be.
* **Text.** Deltas cut stop strings anywhere; exclusive and inclusive stop strings
  meet; a filter that returns early must not leave the engine's generator suspended.

### What makes each component correct

* *Cache*: a block is free or held, and counted right (`OwnershipExact`); the index
  never leads to a block that is gone or rewritten and what a sequence reads is its own
  history (`CacheSound`); writes are exclusive (`ExclusiveWrites`); in short, sharing and
  swapping are invisible (`StoreSpec`).
* *Scheduler*: each request is in the one list its status says (`OneHome`), every
  block is accounted for and context lengths follow the tokens through every detour
  (`CacheInStep`), a step gives one token to everyone (`OneTokenPerStep`,
  `SomeTokenPerStep`), memory errors stay inside (`NothingEscapes`), and every request is
  served (`AllServed`).
* *Beam search*: hypotheses and their scores are what the model says, the winner is a
  finished one that none outscores (`HypothesesExact`), what pruning loses it loses to stop
  tokens only (`PrunedOnlyByStops`), one beam is greedy decoding (`OneBeamIsGreedy`).
* *Lanes*: logits belong to the sequence they are given to (`RowsAreTheirOwn`), padding
  and stale buffers write into nobody's cells (`CellsIntact`).
* *Tokens*: the output is one that plain sampling may give, drafted or not
  (`OutputAsSampled`); what is kept for sampling is what the comments say, and never nothing
  (`SampledAsDocumented`); log-probabilities are those of the output
  (`LogprobsEndWithOutput`).
* *Gate*: no window has more requests of a client than the limit
  (`WindowNeverExceeded`), Retry-After is enough (`RetryAfterHonest`), nobody else uses up
  the quota of a configured key (`QuotaIsOwn`).
* *Async engine*: the stream is the output (`StreamIsOutput`), nothing is kept for an
  absent caller (`NoOrphans`), beam groups, futures and callers agree and a future is set once
  (`BeamsSettled`), a call is answered unless the scheduler keeps it (`Answered`).
* *Text*: nothing is lost on the way or shown that should not be (`NothingLost`,
  `StopNeverShown`, `TagSurvives`), the cut is immediate (`StopsAtOnce`), reported
  (`StopIsReported`) and releases the generator (`SourceReleased`).

## 2. The modules and the code

### KVCache.tla

One action is one call of the scheduler on the model or the cache, to its end or to
the exception that leaves it. The variables are the attributes of `BlockAllocator`,
`KVCacheManager` and `SequenceState` by their names.

| Action | Code |
|---|---|
| `StartPrefill`, `ContinuePrefill` | `match_prefix` / `create_sequence[_from_prefix]`, `continue_prefill` (llama.py:468-529), `_continue_prefill_chunk`, `_prefill`, `register_prefix_blocks` |
| `PrefillOOM`, `ContinuePrefillOOM` | `reserve` raising inside them; nothing catches it (`raised`) |
| `DecodeActive` | `_decode_active`: victims preempted from the end until the rest fits, then `decode_step_batch` |
| `Speculate`, `SpeculateOOM` | `_speculative_decode_one`, verified or out of blocks |
| `FreeSequence`, `DiscardSwapped` | `free_sequence`, `discard_swapped` |
| `SwapIn`, `SwapInFails` | `swap_in` when the snapshot has the shape it allocates, and when not |
| `BeamScore` | one scratch sequence of `BeamGroup.step` |

Three abstractions, each on the safe side. `allocate()` pops the last element of a
list; here it returns *any* free block, so no result depends on the order of reuse.
The K/V of a position is *what it was computed from*: adapter and token prefix; if
those agree the floats agree. A chained hash is its prefix, i.e. `hash()` has no
collisions (kv_cache.py:215 compares one block of tokens, which a collision across
chains would pass). A block that loses its last reference has its cells set to
`Stale`, so that reading one is visible as an error.

**SequenceStore.tla** is what the cache promises: a private store per sequence that
grows at its end, is dropped, or is saved and restored whole. `KVCache!StoreSpec` is
this specification under the mapping `hist` ↦ prompt and output, `cached` ↦ `View`
(what `gather_prefix_kv` and the attention kernel read through the block table),
`saved` ↦ the part of the host copy that `context_len` covers.

### Scheduler.tla

`step()` is a sequence of loops on one thread. `phase` says which loop is running and
an action is one iteration of it; `AddRequest`, `Cancel` and the beam calls happen
between steps only. The cache is counted, not laid out: blocks per table, context
length, blocks and length of a host copy. Prefix caching is off here (KVCache has it).

| Phase | Actions | Code |
|---|---|---|
| swap_in | `SwapInHead`, `SwapInDone` | `_try_swap_in` |
| prefill | `AdmitHead` or `ContinueChunk`, `AdmitChunk`; `PrefillDone` | `_admit`, `_step_prefill_work` |
| draft | `NoDraft`, `SpeculateHit`, `SpeculateOOM`, `DraftsDone` | the first half of `step`, `_speculative_decode_one` |
| decode | `DecodeBatch`, `DecodeOOM` | `_decode_active` with its graph and eager lanes |
| finish, beam | `FinishSequences`, `StepBeamGroup` | the end of `step`, `_step_beam_groups` |

Which drafts an n-gram lookup finds, and how many of them the model confirms, is data:
`plan` fixes an outlook per request and position in the initial state and TLC tries
all of them. The list comprehensions of the code are `Only` of `Lists.tla`, a recursive function, so that the
proofs can reason about it. The plan is fixed because greedy decoding is deterministic: after a
recomputation the same lookup finds the same draft, which is what makes the livelock
below real.

### AsyncEngine.tla

Everything between two awaits is one action. The scheduler is what the engine sees of
it: a step gives tokens to some sequences (`U`), preempts some others (`P`), completes
some beam groups (`D`), or raises; it may also keep any of them for ever. `Step` includes `_on_token` for every updated
sequence and `_drain_completed_beam_groups`; `Close` is the `GeneratorExit` path with
the `finally` clause; `Stop`, `StopReturns` and `Start` are the life of the task, which
`start()` does not replace when it is dead; calls may come in every one of its states.

A cancelled `generate_beam_search()` takes two steps. `CancelBeam` is `Task.cancel()`, which
cancels the future it awaits at once; `BeamCancelled` is the `except` clause, which runs when
the event loop gets to the coroutine and takes the group away. In between the loop may run, and
complete the group whose future is done: that is what `not future.done()` at async_engine.py:117
is for (`Drain`), and what `BeamsSettled` looks at. `Task.cancel()` may also come when the result
is set but the coroutine has not woken; then it is thrown away.

### TextStream.tla

One completion: `Receive` is a token through `add_token` and one turn of the filter up
to its yield; `Return`, `SourceEnds`, `SourceRaises` and `Abandon` are the ways it ends;
`Respond` computes `finish_reason`. `endpoint` is the handler: only a chat looks for the
end of a tool call, and only a chat can end in one. Texts are sequences of characters from
a small alphabet, because where stop strings overlap and are cut is the point.

The tokenizer is outside the repository and `Decode` is a constant operator of which nothing
is assumed but that it gives text, and none for no tokens. In particular it "can retroactively
change how the previous one should render" (detokenizer.py:4-5), and shorten the text.
`AddToken` cuts the new text by the length of the old one, as the code does. `MCTextStream` takes a
tokenizer with byte fallback: characters of one, two and three tokens, where an incomplete one turns
the bytes before it back into replacement characters.

### BeamSearch.tla

`BeamStep` is `BeamGroup.step`: `TopTokens` is the top-k of one beam, `Visited` the loop over
the sorted candidates up to its break, `Survivors` the beams that go on, `GroupEnds` and
`Winner` are `_finalize` and when it is called. The model that scores tokens is a Markov
chain (`lm`), and every chain over the rows of the configuration is an initial state. `lm`
gives integers, so ties and comparisons are exact. The stable sort is kept: candidates of
equal score stay in the order of their beams. `length ** length_penalty` is a constant
operator, `LengthPower`, of which only its sign matters to the proofs; the run takes whole
powers for it. The reference of `OneBeamIsGreedy` is `GreedyRun`: the most probable token every
time, up to the first stop token or `max_new_tokens`.

### DecodeLanes.tla

The forward passes of one `_decode_active`, cell by cell. A cell holds the sequence
and the position it was written for and the version of the adapter it was computed with; which token it was is left
to `Scheduler` (`LanesAgree`). `GraphRows` is what the
decoder copies into the static buffers of its bucket, padding included (`PadRow`), `graphs`
what stays in them; `Written` is `index_copy_`; `Attended` is what the attention kernel reads
along the block table. `Passes` puts the two lanes together as the scheduler does.
`LaneOutOfMemory` is the exception in either lane. `LoadAdapter` and
`UnloadAdapter` may come between any two steps; `lora.py` answers for an adapter that is gone
with no delta at all. Free blocks are the stack they are in the code, because the scratch
sequences are what is on its top at startup.

### Sampling.tla and TokenLoop.tla

`Sampling` has the operators of one row: repetition penalty, softmax as integer
weights (`Exp`, a constant operator that is positive on the logits of the chains; a power of two
in the run), the three filters in their order over a sorted row, argmax. All
sorts of a row with ties are considered (`Sorted`). `TokenLoop` is the life of one sequence
over them: `Generate` (prefill or decode, and `append_token`), `Speculate`
(`propose_ngram_draft` and `_speculative_decode_one`), `Preempt` by recomputation. A guide is
an automaton, `Guided`; compiling one from a schema is a library's work, and
`GuideAssumption` is what is expected of it: until the automaton ends it allows some token
(`allowed_token_mask` would otherwise leave nothing to sample). The references
are `Documented` (the comments of sampling.py) and `WeightsAt` (plain sampling after the same
tokens).

### ApiGate.tla

`Arrive` is one request through the middleware of `create_app` as Starlette stacks it: what
is added last is called first, so the rate limiter sees a request before the key
check does. `hits` is the limiter's deque per client, whose stale end `Recent` drops.
`passed`, `admitted` and `retry_at` are history: all that was let through, all
that reached a handler, and when a refused client was told to come back. Time
is counted in ticks, several to a second, because `Retry-After` rounds to seconds.

### MCParts.tla

`BeamSearch`, `DecodeLanes`, `TokenLoop`, `TextStream` and `ApiGate` share no variable: what one
leaves to another (a token, a row, a request that was let in) is a choice in the other. A
behaviour of `MCParts` explores one of the five while the others stay in one initial
state each. Every property of this run reads the variables of one part only, so a behaviour
in which the parts interleave violates it exactly if one in which only that part moves does.
The sequences of DecodeLanes are interchangeable (`MCSymmetry`), and there is no liveness
property in the run.

## 3. Runs

| Run | Question | Result |
|---|---|---|
| `kv_prefix_chunk` | prefix caching, chunks, beams, preemption by recomputation: are blocks owned exactly, written by their owner only, is sharing invisible? | holds |
| `kv_spec_swap` | the same under speculation, rollback and CPU swap, with two sequences | holds |
| `kv_swap_fits` | does every host copy have the blocks `swap_in` will allocate? | **violated** |
| `kv_prefix_lora` | is a prefix hit transparent with two adapters? | **violated** |
| `sched_plain` | one-shot prefill, recomputation, cancellation: lists, blocks, tokens, one token per step, no exception, everybody served | holds |
| `sched_chunk_swap_spec` | chunks, CPU swap, drafts before the graph lane and a beam group with too few blocks, on through the steps that end in an exception | holds |
| `sched_spec_livelock` | is a request served whose drafts reach past the pool? | **violated** |
| `sched_mixed_lanes` | do graph and eager lanes agree after a retry? | **violated** |
| `async_swap` | streams, orphans, futures and answers with failing steps, closes, cancellations, stop, restart and late calls | holds |
| `async_recompute` | is a token streamed once although its sequence was recomputed? | **violated** |
| `text_pieces` | do the deltas put together give the decoded text, with characters of several tokens? | **violated** |
| `parts` | beams, lanes, sampled and drafted tokens, the text, the gate: hypotheses, rows, cells, tokens, log-probabilities, filters; what is shown of the deltas, stop strings cut in every way, closes and errors at every point; windows and quotas | holds |

### The disagreements

* **`kv_swap_fits`** – a speculation that runs out of blocks has already appended every
  free block to its table; `swap_out` copies the whole table, `swap_in` allocates what
  `context_len` needs, and `copy_` raises on the shapes. By then the copy is popped and
  the blocks belong to nobody (`lost`). kv_cache.py:126 promises a restore
  "byte-for-byte with no recompute".
* **`kv_prefix_lora`** – `match_prefix` looks at tokens only; a request under one adapter
  reuses K/V of another.
* **`sched_spec_livelock`** – a greedy sequence whose draft does not fit preempts itself
  (scheduler.py:351), is recomputed, finds the same draft and does it again for ever,
  though plain decoding fits in the pool.
* **`sched_mixed_lanes`** – when the eager lane raises after the graph lane has decoded,
  the retry decodes the graph lane again: its context lengths run ahead of its tokens.
* **`async_recompute`** – `_reported_count` survives a recomputation. It is then *lowered*
  to the new length, so tokens after that are pushed a second time.
* **`text_pieces`** – `decode` gives a replacement character for half a character, and
  `add_token` returns it. When the next token completes the character the new text is as long as the old
  one, or shorter, so the delta cut by length (detokenizer.py:26) is empty and the character never
  comes. detokenizer.py:20-22 promises an empty delta for the first half instead, and
  test_detokenizer.py:38 that the deltas make up the decoded text.

Met while modelling, not given a run of their own:

* the pledge of a running sequence whose length is a whole number of blocks is one block
  short of the worst case its docstring names (scheduler.py:182-189), because the next
  token starts a block. This is how two requests
  that need three blocks each get into the five of `sched_plain`, and why decoding has to
  preempt at all;
* a draft may reserve past `total_len_estimate` (sequence.py:39-44), the bound admission
  relies on;
* a later chunk of an admitted prompt may run out of blocks, and
  `_continue_prefill_chunk` (scheduler.py:251-274) has no handler; a beam step has none
  either. The step raises and the engine dies. `sched_chunk_swap_spec` goes through these states (`phase
  = "dead"`) and checks that lists and blocks are right even then;
* after the loop has died a new call waits for ever: `generate()` does not look at the
  task, and `start()` does not replace it (async_engine.py:67-69). `async_swap` has such calls;
  `Answered` claims nothing of them;
* a request larger than the pool is never admitted and, admission being FIFO, nobody
  behind it is, so their callers wait as long as the loop lives;
* server.py:253-256 calls the first middleware added the outermost; in Starlette it is
  the innermost. So the rate limiter runs before the key check (harmless for configured keys:
  `QuotaIsOwn`), and rejected requests leave no line in the access log, which
  logging_config.py:53-55 says they do;
* with `requests_per_minute` 0 the first request of a client reads the oldest hit of an empty deque
  (rate_limit.py:48) and is answered with a 500 instead of a 429;
* the comment at beam_search.py:128-132 ("strictly dominated") is not true when stop tokens are
  among a beam's top tokens: they fill no slot of the next step, so a token outside the top
  `num_beams` could have. `PrunedOnlyByStops` says that nothing else is lost;
* `over_p` drops the token that crosses `top_p`, while the comment at sampling.py:78 says
  "smallest prefix whose cumulative prob >= p", which has it. `SampledAsDocumented` says that
  the difference is that one token at most;
* recomputation (scheduler.py:301-305) empties `output_token_ids` but neither `logprobs`
  nor the guide. The log-probabilities of lost tokens stay in front of the new ones, and a
  guided sequence starts over with its guide in the middle of the schema: its output may break
  the schema, or a mask without any token may come up. `LogprobsEndWithOutput` and
  `OutputAsSampled` leave guided sequences that were preempted out;
* a completion that ends with an EOS token is reported as `length` (server.py:422): only a stop
  string is reported as a stop.

### Bounds, and why they are enough

* *KVCache*: five blocks of two slots and three sequences are the least in which two
  sequences share a block while a third takes and frees others; prompts sit on both
  sides of a block boundary (three tokens, and two whole blocks, where the "leave one
  token over" rule of `match_prefix` bites), and they share their first block. Histories
  stop at `MaxLen` = 5 to 7 tokens, which is two generated tokens at least and one block
  boundary crossed by decoding. The runs deadlock only at `MaxLen` or after an uncaught
  exception, so deadlock is not checked there. Blocks and sequences are symmetric;
  these runs check no liveness, so the reduction is sound.
* *Scheduler*: `sched_plain` has three requests of three blocks each, whose prompts fill
  whole blocks, and a pool of five that the pledge overcommits; the victim may be one token
  or several from its end; `sched_chunk_swap_spec` has a prompt of several chunks, a pool of
  four, a beam group and one request that drafts, with every outlook of up to two tokens at
  every position, so every loop runs out of blocks somewhere. The
  queues hold at most three requests, so FIFO order, head-of-line blocking and
  preemption to the front are all visible. No symmetry: requests differ in length.
* *AsyncEngine*: two calls and one beam group (groups do not meet each other), three tokens, at
  most two per step, and at most one preemption per request (`MaxPreempt`); a second preemption
  repeats the first one's effects. A step of the engine that changes nothing the engine sees is left out.
* *TextStream*: five tokens out of six, over two characters and the replacement character: one
  character each, a word of three, and parts of characters of two and three bytes, with deltas of length
  zero to three. Three stop strings overlap one another: each may come whole in a delta, be cut
  in two or three, end with or before its delta, before and after a rewriting.
* *BeamSearch*: four tokens of which two stop, up to three beams, one or three steps, seven
  rows for each of the three states of the chain. Every number of stop tokens
  among the top ones occurs, beams of one parent crowd out those of another, and hypotheses of
  length one, two and three compete. No row has ties; scores of different paths may tie.
* *DecodeLanes*: three sequences, a bucket of two (so one row of padding, a full bucket, and a
  batch that is too large and falls back), four blocks of two slots of which one is the scratch
  sequence's, one adapter loaded once. Sequences grow over a block boundary, and blocks pass
  from one to another while their old rows are still in the static buffers.
* *TokenLoop*: four tokens, ten chains with ties and logits of both signs, prompts in which
  the n-gram lookup finds something at once, drafts of up to two tokens, four new tokens, one
  recomputation; 4 to 7 tenths for `top_p` fall before, on and behind the weights of the rows.
* *ApiGate*: a window of four ticks, two to a second, on a clock that goes to seven; four
  requests under limits of none, 0, 1 and 2, from a configured key, another one and a host. The
  proofs of section 4 have no bounds.

### Fairness

* `Scheduler`: `WF(StepLoop)`. `_run_loop` (async_engine.py:86-94) calls `step()` as long
  as there is unfinished work, and `step()` is straight code. No fairness on clients;
  sampling may never choose to stop early, then `MaxNew` ends a sequence.
* `AsyncEngine`: only the event loop, which wakes whoever is ready (`ReceiveToken`, `ReceiveEnd`,
  `BeamReturns`, `BeamCancelled`). Nothing is asked of the scheduler: that it gives every sequence a
  token in the end is `AllServed`, which `sched_spec_livelock` refutes with speculation, and which a request
  larger than the pool does not get either. So `Answered` says of a call what the
  engine owes: it ends, unless the scheduler has its sequence for ever and the loop
  never fails. Nobody has to call, close, stop or start.
* `MCParts`, and with it `TextStream`: none. Whether a part is called again is up to the scheduler
  and the clients, whose progress is `AllServed` and `Answered`.

## 4. Proofs

### The cache

`KVCacheProofs.tla` proves for every pool, block size, draft length, set of sequences,
adapters and prompts:

* `TypeCorrect`: `Spec => []TypeOK`;
* `Ownership`: `Spec => []OwnershipExact`: tables list no block twice, reference
  counts count the tables that hold a block, the free list is exactly the blocks that
  nobody holds;
* `IndexSound`: `Spec => []IndexConsistent`: `hash_to_block` and `block_hash_info` agree, and no
  registered block is free.

Ownership is not inductive alone. A prefix hit puts blocks that `hash_to_block` names
into a new table and adds references to them: that they are held (so not about to be
allocated again) and distinct follows from the index, and the index stays consistent
because a block that leaves the tables has its last reference counted right. The
invariant is therefore

    IInv == TypeOK /\ OwnershipExact /\ IndexConsistent /\ LostByException /\ IdleHoldNothing

where `LostByException` says that blocks are lost only by an exception (`SwapInFails`, which
can then happen only once) and `IdleHoldNothing` that a sequence outside the cache has no
table. One lemma per action shows that it keeps `IInv`; they rest on lemmas about the
operators the actions share: `AccountExact` and `OwnershipKept` (what freeing the tables of a set of
sequences and granting others does to counts and free list, by counting holders with
the cardinality theorems), `MatchedBlocksOwned`, `TableGrows`, `RegisterKeepsIndex`,
`UnindexKeepsIndex`. The assumptions are those KVCache states about its constants:
finite blocks and sequences, a positive block size, prompts that are non-empty
sequences of tokens, boolean flags.

`KVCacheContents.tla` goes on to what is in the blocks:

* `WritesAreSafe`: `Spec => ExclusiveWrites`: a step only writes blocks that the writing
  sequence holds alone and that the index does not name;
* `ContentsSound`: `Spec => []CacheSound`: what the index leads to is the K/V of the prefix it
  stands for, and every sequence reads, or has put aside, the K/V of its own history;
* `ImplementsStore`: `Spec => StoreSpec`: KVCache implements SequenceStore, initial state and
  every step.

Writing is safe because of `WInv`, inductive on top of `IInv`:

    WInv == FullWhenRegistered /\ SharedThroughIndex /\ TablesCover

A sequence writes behind its `context_len`. A registered block lies below the write position of
whoever holds it (`FullWhenRegistered`), two tables share a block only if it is registered
(`SharedThroughIndex`), so the block being written is shared with nobody. The contents then need

    CInv == RegisteredCells /\ LiveCells /\ SavedCells /\ Phases

`RegisteredCells` is what the index promises, cell by cell; `LiveCells` and `SavedCells` are
`CacheCoherent` in a form that a copy from the index or from the host preserves; `Phases` says what is left
of a sequence that is not in the cache. Rollback needs nothing more: it moves `context_len`
back and only cells below it are claimed.

`ContentsSound` and `ImplementsStore` assume `OneAdapter`: prefix caching is only used with the
base model. The index does not know the adapter (kv_cache.py:128-215), and the run `kv_prefix_lora`
shows that both statements fail with two; `WritesAreSafe` needs no such assumption. In the
refinement each action is shown to leave every sequence but a few alone
(`Stays`) and to do to those one of `Begins`, `Extends`, `Drops`, `Saves`, `Restores`, of which a step of
`Store!Next` consists; `StoreViewHolds` turns `CInv` into the equality between what is read through a
block table and what the store would hold.

### The scheduler

`SchedulerProofs.tla` proves for every set of requests, groups and adapters, pool, block
size, chunk budget, draft length and lane setting:

* `TypeCorrect`: `Spec => []TypeOK`;
* `HomeIsOne`: `Spec => []OneHome`: every request is in the one list its status says, once;
* `BooksBalance`: `Spec => []BlocksAccounted`: every block is free, in one table, or leaked
  by an exception;
* `CacheStaysInStep`: `Spec => []CacheInStep`, and `OneLaneAgrees`: `Spec => []LanesAgree`, both
  for batches decoded in one lane;
* `OneTokenEach`: without speculation, `Spec => []OneTokenPerStep`;
* `SomeTokenEach`: `Spec => []SomeTokenPerStep`, speculation or not;
* `SwapLosesNothing`: with CPU swap, `Spec => NoLostWork`;
* `NothingEscapesUnchunked`: with one-shot prefill, no CPU swap and no beam groups,
  `Spec => []NothingEscapes`.

All rest on

    IInv == TypeOK /\ PlanFits /\ ListsMatch /\ BlocksAccounted
            /\ TokensByStatus /\ CachedByStatus /\ LoopsInOrder /\ GainsInOrder

`OneHome` is not inductive because a step works on copies of the lists while statuses change under
it: `ListsMatch` says what list and status still agree on inside a step, and
`LoopsInOrder` what the copies (`todo`, `batch`) hold: the prefilling sequences not visited yet;
the decodable ones that have no token in this step yet (`Unserved`), split between
the draft loop and the batch. A preemption takes its victims out of both, and that none is
dropped is what gives everybody a token. `BlocksAccounted` needs `TokensByStatus` and
`CachedByStatus`: that `blocks_needed` asks for what `reserve` then takes depends on the table
covering `context_len`, and a finished or waiting sequence having no table. Both invariants were given to TLC
as INVARIANTs of the scheduler's runs before they were proved.

One lemma per action shows that it keeps `IInv`. Shared lemmas say what filtering a list
keeps (`Only`), that enough free blocks were counted (`BlocksEnough`, `TableCovers`), what growing a table, a
prefill and a preemption do to the books (`GrowTable`, `PrefillTokensKeeps`, `PreemptKeeps`). The sums over tables
and snapshots are folds, for which the library has no theorems: `Foundations.tla` proves from the
definition of the fold, by induction over finite sets, that changing one summand changes the sum
by as much (`SumShifts`, `SumClears`, `SumAtOne`). Foundations is also where that induction comes
from, and the lemmas on lists that several components cite: the library's induction theorems take
a predicate as a parameter, which the provers cannot instantiate, so `StrongInduction` and
`SetInduction` are stated for a set of numbers or of sets and follow from the
well-foundedness of inclusion on finite sets.

`ExactlyCached` (a decodable sequence has cached its prompt and all its tokens but the last)
comes on top, under `OneLane`: with the graph lane on, either all requests have an adapter or none.
Without that it is false. When the eager lane of a mixed batch runs out of blocks after the
graph lane has decoded, the whole batch is tried again and the graph lane decodes twice
(`sched_mixed_lanes`).

The hypotheses of the other theorems are where the code parts ways. A recomputation takes tokens
back, hence CPU swap for `NoLostWork`; accepted drafts are tokens of the same step, hence
`MaxDraft = 0` for `OneTokenPerStep`. Chunked prefill, `swap_in` and beam scratch sequences
each have an `OutOfBlocks` that nothing catches, so `NothingEscapes` is claimed without them: there
admission has made sure of every prefill's blocks and everything else is preempted.

### The gate

`ApiGateProofs.tla` proves for every limit (0 and none too), window, clock
resolution, set of keys and hosts:

* `LimitHolds`: `GateSpec => []WindowNeverExceeded`;
* `RetryAfterIsEnough`: `GateSpec => []RetryAfterHonest`;
* `QuotaHolds`: `GateSpec => []QuotaIsOwn`.

`GateSpec` is the gate on its own; the run `parts` checks the same three formulas with it as a
part of `MCParts!Spec`. None is inductive: the limiter compares the limit with the length of a
deque that forgets. What ties the deque to the history is `Remembers`: it is an end of the
history, and the rest of the history is older than the window.

    IInv == GateTypeOK /\ HitsRemember /\ QuotaRemembered /\ LimitKept /\ RetryKept
            /\ WindowNeverExceeded

`HitsRemember` is `Remembers` for all that was let through, `QuotaRemembered` for
what reached a handler under a configured key; `LimitKept` bounds the deque, so a request
that is let through when it is not full has its `limit`-th predecessor among the forgotten;
`RetryKept` says that a refused client's `Retry-After` lies past the time its oldest hit
expires. That the loop of `popleft` stops at the first hit that is not stale is the least-number
principle (`LeastNatural` of Foundations). The
assumptions are those of ApiGate: limits are numbers, the window is whole seconds of one tick
or more, no host looks like a key (those begin with "Bearer ").

### The engine

`AsyncEngineProofs.tla` proves for every set of calls and groups, output length, gain of a step
and setting of the flags:

* `TypeCorrect`: `Spec => []TypeOK`;
* `NobodyOrphaned`: `Spec => []NoOrphans`;
* `GroupsSettled`: `Spec => []BeamsSettled`;
* `StreamsWhole`: `EnableSwap` implies `Spec => []StreamIsOutput` (without CPU swap
  `async_recompute` refutes it).

`TypeCorrect` and `NobodyOrphaned` need

    IInv == TypeOK /\ NoOrphans /\ QueueTokens /\ NewcomersClean

`QueueTokens` says that the queue of a listed request has tokens only: so whoever takes an end
marker is not listed any more, and `Forget` takes nothing from a sequence the scheduler
still has. `NewcomersClean` is what makes a new call begin with an empty queue.
`BeamsSettled` needs `CallsWait` with the types: a future is pending only under a coroutine
that waits for it, and one that is being cancelled has a future that is done. The streams need `StreamKept` on top: what
has been pushed for a listed request is `output_token_ids` and its count is their number; for
one that is not listed but still read it is all of the output and one marker, and the marker is
not out of the queue before the caller has taken it. The lemmas about sequences
(`TokensAfterConcat`, `HandOver`, `EndIsLast`) say that slices follow one another, that taking
the head changes nothing that was pushed, and that an end marker is met last. The assumptions
are those AsyncEngine states: positive bounds, boolean flags.

### The text

`TextStreamProofs.tla` proves for every set of stop strings, every function `Decode` may be, every
limit and both endpoints (`TextSpec` is the pipeline on its own, as `GateSpec` is the gate):

* `TypeCorrect`: `TextSpec => []TextTypeOK`;
* `ShownIsText`: `TextSpec => []NothingLost`;
* `StopIsSeenAtOnce`: `TextSpec => []StopsAtOnce`;
* `StopIsHidden`: `TextSpec => []StopNeverShown`;
* `TagIsWhole`: `TextSpec => []TagSurvives`;
* `SourceIsReleased`: `TextSpec => []SourceReleased`;
* `ResponseIsTrue`: `TextSpec => []StopIsReported`.

They rest on

    IInv == TextTypeOK /\ DeltasKeepPlace /\ ShownToCut /\ EndsWithCut /\ AnswersAfterCut

What `NothingLost` may claim of a tokenizer that rewrites is little, because the code loses characters with one
(`text_pieces`): the deltas are the decoded text as long as no token has changed earlier text, and what came
since the last that did is an end of the deltas, so the detokenizer finds its place again. `DeltasKeepPlace` is
that, with the place named. All else is about the deltas, which are what the filter knows.
`ShownToCut` says that it has shown them up to the cut; `EndsWithCut` that it asks for more only as long as
no stop string has come, and has closed its source when it is done; `AnswersAfterCut` that the handler
reads flags that are set. That a stop string cannot be overlooked when it is cut over several deltas, and that
the first one to end is the one that counts, is `FindsInFirst` and `FoundBehind`. The assumptions are those of
TextStream: no stop string is empty, stop strings and decoded texts are strings, no tokens decode to no text.

### The tokens

`PartsProofs.tla` has the proofs of the parts of a step that MCParts runs one at a time, each on its own. For
`TokenSpec`, any number of tokens, every chain of rows, prompt, guide and limit:

* `TokensAsSampled`: `TokenSpec => []OutputAsSampled`: every token, drafted or not, is one that
  plain sampling could have chosen after those before it;
* `LogprobsMatch`: `TokenSpec => []LogprobsEndWithOutput`.

    TokenIInv == TokenTypes /\ EndsInTime /\ GuideFollows /\ TokensSampled /\ LogprobsEndWithOutput

The two properties depend on each other's surroundings: an accepted draft is as good as a sampled token only
because the guide has seen exactly the output (`GuideFollows`) and because speculation is greedy, so
`WithoutPenalty` and `AcceptedArePredicted` identify the row that was verified with the row plain sampling would
have used. `MoreTokens` is the one lemma about `append_token` in a loop: one token from `Generate`, several
from `Speculate`, with the loop stopping where the sequence finishes (`KeptUntilFinished`). The guide's state
after a list of tokens is a recursive function, followed token by token in `GuideAdvances`.

`SampledAsPromised`, `TokenSpec => []SampledAsDocumented`, is about the next token instead: what the filters of
sampling.py leave of the row in hand is what their comments say, at most short of the token that
crosses `top_p`, and never nothing, for every row, every order in which the sort may give equal
weights, every `Exp` that is positive, every `top_k` and `min_p` and a `top_p` in tenths. It needs

    SamplingIInv == TokenIInv /\ chain \in Chains /\ sampling_params \in ParamChoices /\ GuideGoesOn

because the filters say something sensible only of a row with a token to sample: `GuideGoesOn`,
that the guide of a sequence that goes on allows one, holds because only allowed tokens are sampled
(`SampledAllowed`), and it survives a recomputation, which leaves the guide in the middle of the schema.
`RanksAre` is the sorted row: every token has its rank, weights descend, and the weight of the first `k` ranks
grows by that of the next up to the total (a fold again, so by `SumAdds`). `FilterIs` has the rest: a token of
no weight stands behind everything (`NothingLeft`), so it is not kept by accident, and nothing of the nucleus is
behind the token that crosses.

### The hypotheses

For `BeamSpec`, any vocabulary, stop tokens, number of beams, model and length penalty:

* `HypothesesAreExact`: `BeamSpec => []HypothesesExact`;
* `PruningLosesStopsOnly`: `BeamSpec => []PrunedOnlyByStops`;
* `OneBeamDecodesGreedily`: `BeamSpec => []OneBeamIsGreedy`.

    BeamIInv == BeamTypes /\ HypothesesExact /\ FinishedInTime /\ GreedyAlone /\ OneBeamIsGreedy

`FinishedInTime` bounds the length of finished hypotheses, so that their `Weight` is positive and scores can be
compared crosswise (`RatiosOrdered`, `WinnerIs`: the relation "no better" is transitive, which needs the weights
positive, so a pool has an unbeaten hypothesis). `GreedyAlone` is `OneBeamIsGreedy` of a group that is still under
way. The sort, the top-k and the loop that stops at `num_beams` survivors are all
"the elements with fewer than `n` others before them" in a finite total order: `BeforeGrows` and `FirstsOf` of
Foundations say that their places are 0, 1, 2, ... without a gap, and from there `OrderedIs` (the sorted list has every
candidate once, in order), `VisitedAre` and `TopTokensAre` (as many as asked for, if there are as many) follow.
`StepMakes` puts them together for one step, `BeamStepKeeps` is the induction. `LostToTheSlots` is the pruning
argument: a token outside its beam's top `num_beams` has `num_beams` better siblings, and if none of those is a stop
token, they fill every slot before it. The assumptions are those of BeamSearch: no two tokens of one row
are equally probable (scores of different paths may tie), there are at least as many tokens as beams, and powers
of lengths are positive.

### The lanes

For `LaneSpec`, any sequences, blocks, slots, buckets and adapters:

* `CellsStayIntact`: `LaneSpec => []CellsIntact`;
* `LogitsStayOwn`: `LaneSpec => []RowsAreTheirOwn`.

    LaneIInv == LaneTypes /\ Layout(block_table, free_blocks) /\ TablesReach /\ CellsHeld

`Layout`: no block is twice in the tables and the free list, and none of them is a scratch block.
`TablesReach`: a table covers its sequence's positions. `CellsHeld` is `CellsIntact` without its bound.
`PassIsOwn` is one forward pass: rows of distinct sequences, each writing behind its own context, and
padding rows writing outside every table, leave to each sequence of the batch one cell more and to every
other sequence what it had. `GraphLaneRows` and `EagerLaneRows` show that both lanes make such rows,
`PassesSound` runs one after the other. `ReservedGrows` and `FrontReserved` are about the blocks: a batch
takes them from the top of the stack in its order, so the graph lane gets what it would have got
alone, which is why the eager lane may run out behind it (`FrontDecoded`) without disturbing it. The assumptions are
those of DecodeLanes; that the buckets are not just `(1,)` is one of them, because the decoder has no
scratch sequence to capture with then.

### Only model-checked

Every liveness property (`AllServed`, `Answered`): liveness under fairness
is out of reach of the prover. So are the six disagreements of section 3, which are behaviours and not
theorems. Every safety property of a passing run has a theorem; some of the scheduler's are proved under the
conditions named there, which the runs that check them satisfy.

## 5. Plan

**Composition**: AsyncEngine over Scheduler, to replace the choice of a step's effect
(`U`, `P`, `D`) by what `step()` does; first the lemma that a step of Scheduler, seen through
lists and tokens, is one of those effects.

### Not modelled, and why

* *Quantization, attention kernel, embeddings*: floating-point kernels and file formats without
  state of their own; TLC has no floating point.
* *Model configuration, registry, command line, baseline*: data read once at startup, argument
  parsing, a reference generator for the tests.
* *The access log, metrics, schemas, tool-call parsing*: no state anything else reads, or
  the format of a text.
* *Compiling a schema or a regular expression into a guide*, and the tokenizer: libraries
  outside the repository.
