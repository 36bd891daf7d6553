------------------------------ MODULE Scheduler ------------------------------
(***************************************************************************)
(* The continuous batching scheduler of wllm/engine/scheduler.py: queues,  *)
(* admission against pledged blocks, (chunked) prefill, preemption by      *)
(* recomputation or CPU swap, speculative and batched decoding (eager and  *)
(* CUDA graph lanes), the beam lane, cancellation.                         *)
(*                                                                         *)
(* The KV cache is counted here, not laid out: how many blocks each table  *)
(* has and how many tokens are cached (KVCache.tla has the contents;       *)
(* prefix caching is off).  step() is a sequence of loops on one thread:   *)
(* phase says which loop it is in, and an action is one iteration of it,   *)
(* so add_request and cancel only happen between steps.                    *)
(***************************************************************************)
EXTENDS Lists, FiniteSets, FiniteSetsExt

CONSTANTS
    Reqs,           \* generation requests
    NumBlocks,      \* KV blocks (scratch sequences of the graph decoder not counted)
    BlockSize,
    PromptLen,      \* num_prompt_tokens of each request
    MaxNew,         \* max_new_tokens of each request
    ChunkBudget,    \* max_prefill_tokens_per_step, 0 for None
    EnableSwap,     \* enable_cpu_swap
    MaxDraft,       \* speculative_max_draft_len, 0 when speculation is off
    Greedy,         \* requests eligible for speculation
    UseGraph,       \* a graph_decoder is given
    Lora,           \* requests with a lora_id
    CanStop,        \* the model may sample an EOS or stop token
    CanCancel,      \* clients may disconnect
    Groups,         \* beam search requests
    GroupLen,       \* prompt length of each group
    GroupNew        \* max_new_tokens of each group

ASSUME SizesAssumption ==
    /\ NumBlocks \in Nat /\ BlockSize \in Nat \ {0}
    /\ ChunkBudget \in Nat /\ MaxDraft \in Nat
ASSUME RequestsAssumption ==
    /\ IsFiniteSet(Reqs) /\ Greedy \subseteq Reqs /\ Lora \subseteq Reqs
    /\ \A r \in Reqs : PromptLen[r] \in Nat \ {0} /\ MaxNew[r] \in Nat \ {0}
    /\ \A g \in Groups : GroupLen[g] \in Nat \ {0} /\ GroupNew[g] \in Nat \ {0}
ASSUME FlagsAssumption ==
    /\ EnableSwap \in BOOLEAN /\ UseGraph \in BOOLEAN
    /\ CanStop \in BOOLEAN /\ CanCancel \in BOOLEAN

VARIABLES
    waiting, running, swapped,      \* Scheduler's three lists
    status,                         \* Sequence.status ("NEW": not submitted yet)
    out,                            \* len(output_token_ids)
    num_free,                       \* allocator.num_free
    blocks,                         \* len(block_table)
    ctx,                            \* context_len
    swap_blocks, swap_ctx,          \* the host snapshot: blocks in it, context_len
    phase,                          \* the loop of step() being run, or "idle" / "dead"
    todo,                           \* what is left for that loop
    batch,                          \* regular_batch
    budget,                         \* prefill tokens left in this step
    gained,                         \* tokens sampled per sequence in this step
    plan,                           \* the drafts each greedy request will find
    beam_groups,                    \* the beam lane
    beam_out,                       \* tokens generated by each group
    leaked                          \* blocks allocated to nobody the scheduler knows

queueVars == <<waiting, running, swapped>>
seqVars   == <<status, out>>
cacheVars == <<num_free, blocks, ctx, swap_blocks, swap_ctx, leaked>>
swapVars  == <<swap_blocks, swap_ctx>>
stepVars  == <<phase, todo, batch, budget, gained>>
beamVars  == <<beam_groups, beam_out>>
vars == <<queueVars, seqVars, cacheVars, stepVars, beamVars, plan>>

-----------------------------------------------------------------------------
(* Helpers *)

\* Mutant: the sequence stays in the list it leaves.
WithoutNothing(q, r) == q

Without(q, r) == Only(q, Elems(q) \ {r})
Last(q) == q[Len(q)]
Lesser(m, n) == IF m < n THEN m ELSE n
Excess(m, n) == IF m > n THEN m - n ELSE 0

BlocksNeeded(n) == (n + BlockSize - 1) \div BlockSize
TotalLen(r) == PromptLen[r] + MaxNew[r]

\* _pledged_blocks()
Pledge(r) == Excess(BlocksNeeded(TotalLen(r)), BlocksNeeded(PromptLen[r] + out[r]))
Pledged == SumFunctionOnSet([r \in Reqs |-> Pledge(r)], Elems(running))
Headroom == num_free - Pledged

\* Blocks reserve() must allocate before n more tokens fit.
Missing(r, n) == Excess(BlocksNeeded(ctx[r] + n), blocks[r])

\* append_token: the states a sequence may be in once it has n tokens.
StatusAfter(r, n) ==
    IF n >= MaxNew[r] THEN {"FINISHED"}
    ELSE IF CanStop THEN {"RUNNING", "FINISHED"}
    ELSE {"RUNNING"}

\* What n-gram lookup finds at a given point of a greedy sequence, and how much
\* of it the model then agrees with.  Greedy decoding is deterministic: a
\* sequence recomputed from its prompt finds the same drafts again.
Outlook == {o \in [draft : 0 .. MaxDraft, hits : 0 .. MaxDraft] : o.hits <= o.draft}

Draft(r) == IF MaxDraft > 0 /\ r \in Greedy THEN plan[r][out[r]].draft ELSE 0

\* Mutant: finished sequences leave their blocks allocated.
ReleasedNothing(R) == 0

\* The blocks free_sequence() gives back for the sequences of R.
Released(R) == SumFunctionOnSet(blocks, R)

Unfinished == waiting # <<>> \/ running # <<>> \/ swapped # <<>> \/ beam_groups # <<>>

-----------------------------------------------------------------------------
Init ==
    /\ waiting = <<>> /\ running = <<>> /\ swapped = <<>>
    /\ status = [r \in Reqs |-> "NEW"]
    /\ out = [r \in Reqs |-> 0]
    /\ num_free = NumBlocks
    /\ blocks = [r \in Reqs |-> 0]
    /\ ctx = [r \in Reqs |-> 0]
    /\ swap_blocks = [r \in Reqs |-> 0]
    /\ swap_ctx = [r \in Reqs |-> 0]
    /\ phase = "idle"
    /\ todo = <<>> /\ batch = <<>>
    /\ budget = 0
    /\ gained = [r \in Reqs |-> 0]
    /\ plan \in [Greedy -> [1 .. Max({MaxNew[r] : r \in Reqs}) - 1 -> Outlook]]
    /\ leaked = 0
    /\ beam_groups = <<>>
    /\ beam_out = [g \in Groups |-> 0]

-----------------------------------------------------------------------------
(* Between steps *)

AddRequest(r) ==
    /\ phase = "idle" /\ status[r] = "NEW"
    /\ status' = [status EXCEPT ![r] = "WAITING"]
    /\ waiting' = Append(waiting, r)
    /\ UNCHANGED <<running, swapped, out, cacheVars, stepVars, beamVars, plan>>

AddBeamRequest(g) ==
    /\ phase = "idle" /\ beam_out[g] = 0 /\ g \notin Elems(beam_groups)
    /\ beam_groups' = Append(beam_groups, g)
    /\ UNCHANGED <<queueVars, seqVars, cacheVars, stepVars, beam_out, plan>>

\* cancel(): wherever the sequence is, its blocks or its snapshot go with it.
Cancel(r) ==
    /\ CanCancel
    /\ phase = "idle" /\ r \in Elems(running \o swapped \o waiting)
    /\ running' = Without(running, r)
    /\ swapped' = Without(swapped, r)
    /\ waiting' = Without(waiting, r)
    /\ num_free' = num_free + blocks[r]
    /\ blocks' = [blocks EXCEPT ![r] = 0]
    /\ ctx' = [ctx EXCEPT ![r] = 0]
    /\ swap_blocks' = [swap_blocks EXCEPT ![r] = 0]
    /\ swap_ctx' = [swap_ctx EXCEPT ![r] = 0]
    /\ status' = [status EXCEPT ![r] = "CANCELLED"]
    /\ UNCHANGED <<out, stepVars, beamVars, plan, leaked>>

\* The caller of generate_beam_search went away.
CancelBeam(g) ==
    /\ CanCancel
    /\ phase = "idle" /\ g \in Elems(beam_groups)
    /\ beam_groups' = Without(beam_groups, g)
    /\ UNCHANGED <<queueVars, seqVars, cacheVars, stepVars, beam_out, plan>>

BeginStep ==
    /\ phase = "idle" /\ Unfinished
    /\ phase' = "swap_in"
    /\ gained' = [r \in Reqs |-> 0]
    /\ UNCHANGED <<queueVars, seqVars, cacheVars, todo, batch, budget, beamVars, plan>>

\* The engine loop polls while nothing is submitted.
Idle == phase = "idle" /\ ~Unfinished /\ UNCHANGED vars

\* An exception has left step(): the loop task is over.
Dead == phase = "dead" /\ UNCHANGED vars

-----------------------------------------------------------------------------
(* step(), loop 1: _try_swap_in *)

SwapInHead ==
    LET r    == Head(swapped)
        need == BlocksNeeded(swap_ctx[r]) IN
    /\ phase = "swap_in" /\ swapped # <<>>
    /\ need <= Headroom
    /\ swapped' = Tail(swapped)
    /\ swap_blocks' = [swap_blocks EXCEPT ![r] = 0]
    /\ swap_ctx' = [swap_ctx EXCEPT ![r] = 0]
    /\ num_free' = num_free - need
    /\ IF swap_blocks[r] = need
       THEN /\ blocks' = [blocks EXCEPT ![r] = need]
            /\ ctx' = [ctx EXCEPT ![r] = swap_ctx[r]]
            /\ status' = [status EXCEPT ![r] = "RUNNING"]
            /\ running' = Append(running, r)
            /\ UNCHANGED <<phase, leaked>>
       ELSE \* the snapshot has another shape than the blocks allocated for it
            /\ phase' = "dead"
            /\ leaked' = leaked + need
            /\ UNCHANGED <<blocks, ctx, status, running>>
    /\ UNCHANGED <<waiting, out, todo, batch, budget, gained, beamVars, plan>>

SwapInDone ==
    /\ phase = "swap_in"
    /\ swapped # <<>> => BlocksNeeded(swap_ctx[Head(swapped)]) > Headroom
    /\ phase' = "prefill"
    /\ budget' = ChunkBudget
    /\ todo' = IF ChunkBudget > 0 THEN Only(running, {r \in Reqs : status[r] = "PREFILLING"})
               ELSE <<>>
    /\ UNCHANGED <<queueVars, seqVars, cacheVars, batch, gained, beamVars, plan>>

-----------------------------------------------------------------------------
(* step(), loop 2: _step_prefill_work *)

\* n prompt tokens of r go through the model; the last one yields a token.
\* continue_prefill has no handler for running out of blocks.
PrefillTokens(r, n) ==
    LET need == Missing(r, n) IN
    IF need > num_free
    THEN /\ phase' = "dead"
         /\ blocks' = [blocks EXCEPT ![r] = @ + num_free]
         /\ num_free' = 0
         /\ status' = [status EXCEPT ![r] = "PREFILLING"]
         /\ UNCHANGED <<ctx, out, gained>>
    ELSE /\ num_free' = num_free - need
         /\ blocks' = [blocks EXCEPT ![r] = @ + need]
         /\ ctx' = [ctx EXCEPT ![r] = @ + n]
         /\ IF ctx[r] + n = PromptLen[r]
            THEN /\ out' = [out EXCEPT ![r] = @ + 1]
                 /\ gained' = [gained EXCEPT ![r] = @ + 1]
                 /\ \E st \in StatusAfter(r, out[r] + 1) : status' = [status EXCEPT ![r] = st]
            ELSE /\ status' = [status EXCEPT ![r] = "PREFILLING"]
                 /\ UNCHANGED <<out, gained>>
         /\ UNCHANGED phase

\* Mutant: admission does not look at the blocks.
AdmissibleAlways == waiting # <<>>

\* FIFO admission: only the head of the line, and only if its worst case fits.
Admissible == waiting # <<>> /\ BlocksNeeded(TotalLen(Head(waiting))) <= Headroom

\* _admit(): the whole prompt in one shot.  An out-of-memory error in _prefill
\* would end the loop with r still in waiting, not in running as here; the runs
\* without chunks show (NothingEscapes) that what Admissible asks rules it out.
AdmitHead ==
    LET r == Head(waiting) IN
    /\ phase = "prefill" /\ ChunkBudget = 0
    /\ Admissible
    /\ PrefillTokens(r, PromptLen[r])
    /\ waiting' = Tail(waiting)
    /\ running' = Append(running, r)
    /\ UNCHANGED <<swapped, swapVars, leaked, todo, batch, budget, beamVars, plan>>

\* A sequence in mid-prefill gets its next chunk.
ContinueChunk ==
    LET r == Head(todo)
        n == Lesser(budget, PromptLen[r] - ctx[r]) IN
    /\ phase = "prefill" /\ todo # <<>> /\ budget > 0
    /\ PrefillTokens(r, n)
    /\ todo' = Tail(todo)
    /\ budget' = budget - n
    /\ UNCHANGED <<queueVars, swapVars, leaked, batch, beamVars, plan>>

\* Admission into what is left of the budget, with the first chunk.
AdmitChunk ==
    LET r == Head(waiting)
        n == Lesser(budget, PromptLen[r]) IN
    /\ phase = "prefill" /\ todo = <<>> /\ budget > 0
    /\ Admissible
    /\ PrefillTokens(r, n)
    /\ waiting' = Tail(waiting)
    /\ running' = Append(running, r)
    /\ budget' = budget - n
    /\ UNCHANGED <<swapped, swapVars, leaked, todo, batch, beamVars, plan>>

\* Mutant: a sequence whose prefill has just completed is decoded as well.
PrefillDoneAll ==
    /\ phase = "prefill"
    /\ ChunkBudget > 0 /\ budget > 0 => todo = <<>>
    /\ Admissible => ChunkBudget > 0 /\ budget = 0
    /\ phase' = "draft"
    /\ todo' = Only(running, {r \in Reqs : status[r] = "RUNNING"})
    /\ batch' = <<>>
    /\ UNCHANGED <<queueVars, seqVars, cacheVars, budget, gained, beamVars, plan>>

\* active: the running sequences that got no token in this step yet.
PrefillDone ==
    /\ phase = "prefill"
    /\ ChunkBudget > 0 /\ budget > 0 => todo = <<>>
    /\ Admissible => ChunkBudget > 0 /\ budget = 0
    /\ phase' = "draft"
    /\ todo' = Only(running, {r \in Reqs : status[r] = "RUNNING" /\ gained[r] = 0})
    /\ batch' = <<>>
    /\ UNCHANGED <<queueVars, seqVars, cacheVars, budget, gained, beamVars, plan>>

-----------------------------------------------------------------------------
(* Preemption *)

\* Mutants of SwapOut: the generated tokens are dropped as well; the sequence
\* goes back to waiting.
SwapOutRestarts(v, n, c) ==
    /\ swap_blocks' = [swap_blocks EXCEPT ![v] = n]
    /\ swap_ctx' = [swap_ctx EXCEPT ![v] = c]
    /\ status' = [status EXCEPT ![v] = "SWAPPED"]
    /\ swapped' = <<v>> \o swapped
    /\ out' = [out EXCEPT ![v] = 0]
    /\ UNCHANGED waiting

SwapOutWaiting(v, n, c) ==
    /\ swap_blocks' = [swap_blocks EXCEPT ![v] = n]
    /\ swap_ctx' = [swap_ctx EXCEPT ![v] = c]
    /\ status' = [status EXCEPT ![v] = "SWAPPED"]
    /\ waiting' = <<v>> \o waiting
    /\ UNCHANGED <<swapped, out>>

\* Preemption by CPU swap: n blocks with c tokens move to the host.
SwapOut(v, n, c) ==
    /\ swap_blocks' = [swap_blocks EXCEPT ![v] = n]
    /\ swap_ctx' = [swap_ctx EXCEPT ![v] = c]
    /\ status' = [status EXCEPT ![v] = "SWAPPED"]
    /\ swapped' = <<v>> \o swapped
    /\ UNCHANGED <<waiting, out>>

\* Preemption by recomputation: the sequence starts over, ahead of the line.
Restart(v) ==
    /\ out' = [out EXCEPT ![v] = 0]
    /\ status' = [status EXCEPT ![v] = "WAITING"]
    /\ waiting' = <<v>> \o waiting
    /\ UNCHANGED <<swapped, swapVars>>

\* Mutant: the blocks are counted free but the table is kept.
PreemptKeepsTable(v, blk, c, free) ==
    /\ running' = Without(running, v)
    /\ num_free' = free + blk[v]
    /\ blocks' = blk
    /\ ctx' = [c EXCEPT ![v] = 0]
    /\ IF EnableSwap THEN SwapOut(v, blk[v], c[v]) ELSE Restart(v)

\* _preempt(v), when the tables are blk, the context lengths c and free blocks
\* are left.
Preempt(v, blk, c, free) ==
    /\ running' = Without(running, v)
    /\ num_free' = free + blk[v]
    /\ blocks' = [blk EXCEPT ![v] = 0]
    /\ ctx' = [c EXCEPT ![v] = 0]
    /\ IF EnableSwap THEN SwapOut(v, blk[v], c[v]) ELSE Restart(v)

-----------------------------------------------------------------------------
(* step(), loop 3: drafts *)

\* Mutant: a sequence without a draft is left out of the batch.
NoDraftSkips ==
    LET r == Head(todo) IN
    /\ phase = "draft" /\ todo # <<>> /\ Draft(r) = 0
    /\ todo' = Tail(todo)
    /\ UNCHANGED <<queueVars, seqVars, cacheVars, phase, batch, budget, gained, beamVars, plan>>

NoDraft ==
    LET r == Head(todo) IN
    /\ phase = "draft" /\ todo # <<>> /\ Draft(r) = 0
    /\ batch' = Append(batch, r)
    /\ todo' = Tail(todo)
    /\ UNCHANGED <<queueVars, seqVars, cacheVars, phase, budget, gained, beamVars, plan>>

\* Mutant: rejected drafts stay in the cache.
RollbackNone(k, hits, kept) == 0

\* How many of the k draft positions just written are discarded.
Rollback(k, hits, kept) == k - Lesser(kept, hits)

\* _speculative_decode_one, verified: hits draft tokens and one more are
\* accepted, of which kept are appended before the sequence finishes; the
\* cache is rolled back to what was kept, the table keeps its blocks.
SpeculateHit ==
    LET r    == Head(todo)
        need == Missing(r, 1 + Draft(r))
        hits == plan[r][out[r]].hits IN
    /\ phase = "draft" /\ todo # <<>> /\ Draft(r) > 0
    /\ need <= num_free
    /\ num_free' = num_free - need
    /\ blocks' = [blocks EXCEPT ![r] = @ + need]
    /\ \E kept \in 1 .. hits + 1 :
         \E st \in StatusAfter(r, out[r] + kept) :
            /\ out[r] + kept <= MaxNew[r]
            /\ kept < hits + 1 => st = "FINISHED"
            /\ out' = [out EXCEPT ![r] = @ + kept]
            /\ gained' = [gained EXCEPT ![r] = @ + kept]
            /\ status' = [status EXCEPT ![r] = st]
            /\ ctx' = [ctx EXCEPT ![r] = @ + 1 + Draft(r) - Rollback(Draft(r), hits, kept)]
    /\ todo' = Tail(todo)
    /\ UNCHANGED <<queueVars, swapVars, leaked, phase, batch, budget, beamVars, plan>>

\* Out of blocks: reserve() has taken all there were, the sequence is preempted.
SpeculateOOM ==
    LET r == Head(todo) IN
    /\ phase = "draft" /\ todo # <<>> /\ Draft(r) > 0
    /\ Missing(r, 1 + Draft(r)) > num_free
    /\ Preempt(r, [blocks EXCEPT ![r] = @ + num_free], ctx, 0)
    /\ todo' = Tail(todo)
    /\ UNCHANGED <<leaked, phase, batch, budget, gained, beamVars, plan>>

DraftsDone ==
    /\ phase = "draft" /\ todo = <<>>
    /\ phase' = IF batch = <<>> THEN "finish" ELSE "decode"
    /\ UNCHANGED <<queueVars, seqVars, cacheVars, todo, batch, budget, gained, beamVars, plan>>

-----------------------------------------------------------------------------
(* step(), loop 4: _decode_active *)

InGraph == IF UseGraph THEN Reqs \ Lora ELSE {}
GraphBatch == Only(batch, InGraph)
EagerBatch == Only(batch, Reqs \ InGraph)

\* The sequences of q that start a new block with their next token.
Needing(q) == Only(q, {r \in Reqs : Missing(r, 1) > 0})

\* Both lanes get their blocks: every sequence of the batch advances by one.
DecodeBatch ==
    LET N == Elems(Needing(batch)) IN
    /\ phase = "decode"
    /\ Len(Needing(batch)) <= num_free
    /\ num_free' = num_free - Len(Needing(batch))
    /\ blocks' = [r \in Reqs |-> IF r \in N THEN blocks[r] + 1 ELSE blocks[r]]
    /\ ctx' = [r \in Reqs |-> IF r \in Elems(batch) THEN ctx[r] + 1 ELSE ctx[r]]
    /\ out' = [r \in Reqs |-> IF r \in Elems(batch) THEN out[r] + 1 ELSE out[r]]
    /\ gained' = [r \in Reqs |-> IF r \in Elems(batch) THEN gained[r] + 1 ELSE gained[r]]
    /\ \E stopped \in SUBSET Elems(batch) :
         /\ \A r \in Elems(batch) :
              (IF r \in stopped THEN "FINISHED" ELSE "RUNNING") \in StatusAfter(r, out[r] + 1)
         /\ status' = [r \in Reqs |-> IF r \in stopped THEN "FINISHED" ELSE status[r]]
    /\ phase' = "finish"
    /\ UNCHANGED <<queueVars, swapVars, leaked, todo, batch, budget, beamVars, plan>>

\* A lane runs out of blocks: the sequences before the failing one keep the
\* block they were given, the graph lane may already have advanced, the last
\* sequence of the batch is preempted and the loop starts over.
DecodeOOM ==
    LET order    == Needing(GraphBatch) \o Needing(EagerBatch)
        served   == {order[i] : i \in 1 .. num_free}
        advanced == IF Len(Needing(GraphBatch)) <= num_free THEN Elems(GraphBatch) ELSE {} IN
    /\ phase = "decode"
    /\ Len(order) > num_free
    /\ Preempt(Last(batch),
               [r \in Reqs |-> IF r \in served THEN blocks[r] + 1 ELSE blocks[r]],
               [r \in Reqs |-> IF r \in advanced THEN ctx[r] + 1 ELSE ctx[r]],
               0)
    /\ batch' = SubSeq(batch, 1, Len(batch) - 1)
    /\ phase' = IF Len(batch) = 1 THEN "finish" ELSE "decode"
    /\ UNCHANGED <<leaked, todo, budget, gained, beamVars, plan>>

-----------------------------------------------------------------------------
(* step(), the end: finished sequences, then _step_beam_groups *)

FinishSequences ==
    LET done == {r \in Elems(running) : status[r] = "FINISHED"} IN
    /\ phase = "finish"
    /\ running' = Only(running, {r \in Reqs : status[r] # "FINISHED"})
    /\ num_free' = num_free + Released(done)
    /\ blocks' = [r \in Reqs |-> IF r \in done THEN 0 ELSE blocks[r]]
    /\ ctx' = [r \in Reqs |-> IF r \in done THEN 0 ELSE ctx[r]]
    /\ batch' = <<>>
    /\ todo' = beam_groups
    /\ phase' = IF beam_groups = <<>> THEN "idle" ELSE "beam"
    /\ UNCHANGED <<waiting, swapped, seqVars, swapVars, leaked, budget, gained, beamVars, plan>>

\* One group: a scratch sequence over each beam's history is prefilled and
\* freed.  Nothing catches it when the blocks are not there.
StepBeamGroup ==
    LET g    == Head(todo)
        need == BlocksNeeded(GroupLen[g] + beam_out[g]) IN
    /\ phase = "beam"
    /\ IF need > num_free
       THEN /\ phase' = "dead"
            /\ leaked' = leaked + num_free
            /\ num_free' = 0
            /\ UNCHANGED <<beamVars, todo>>
       ELSE /\ beam_out' = [beam_out EXCEPT ![g] = @ + 1]
            /\ \E done \in IF beam_out[g] + 1 >= GroupNew[g] THEN {TRUE}
                           ELSE IF CanStop THEN BOOLEAN ELSE {FALSE} :
                  beam_groups' = IF done THEN Without(beam_groups, g) ELSE beam_groups
            /\ todo' = Tail(todo)
            /\ phase' = IF Len(todo) = 1 THEN "idle" ELSE "beam"
            /\ UNCHANGED <<num_free, leaked>>
    /\ UNCHANGED <<queueVars, seqVars, blocks, ctx, swapVars, batch, budget, gained, plan>>

StepLoop ==
    \/ BeginStep
    \/ SwapInHead \/ SwapInDone
    \/ AdmitHead \/ ContinueChunk \/ AdmitChunk \/ PrefillDone
    \/ NoDraft \/ SpeculateHit \/ SpeculateOOM \/ DraftsDone
    \/ DecodeBatch \/ DecodeOOM
    \/ FinishSequences \/ StepBeamGroup

Next ==
    \/ \E r \in Reqs : AddRequest(r) \/ Cancel(r)
    \/ \E g \in Groups : AddBeamRequest(g) \/ CancelBeam(g)
    \/ StepLoop
    \/ Idle
    \/ Dead

\* The engine loop calls step() as long as there is unfinished work.
Spec == Init /\ [][Next]_vars /\ WF_vars(StepLoop)

-----------------------------------------------------------------------------
(* Properties *)

TypeOK ==
    /\ waiting \in Seq(Reqs) /\ running \in Seq(Reqs) /\ swapped \in Seq(Reqs)
    /\ status \in [Reqs -> {"NEW", "WAITING", "PREFILLING", "RUNNING", "SWAPPED", "FINISHED", "CANCELLED"}]
    /\ out \in [Reqs -> Nat]
    /\ num_free \in 0 .. NumBlocks
    /\ blocks \in [Reqs -> 0 .. NumBlocks] /\ ctx \in [Reqs -> Nat]
    /\ swap_blocks \in [Reqs -> 0 .. NumBlocks] /\ swap_ctx \in [Reqs -> Nat]
    /\ phase \in {"idle", "swap_in", "prefill", "draft", "decode", "finish", "beam", "dead"}
    /\ todo \in Seq(Reqs \cup Groups) /\ batch \in Seq(Reqs)
    /\ budget \in 0 .. ChunkBudget
    /\ gained \in [Reqs -> Nat]
    /\ beam_groups \in Seq(Groups) /\ beam_out \in [Groups -> Nat]
    /\ leaked \in 0 .. NumBlocks

\* Where each status lives.
Home == [st \in {"NEW", "WAITING", "PREFILLING", "RUNNING", "SWAPPED", "FINISHED", "CANCELLED"} |->
            CASE st = "WAITING" -> "waiting"
              [] st = "SWAPPED" -> "swapped"
              [] st \in {"PREFILLING", "RUNNING"} -> "running"
              [] OTHER -> "none"]

Times(q, r) == Cardinality({i \in DOMAIN q : q[i] = r})

\* A request is in exactly the list its status says, once, and in no other:
\* preemption, swap-in, admission, finishing and cancelling never lose or
\* duplicate one (a finished one leaves running at the end of the step).
OneHome ==
    \A r \in Reqs :
        /\ Times(waiting, r) = IF Home[status[r]] = "waiting" THEN 1 ELSE 0
        /\ phase # "dead" =>
             Times(swapped, r) = IF Home[status[r]] = "swapped" THEN 1 ELSE 0
        /\ status[r] # "FINISHED" =>
             Times(running, r) = IF Home[status[r]] = "running" THEN 1 ELSE 0
        /\ phase = "idle" => status[r] # "FINISHED" \/ Times(running, r) = 0

\* Every block is free, in the table of a running sequence, or leaked by an
\* exception; a sequence that is not running holds none, and only a swapped
\* one has a host snapshot.
BlocksAccounted ==
    /\ num_free + SumFunctionOnSet(blocks, Reqs) + leaked = NumBlocks
    /\ \A r \in Reqs :
         /\ blocks[r] > 0 => r \in Elems(running)
         /\ swap_blocks[r] > 0 <=> r \in Elems(swapped)

\* A decodable sequence has cached exactly its prompt and every generated
\* token but the last, in a table that covers them, whatever lanes, retries,
\* rollbacks and swaps it went through: the next decode writes the last token
\* at the right position.
CtxTracksTokens ==
    \A r \in Reqs :
        /\ status[r] = "RUNNING" => ctx[r] = PromptLen[r] + out[r] - 1
        /\ status[r] = "PREFILLING" => ctx[r] < PromptLen[r] /\ out[r] = 0
        /\ ctx[r] <= blocks[r] * BlockSize
        /\ status[r] = "SWAPPED" /\ phase # "dead" =>
               /\ swap_ctx[r] = PromptLen[r] + out[r] - 1
               /\ swap_ctx[r] <= swap_blocks[r] * BlockSize

\* Whatever order a step meets drafts, chunks, swaps, retries and errors in, what
\* the cache holds stays in step with what the scheduler believes: no block
\* without an owner, no token without its place (scheduler.py:293-305, 338-382).
CacheInStep == BlocksAccounted /\ CtxTracksTokens

\* What CtxTracksTokens says of decodable sequences, at the end of a step with
\* graph-decoded and eager sequences in one batch: the graph decoder is "a
\* strict optimization layer, never a correctness risk" (cuda_graph_decoder.py:22-23).
LanesAgree ==
    phase = "finish" =>
        \A r \in Elems(running) : status[r] = "RUNNING" => ctx[r] = PromptLen[r] + out[r] - 1

\* No out-of-memory error, and no other exception, leaves step().
NothingEscapes == phase # "dead"

\* "each sequence advances by exactly one token per step" (scheduler.py:469-472):
\* no decodable sequence is passed over by the loops of a step, none is
\* served twice.
OneTokenPerStep ==
    phase = "finish" =>
        \A r \in Elems(running) : status[r] # "PREFILLING" => gained[r] = 1

\* With speculation a step may yield more, never nothing, and never past
\* max_new_tokens.
SomeTokenPerStep ==
    /\ phase = "finish" =>
          \A r \in Elems(running) : status[r] # "PREFILLING" => gained[r] >= 1
    /\ \A r \in Reqs : out[r] <= MaxNew[r]

\* CPU swap loses no generated token (scheduler.py:23-29).
NoLostWork == [][\A r \in Reqs : out'[r] >= out[r]]_vars

\* Every submitted request is finished or cancelled in the end.
AllServed ==
    \A r \in Reqs : status[r] # "NEW" ~> status[r] \in {"FINISHED", "CANCELLED"}

=============================================================================
