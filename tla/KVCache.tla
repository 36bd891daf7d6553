------------------------------- MODULE KVCache -------------------------------
(***************************************************************************)
(* The block-based KV cache of wllm/engine/kv_cache.py together with the   *)
(* calls of wllm/models/llama.py and wllm/engine/scheduler.py that drive   *)
(* it.  One action is one call of the scheduler on the model or on the     *)
(* cache: such a call runs to its end, or to the exception that leaves it, *)
(* before anything else touches the cache (one thread, no await inside).   *)
(*                                                                         *)
(* Three abstractions:                                                     *)
(*  - allocate() pops the last block of a list; here it returns any free   *)
(*    block, so nothing below depends on the order of reuse;               *)
(*  - the K/V of a position is what it was computed from: the adapter and  *)
(*    the tokens up to that position.  All layers move together, so one    *)
(*    cell stands for the K and V rows of every layer;                     *)
(*  - a chained block hash is the token prefix it was computed from, i.e.  *)
(*    hash() does not collide.                                             *)
(* A block whose last reference goes has its cells set to Stale: the bytes *)
(* are still there, but nobody may rely on them.                           *)
(***************************************************************************)
EXTENDS Lists, FiniteSets

CONSTANTS
    Blocks,                 \* the block ids of the pool
    BlockSize,              \* token slots of a block
    Seqs,                   \* sequence ids
    Tokens,                 \* token ids
    Prompts,                \* the prompts a request may have
    Adapters,               \* lora_id values
    BaseModel,              \* the adapter of lora_id=None
    EnablePrefixCaching,    \* KVCacheManager(enable_prefix_caching=...)
    EnableChunking,         \* Scheduler(max_prefill_tokens_per_step=...) is given
    EnableSwap,             \* Scheduler(enable_cpu_swap=...)
    MaxDraft,               \* speculative_max_draft_len, 0: no speculation
    MaxLen                  \* bound: longest token history explored

ASSUME BlocksAssumption == IsFiniteSet(Blocks)
ASSUME SizesAssumption ==
    /\ BlockSize \in Nat \ {0}
    /\ MaxDraft \in Nat
    /\ MaxLen \in Nat
ASSUME SeqsAssumption == IsFiniteSet(Seqs)
ASSUME PromptsAssumption == \A p \in Prompts : p \in Seq(Tokens) /\ Len(p) >= 1
ASSUME AdaptersAssumption == BaseModel \in Adapters
ASSUME FlagsAssumption ==
    EnablePrefixCaching \in BOOLEAN /\ EnableChunking \in BOOLEAN /\ EnableSwap \in BOOLEAN

VARIABLES
    free_blocks,            \* BlockAllocator.free_blocks, as a set
    ref_counts,             \* BlockAllocator.ref_counts
    place,                  \* "absent" | "live" (in sequences) | "swapped" (in swapped_kv)
    block_table,            \* SequenceState.block_table, <<>> unless live
    context_len,            \* SequenceState.context_len, 0 unless live
    kv,                     \* k_caches / v_caches: block -> slot -> cell
    hash_to_block,          \* prefix -> block
    block_hash_info,        \* block -> prefix
    swapped_kv,             \* seq -> the host copy of its blocks
    swapped_context_len,    \* seq -> context_len when swapped out
    prompt, output,         \* Sequence.prompt_token_ids, output_token_ids
    adapter,                \* Sequence.lora_id
    lost,                   \* blocks a failed swap_in left allocated to nobody
    raised                  \* an exception nothing catches has left the scheduler

allocVars == <<free_blocks, ref_counts, lost>>
tableVars == <<place, block_table, context_len>>
indexVars == <<hash_to_block, block_hash_info>>
swapVars  == <<swapped_kv, swapped_context_len>>
seqVars   == <<prompt, output, adapter>>
vars == <<allocVars, tableVars, kv, indexVars, swapVars, seqVars, raised>>

-----------------------------------------------------------------------------
(* Positions, cells and block contents *)

Slots == 0 .. BlockSize - 1

\* Positions are 1-based: position p is token p of the history.
BlocksNeeded(n) == (n + BlockSize - 1) \div BlockSize
BlockAt(tab, p) == tab[(p - 1) \div BlockSize + 1]
SlotAt(p)       == (p - 1) % BlockSize

Stale == [adapter |-> "stale", prefix |-> <<>>]
StaleBlock == [k \in Slots |-> Stale]
Cell(a, h, p) == [adapter |-> a, prefix |-> SubSeq(h, 1, p)]
Cells == {Stale} \cup [adapter : Adapters, prefix : Seq(Tokens)]

Hist(s)     == prompt[s] \o output[s]
BlocksOf(s) == {block_table[s][i] : i \in DOMAIN block_table[s]}
Holders(b)  == {s \in Seqs : b \in BlocksOf(s)}

\* A sequence whose prompt is cached and whose last sampled token is not yet.
Decodable(s) ==
    /\ place[s] = "live"
    /\ context_len[s] >= Len(prompt[s])
    /\ context_len[s] + 1 = Len(Hist(s))

-----------------------------------------------------------------------------
(* The allocator *)

\* References the sequences of V hold on block b, and the blocks that lose
\* their last one when V lets go of its tables.
Refs(V, b) == Cardinality({s \in V : b \in BlocksOf(s)})

\* Mutant: free() does not look at the other references of a shared block.
DroppedAnyway(V) == {b \in Blocks : Refs(V, b) > 0}

Dropped(V) == {b \in Blocks : Refs(V, b) > 0 /\ ref_counts[b] <= Refs(V, b)}
Available(V) == free_blocks \cup Dropped(V)

\* Mutant: free_sequence() frees its blocks twice.
AccountDoubleFree(V, Shared, Taken) ==
    /\ free_blocks' = Available(V) \ Taken
    /\ ref_counts' = [b \in Blocks |-> IF b \in Taken THEN 1
                                      ELSE IF b \in Shared THEN ref_counts[b] + 1
                                      ELSE ref_counts[b] - 2 * Refs(V, b)]

\* Mutant: create_sequence_from_prefix() does not add_ref() the shared blocks.
AccountNoAddRef(V, Shared, Taken) ==
    /\ free_blocks' = Available(V) \ Taken
    /\ ref_counts' = [b \in Blocks |-> IF b \in Taken THEN 1
                                      ELSE IF b \in Dropped(V) THEN 0
                                      ELSE ref_counts[b] - Refs(V, b)]

\* Mutant: allocate() peeks at the free list and does not pop.
AccountPeek(V, Shared, Taken) ==
    /\ free_blocks' = Available(V)
    /\ ref_counts' = [b \in Blocks |-> IF b \in Taken THEN 1
                                      ELSE IF b \in Shared THEN ref_counts[b] + 1
                                      ELSE IF b \in Dropped(V) THEN 0
                                      ELSE ref_counts[b] - Refs(V, b)]

\* _free_block() on the tables of V, then add_ref() on the blocks of Shared
\* and allocate() of those of Taken.
Account(V, Shared, Taken) ==
    /\ free_blocks' = Available(V) \ Taken
    /\ ref_counts' = [b \in Blocks |->
                        IF b \in Taken THEN 1
                        ELSE IF b \in Shared THEN ref_counts[b] + 1
                        ELSE IF b \in Dropped(V) THEN 0
                        ELSE ref_counts[b] - Refs(V, b)]

\* Mutant: freeing forgets the block but not the hash that leads to it.
UnindexHalf(V) ==
    /\ block_hash_info' =
          [b \in DOMAIN block_hash_info \ Dropped(V) |-> block_hash_info[b]]
    /\ UNCHANGED hash_to_block

\* The index half of _free_block(): an entry goes with the last reference of
\* its block, and only if it still names this very block.
Unindex(V) ==
    /\ block_hash_info' =
          [b \in DOMAIN block_hash_info \ Dropped(V) |-> block_hash_info[b]]
    /\ hash_to_block' =
          [h \in {g \in DOMAIN hash_to_block : hash_to_block[g] \notin Dropped(V)}
              |-> hash_to_block[h]]

\* The pool once V has let go.
PoolWithout(V) == [b \in Blocks |-> IF b \in Dropped(V) THEN StaleBlock ELSE kv[b]]

\* Any n distinct free blocks, in any order: n calls of allocate().
Fresh(n) == {q \in [1 .. n -> free_blocks] : \A i, j \in 1 .. n : q[i] = q[j] => i = j}

-----------------------------------------------------------------------------
(* The prefix index *)

BlockPrefix(h, i) == SubSeq(h, 1, i * BlockSize)

\* Whole blocks match_prefix() may reuse: it leaves at least one token over.
Matchable(h) == IF EnablePrefixCaching THEN (Len(h) - 1) \div BlockSize ELSE 0

MatchLen(h) ==
    CHOOSE m \in 0 .. Matchable(h) :
        /\ \A i \in 1 .. m : BlockPrefix(h, i) \in DOMAIN hash_to_block
        /\ m < Matchable(h) => BlockPrefix(h, m + 1) \notin DOMAIN hash_to_block

MatchedBlocks(h) == [i \in 1 .. MatchLen(h) |-> hash_to_block[BlockPrefix(h, i)]]

\* register_prefix_blocks(): every whole block of h not registered yet.
Unregistered(tab, h) ==
    IF EnablePrefixCaching
    THEN {i \in 1 .. Len(h) \div BlockSize : tab[i] \notin DOMAIN block_hash_info}
    ELSE {}

RegisterPrefix(tab, h) ==
    LET New == Unregistered(tab, h) IN
    /\ hash_to_block' =
          [g \in DOMAIN hash_to_block \cup {BlockPrefix(h, i) : i \in New} |->
              IF \E i \in New : g = BlockPrefix(h, i)
              THEN tab[CHOOSE i \in New : g = BlockPrefix(h, i)]
              ELSE hash_to_block[g]]
    /\ block_hash_info' =
          [b \in DOMAIN block_hash_info \cup {tab[i] : i \in New} |->
              IF \E i \in New : b = tab[i]
              THEN BlockPrefix(h, CHOOSE i \in New : b = tab[i])
              ELSE block_hash_info[b]]

-----------------------------------------------------------------------------
(* Forward passes *)

\* write() of positions from..to of a sequence with table tab and history h.
Written(tab, a, h, from, to) ==
    [b \in Blocks |-> [k \in Slots |->
        IF \E p \in from .. to : BlockAt(tab, p) = b /\ SlotAt(p) = k
        THEN Cell(a, h, CHOOSE p \in from .. to : BlockAt(tab, p) = b /\ SlotAt(p) = k)
        ELSE kv[b][k]]]

\* Blocks reserve() must allocate before position upto fits in table tab.
Missing(tab, upto) ==
    IF BlocksNeeded(upto) > Len(tab) THEN BlocksNeeded(upto) - Len(tab) ELSE 0

\* A prompt is complete: the first token is sampled, the blocks are registered.
FinishPrefill(s, tab, p) ==
    /\ \E t \in Tokens : output' = [output EXCEPT ![s] = <<t>>]
    /\ RegisterPrefix(tab, p)

\* The first forward pass of a request: match_prefix, create_sequence
\* [_from_prefix], continue_prefill of n prompt tokens.  All the rest of the
\* prompt in one call is prefill_with_cache_and_prefix_reuse.
StartPrefill(s, p, a, n) ==
    LET matched == MatchedBlocks(p)
        start   == Len(matched) * BlockSize IN
    /\ ~raised
    /\ place[s] = "absent"
    /\ IF EnableChunking THEN n <= Len(p) - start ELSE n = Len(p) - start
    /\ \E new \in Fresh(Missing(matched, start + n)) :
         LET tab == matched \o new IN
         /\ Account({}, Elems(matched), Elems(new))
         /\ place' = [place EXCEPT ![s] = "live"]
         /\ block_table' = [block_table EXCEPT ![s] = tab]
         /\ context_len' = [context_len EXCEPT ![s] = start + n]
         /\ kv' = Written(tab, a, p, start + 1, start + n)
         /\ prompt' = [prompt EXCEPT ![s] = p]
         /\ adapter' = [adapter EXCEPT ![s] = a]
         /\ IF start + n = Len(p)
            THEN FinishPrefill(s, tab, p)
            ELSE UNCHANGED <<output, indexVars>>
    /\ UNCHANGED <<swapVars, lost, raised>>

\* The next chunk of a prompt: _continue_prefill_chunk.
ContinuePrefill(s, n) ==
    LET from == context_len[s] + 1
        to   == context_len[s] + n IN
    /\ ~raised
    /\ EnableChunking
    /\ place[s] = "live"
    /\ to <= Len(prompt[s])
    /\ \E new \in Fresh(Missing(block_table[s], to)) :
         LET tab == block_table[s] \o new IN
         /\ Account({}, {}, Elems(new))
         /\ block_table' = [block_table EXCEPT ![s] = tab]
         /\ context_len' = [context_len EXCEPT ![s] = to]
         /\ kv' = Written(tab, adapter[s], prompt[s], from, to)
         /\ IF to = Len(prompt[s])
            THEN FinishPrefill(s, tab, prompt[s])
            ELSE UNCHANGED <<output, indexVars>>
    /\ UNCHANGED <<place, swapVars, prompt, adapter, lost, raised>>

\* reserve() ran out of blocks inside a prefill: it keeps every block it got,
\* the exception leaves the scheduler.
PrefillOOM(s, p, a) ==
    LET matched == MatchedBlocks(p) IN
    /\ ~raised
    /\ place[s] = "absent"
    /\ Missing(matched, Len(p)) > Cardinality(free_blocks)
    /\ \E new \in Fresh(Cardinality(free_blocks)) :
         /\ Account({}, Elems(matched), Elems(new))
         /\ block_table' = [block_table EXCEPT ![s] = matched \o new]
    /\ place' = [place EXCEPT ![s] = "live"]
    /\ context_len' = [context_len EXCEPT ![s] = Len(matched) * BlockSize]
    /\ prompt' = [prompt EXCEPT ![s] = p]
    /\ adapter' = [adapter EXCEPT ![s] = a]
    /\ raised' = TRUE
    /\ UNCHANGED <<kv, indexVars, swapVars, output, lost>>

ContinuePrefillOOM(s, n) ==
    /\ ~raised
    /\ EnableChunking
    /\ place[s] = "live"
    /\ context_len[s] + n <= Len(prompt[s])
    /\ Missing(block_table[s], context_len[s] + n) > Cardinality(free_blocks)
    /\ \E new \in Fresh(Cardinality(free_blocks)) :
         /\ Account({}, {}, Elems(new))
         /\ block_table' = [block_table EXCEPT ![s] = block_table[s] \o new]
    /\ raised' = TRUE
    /\ UNCHANGED <<place, context_len, kv, indexVars, swapVars, seqVars, lost>>

-----------------------------------------------------------------------------
(* Preemption and decoding *)

\* Mutant: the blocks come back in reverse.
SnapshotReversed(tab) == [i \in DOMAIN tab |-> kv[tab[Len(tab) + 1 - i]]]

\* swap_out() gathers the blocks of a table, in its order.
Snapshot(tab) == [i \in DOMAIN tab |-> kv[tab[i]]]

\* _preempt of the sequences of V.  With CPU swap the snapshot of a sequence
\* is its whole table, which may end in extra blocks that a reserve() which
\* failed has just allocated; without it the sequence starts over.
Evict(V, extra) ==
    IF EnableSwap
    THEN /\ swapped_kv' = [s \in Seqs |->
                IF s \in V THEN Snapshot(block_table[s]) \o [i \in 1 .. extra |-> StaleBlock]
                ELSE swapped_kv[s]]
         /\ swapped_context_len' =
                [s \in Seqs |-> IF s \in V THEN context_len[s] ELSE swapped_context_len[s]]
         /\ place' = [s \in Seqs |-> IF s \in V THEN "swapped" ELSE place[s]]
         /\ UNCHANGED <<prompt, adapter>>
    ELSE /\ place' = [s \in Seqs |-> IF s \in V THEN "absent" ELSE place[s]]
         /\ prompt' = [s \in Seqs |-> IF s \in V THEN <<>> ELSE prompt[s]]
         /\ adapter' = [s \in Seqs |-> IF s \in V THEN BaseModel ELSE adapter[s]]
         /\ UNCHANGED swapVars

KeptOutput(s, V) == IF s \in V /\ ~EnableSwap THEN <<>> ELSE output[s]

\* Sequences of a batch whose next position starts a block they do not have.
NeedBlock(K) == {s \in K : Missing(block_table[s], context_len[s] + 1) > 0}

\* One-to-one assignments of the blocks of F to the sequences of N.
Grants(N, F) == {g \in [N -> F] : \A s, t \in N : g[s] = g[t] => s = t}

Fits(K, V) == Cardinality(NeedBlock(K)) <= Cardinality(Available(V))

\* _decode_active over the batch K \cup V: decode_step_batch runs out of
\* blocks, the last sequence is preempted, and again, until the rest K fits
\* (V is empty when all fit, K when none does).  A victim comes after every
\* sequence that got a block in a failed attempt, so victims never hold one.
\* Every sequence of K caches its last token and samples the next.
DecodeActive(K, V) ==
    LET Target(tab, s) == <<BlockAt(tab[s], context_len[s] + 1), SlotAt(context_len[s] + 1)>> IN
    /\ ~raised
    /\ K \cup V # {} /\ K \cap V = {}
    /\ \A s \in K \cup V : Decodable(s) /\ Len(Hist(s)) < MaxLen
    /\ Fits(K, V)
    /\ V # {} => \E v \in V : ~Fits(K \cup {v}, V \ {v})
    /\ \E g \in Grants(NeedBlock(K), Available(V)) :
         /\ Account(V, {}, {g[s] : s \in DOMAIN g})
         /\ block_table' = [s \in Seqs |-> IF s \in V THEN <<>>
                                           ELSE IF s \in DOMAIN g THEN Append(block_table[s], g[s])
                                           ELSE block_table[s]]
    /\ Unindex(V)
    /\ kv' = [b \in Blocks |-> [k \in Slots |->
                IF \E s \in K : Target(block_table', s) = <<b, k>>
                THEN LET s == CHOOSE s \in K : Target(block_table', s) = <<b, k>>
                     IN  Cell(adapter[s], Hist(s), context_len[s] + 1)
                ELSE PoolWithout(V)[b][k]]]
    /\ context_len' = [s \in Seqs |-> IF s \in V THEN 0
                                      ELSE IF s \in K THEN context_len[s] + 1
                                      ELSE context_len[s]]
    /\ \E t \in [K -> Tokens] :
         output' = [s \in Seqs |-> IF s \in K THEN Append(output[s], t[s]) ELSE KeptOutput(s, V)]
    /\ Evict(V, 0)
    /\ UNCHANGED <<lost, raised>>

\* Mutant: rejected drafts stay in the cache.
RollbackNone(k, matched, kept) == 0

\* How many of the k draft positions just written are discarded.
Rollback(k, matched, kept) == k - (IF kept < matched THEN kept ELSE matched)

\* _speculative_decode_one: continue_prefill over the last token and the
\* draft, then rollback of what was not accepted.  matched draft tokens equal
\* the model's predictions, t is the prediction after them, and a stop token
\* may cut the accepted run to its first kept tokens.
Speculate(s, draft, matched, t, kept) ==
    LET k   == Len(draft)
        ctx == context_len[s]
        accepted == Append(SubSeq(draft, 1, matched), t) IN
    /\ ~raised
    /\ Decodable(s)
    /\ Len(Hist(s)) + kept <= MaxLen
    /\ matched < k => t # draft[matched + 1]
    /\ \E new \in Fresh(Missing(block_table[s], ctx + 1 + k)) :
         LET tab == block_table[s] \o new IN
         /\ Account({}, {}, Elems(new))
         /\ block_table' = [block_table EXCEPT ![s] = tab]
         /\ kv' = Written(tab, adapter[s], Hist(s) \o draft, ctx + 1, ctx + 1 + k)
    /\ context_len' = [context_len EXCEPT ![s] = ctx + 1 + k - Rollback(k, matched, kept)]
    /\ output' = [output EXCEPT ![s] = output[s] \o SubSeq(accepted, 1, kept)]
    /\ UNCHANGED <<place, indexVars, swapVars, prompt, adapter, lost, raised>>

-----------------------------------------------------------------------------
(* Leaving and coming back *)

\* free_sequence of a finished or cancelled sequence.
FreeSequence(s) ==
    /\ ~raised
    /\ place[s] = "live"
    /\ Account({s}, {}, {})
    /\ Unindex({s})
    /\ kv' = PoolWithout({s})
    /\ block_table' = [block_table EXCEPT ![s] = <<>>]
    /\ context_len' = [context_len EXCEPT ![s] = 0]
    /\ place' = [place EXCEPT ![s] = "absent"]
    /\ prompt' = [prompt EXCEPT ![s] = <<>>]
    /\ output' = [output EXCEPT ![s] = <<>>]
    /\ adapter' = [adapter EXCEPT ![s] = BaseModel]
    /\ UNCHANGED <<swapVars, lost, raised>>

\* A speculation that runs out of blocks preempts its own sequence: reserve()
\* first takes every free block, then the whole table is swapped out or freed.
SpeculateOOM(s, k) ==
    /\ ~raised
    /\ Decodable(s)
    /\ Missing(block_table[s], context_len[s] + 1 + k) > Cardinality(free_blocks)
    /\ Account({s}, {}, {})
    /\ Unindex({s})
    /\ kv' = PoolWithout({s})
    /\ block_table' = [block_table EXCEPT ![s] = <<>>]
    /\ context_len' = [context_len EXCEPT ![s] = 0]
    /\ output' = [output EXCEPT ![s] = KeptOutput(s, {s})]
    /\ Evict({s}, Cardinality(free_blocks))
    /\ UNCHANGED <<lost, raised>>

\* swap_in: as many blocks as context_len needs; the copy of the snapshot into
\* them needs a snapshot of that many blocks.
SwapIn(s) ==
    LET ctx == swapped_context_len[s] IN
    /\ ~raised
    /\ place[s] = "swapped"
    /\ Len(swapped_kv[s]) = BlocksNeeded(ctx)
    /\ \E new \in Fresh(BlocksNeeded(ctx)) :
         /\ Account({}, {}, Elems(new))
         /\ block_table' = [block_table EXCEPT ![s] = new]
         /\ kv' = [b \in Blocks |-> IF \E i \in DOMAIN new : new[i] = b
                                    THEN swapped_kv[s][CHOOSE i \in DOMAIN new : new[i] = b]
                                    ELSE kv[b]]
    /\ context_len' = [context_len EXCEPT ![s] = ctx]
    /\ place' = [place EXCEPT ![s] = "live"]
    /\ swapped_kv' = [swapped_kv EXCEPT ![s] = <<>>]
    /\ swapped_context_len' = [swapped_context_len EXCEPT ![s] = 0]
    /\ UNCHANGED <<indexVars, seqVars, lost, raised>>

\* The shapes differ: the copy raises after the snapshot was popped and the
\* blocks were allocated.
SwapInFails(s) ==
    LET ctx == swapped_context_len[s] IN
    /\ ~raised
    /\ place[s] = "swapped"
    /\ Len(swapped_kv[s]) # BlocksNeeded(ctx)
    /\ \E new \in Fresh(BlocksNeeded(ctx)) :
         /\ Account({}, {}, Elems(new))
         /\ lost' = Elems(new)
    /\ place' = [place EXCEPT ![s] = "absent"]
    /\ swapped_kv' = [swapped_kv EXCEPT ![s] = <<>>]
    /\ swapped_context_len' = [swapped_context_len EXCEPT ![s] = 0]
    /\ prompt' = [prompt EXCEPT ![s] = <<>>]
    /\ output' = [output EXCEPT ![s] = <<>>]
    /\ adapter' = [adapter EXCEPT ![s] = BaseModel]
    /\ raised' = TRUE
    /\ UNCHANGED <<block_table, context_len, kv, indexVars>>

\* Cancelled while swapped out.
DiscardSwapped(s) ==
    /\ ~raised
    /\ place[s] = "swapped"
    /\ place' = [place EXCEPT ![s] = "absent"]
    /\ swapped_kv' = [swapped_kv EXCEPT ![s] = <<>>]
    /\ swapped_context_len' = [swapped_context_len EXCEPT ![s] = 0]
    /\ prompt' = [prompt EXCEPT ![s] = <<>>]
    /\ output' = [output EXCEPT ![s] = <<>>]
    /\ adapter' = [adapter EXCEPT ![s] = BaseModel]
    /\ UNCHANGED <<allocVars, block_table, context_len, kv, indexVars, raised>>

\* One beam of BeamGroup.step: a scratch sequence over the beam's history h is
\* prefilled, registered and freed in one call.  What stays is the index: the
\* blocks it computed itself were registered over whatever the same prefix
\* mapped to, and the entry went with them.
BeamScore(h) ==
    LET own == {BlockPrefix(h, i) : i \in MatchLen(h) + 1 .. Len(h) \div BlockSize} IN
    /\ ~raised
    /\ EnablePrefixCaching
    /\ Missing(MatchedBlocks(h), Len(h)) <= Cardinality(free_blocks)
    /\ hash_to_block' = [g \in DOMAIN hash_to_block \ own |-> hash_to_block[g]]
    /\ UNCHANGED <<allocVars, tableVars, kv, block_hash_info, swapVars, seqVars, raised>>

-----------------------------------------------------------------------------
Init ==
    /\ free_blocks = Blocks
    /\ ref_counts = [b \in Blocks |-> 0]
    /\ place = [s \in Seqs |-> "absent"]
    /\ block_table = [s \in Seqs |-> <<>>]
    /\ context_len = [s \in Seqs |-> 0]
    /\ kv = [b \in Blocks |-> StaleBlock]
    /\ hash_to_block = <<>>
    /\ block_hash_info = <<>>
    /\ swapped_kv = [s \in Seqs |-> <<>>]
    /\ swapped_context_len = [s \in Seqs |-> 0]
    /\ prompt = [s \in Seqs |-> <<>>]
    /\ output = [s \in Seqs |-> <<>>]
    /\ adapter = [s \in Seqs |-> BaseModel]
    /\ lost = {}
    /\ raised = FALSE

Drafts == UNION {[1 .. k -> Tokens] : k \in 1 .. MaxDraft}

Next ==
    \/ \E s \in Seqs, p \in Prompts, a \in Adapters, n \in 1 .. MaxLen : StartPrefill(s, p, a, n)
    \/ \E s \in Seqs, n \in 1 .. MaxLen : ContinuePrefill(s, n)
    \/ \E s \in Seqs, p \in Prompts, a \in Adapters : PrefillOOM(s, p, a)
    \/ \E s \in Seqs, n \in 1 .. MaxLen : ContinuePrefillOOM(s, n)
    \/ \E K \in SUBSET Seqs : \E V \in SUBSET (Seqs \ K) : DecodeActive(K, V)
    \/ \E s \in Seqs, draft \in Drafts, t \in Tokens :
         \E matched \in 0 .. Len(draft) : \E kept \in 1 .. matched + 1 :
             Speculate(s, draft, matched, t, kept)
    \/ \E s \in Seqs, k \in 1 .. MaxDraft : SpeculateOOM(s, k)
    \/ \E s \in Seqs : FreeSequence(s)
    \/ \E s \in Seqs : SwapIn(s)
    \/ \E s \in Seqs : SwapInFails(s)
    \/ \E s \in Seqs : DiscardSwapped(s)
    \/ \E h \in Prompts : BeamScore(h)

Spec == Init /\ [][Next]_vars

-----------------------------------------------------------------------------
(* Properties *)

\* The types of the bookkeeping of KVCacheManager and BlockAllocator.
TypeOK ==
    /\ free_blocks \subseteq Blocks
    /\ ref_counts \in [Blocks -> Nat]
    /\ place \in [Seqs -> {"absent", "live", "swapped"}]
    /\ block_table \in [Seqs -> Seq(Blocks)]
    /\ context_len \in [Seqs -> Nat]
    /\ kv \in [Blocks -> [Slots -> Cells]]
    /\ DOMAIN hash_to_block \subseteq Seq(Tokens)
    /\ \A h \in DOMAIN hash_to_block : hash_to_block[h] \in Blocks
    /\ DOMAIN block_hash_info \subseteq Blocks
    /\ \A b \in DOMAIN block_hash_info : block_hash_info[b] \in Seq(Tokens)
    /\ swapped_kv \in [Seqs -> Seq([Slots -> Cells])]
    /\ swapped_context_len \in [Seqs -> Nat]
    /\ prompt \in [Seqs -> Seq(Tokens)]
    /\ output \in [Seqs -> Seq(Tokens)]
    /\ adapter \in [Seqs -> Adapters]
    /\ lost \subseteq Blocks
    /\ raised \in BOOLEAN

\* A block table never lists a block twice.
TablesInjective ==
    \A s \in Seqs : \A i, j \in DOMAIN block_table[s] :
        block_table[s][i] = block_table[s][j] => i = j

\* ref_counts[b] counts exactly the block tables that hold b (and the one
\* reference a failed swap_in leaves behind).
RefCountsExact ==
    \A b \in Blocks :
        ref_counts[b] = Cardinality(Holders(b)) + (IF b \in lost THEN 1 ELSE 0)

\* The free list and the reference counts tell the same story.
FreeListExact == free_blocks = {b \in Blocks : ref_counts[b] = 0}

\* No block leaks and none is handed out while a sequence still holds it,
\* over any order of prefills, preemptions, swaps and failed reservations:
\* BlockAllocator.allocate/add_ref/free against the block tables.
OwnershipExact == TablesInjective /\ RefCountsExact /\ FreeListExact

\* match_prefix never misses in block_hash_info, two prefixes never lead to
\* one block, and no registration outlives its block.
IndexConsistent ==
    /\ \A h \in DOMAIN hash_to_block :
         /\ hash_to_block[h] \in DOMAIN block_hash_info
         /\ block_hash_info[hash_to_block[h]] = h
    /\ \A b \in DOMAIN block_hash_info : b \notin free_blocks

\* The prefix index never leads to a block that was freed or rewritten
\* (kv_cache.py:14-16): a registered block is held, and its slots hold the
\* last tokens of the prefix it is registered for.
HashIndexLive ==
    /\ IndexConsistent
    /\ \A b \in DOMAIN block_hash_info : \A k \in Slots :
          kv[b][k].prefix =
              SubSeq(block_hash_info[b], 1, Len(block_hash_info[b]) - BlockSize + k + 1)

\* What attention reads for sequence s: its cached positions, through its table.
View(s) == [p \in 1 .. context_len[s] |-> kv[BlockAt(block_table[s], p)][SlotAt(p)]]

\* The K/V a sequence would have computed alone, without any sharing.
OwnCells(s, n) == [p \in 1 .. n |-> Cell(adapter[s], Hist(s), p)]

\* Every position a sequence has cached holds the K/V of its own history under
\* its own adapter: neither a prefix hit, a freed block, a rolled back draft
\* nor a swapped-in copy ever shows through (continue_prefill and
\* decode_step_batch attend to exactly these positions).
CacheCoherent ==
    \A s \in Seqs : place[s] = "live" =>
        /\ context_len[s] <= Len(Hist(s))
        /\ context_len[s] <= Len(block_table[s]) * BlockSize
        /\ View(s) = OwnCells(s, context_len[s])

\* The index and what it leads into agree with the tokens, whatever was shared,
\* freed, rolled back or swapped in between (kv_cache.py:110-119, 190-243).
CacheSound == HashIndexLive /\ CacheCoherent

\* K/V is only ever written into a block one sequence holds alone and that no
\* prefix is registered for: there is no copy-on-write to reason about
\* (kv_cache.py:11-14).
ExclusiveWrites ==
    [][\A b \in Blocks :
          kv'[b] # kv[b] /\ kv'[b] # StaleBlock =>
              ref_counts'[b] = 1 /\ (b \in DOMAIN block_hash_info' => b \notin DOMAIN block_hash_info)
      ]_vars

\* swap_in restores what swap_out saved "byte-for-byte with no recompute"
\* (kv_cache.py:126): the snapshot has the blocks swap_in will allocate.
SwapSnapshotFits ==
    \A s \in Seqs : place[s] = "swapped" =>
        Len(swapped_kv[s]) = BlocksNeeded(swapped_context_len[s])

\* The positions of a snapshot that context_len covers.
SavedView(s) ==
    [p \in 1 .. swapped_context_len[s] |->
        swapped_kv[s][(p - 1) \div BlockSize + 1][SlotAt(p)]]

Store == INSTANCE SequenceStore WITH
    hist   <- [s \in Seqs |-> Hist(s)],
    cached <- [s \in Seqs |-> View(s)],
    saved  <- [s \in Seqs |-> SavedView(s)]

\* Sharing, the index, preemption and swapping are invisible: the cache
\* implements one private store per sequence.
StoreSpec == Store!Spec

=============================================================================
