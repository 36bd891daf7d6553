----------------------------- MODULE DecodeLanes -----------------------------
(***************************************************************************)
(* The batched decode of Scheduler._decode_active: sequences without an    *)
(* adapter go through a captured CUDA graph with static, padded buffers    *)
(* (wllm/engine/cuda_graph_decoder.py), the others through the eager pass  *)
(* with one LoRA delta per row (wllm/engine/lora.py).  A cell of the cache *)
(* holds which sequence and position it was written for and the weights it *)
(* was computed with, not which token.  Prefix caching is in KVCache,      *)
(* preemption and what a retry decodes twice in Scheduler.                 *)
(***************************************************************************)
EXTENDS Lists, FiniteSets, SequencesExt

CONSTANTS
    LaneSeqs, Adapters,
    NoLora,             \* lora_id None
    Zero,               \* the token of padding rows
    LaneBlocks,         \* number of blocks, those of the scratch sequences too
    LaneSlots,          \* block_size
    BucketSizes, MaxBlocksPerSeq,
    PromptLens, LaneMaxLen,
    MaxLoads            \* bound: adapters loaded

MaxBucket == CHOOSE b \in BucketSizes : \A c \in BucketSizes : c <= b

\* With bucket sizes (1,) there is no scratch sequence to capture with.
ASSUME LanesAssumption ==
    /\ BucketSizes \subseteq Nat \ {0} /\ BucketSizes \notin {{}, {1}} /\ IsFiniteSet(BucketSizes)
    /\ {LaneSlots, MaxBlocksPerSeq, LaneMaxLen} \subseteq Nat \ {0}
    /\ LaneBlocks \in Nat /\ LaneBlocks >= MaxBucket
    /\ PromptLens \subseteq 1 .. LaneMaxLen
    /\ NoLora \notin Adapters /\ MaxLoads \in Nat

VARIABLES
    running,            \* the scheduler's, in order of admission
    block_table, context_len, lora_id,      \* of every sequence
    free_blocks,        \* a stack, its top is last
    cells,              \* k_caches, v_caches
    graphs,             \* bucket size -> the static buffers of its graph, row by row
    adapters,           \* the registry: the version loaded, 0 if none
    loads,              \* bounded ghost: versions so far
    reloaded            \* ghost: the adapter was changed under the sequence

laneVars == <<running, block_table, context_len, lora_id, free_blocks, cells, graphs,
              adapters, loads, reloaded>>

Live == Elems(running)

\* scratch_seq_ids: one block each, taken from the top of the stack at startup.
ScratchBlock(i) == LaneBlocks - i

SlotOf(table, pos) == <<table[pos \div LaneSlots + 1], pos % LaneSlots>>

Junk == [of |-> Zero, pos |-> 0, with |-> 0]

\* A padding row: a scratch sequence never grows, and writes its slot 0 again.
PadRow(i) ==
    [of |-> Zero, pos |-> 1, with |-> 0, context_len |-> 1,
     table |-> <<ScratchBlock(i)>>, write |-> <<ScratchBlock(i), 0>>]

\* After capture(): every row of every graph is the first scratch sequence.
LaneInit ==
    /\ running = <<>>
    /\ block_table = [s \in LaneSeqs |-> <<>>]
    /\ context_len = [s \in LaneSeqs |-> 0]
    /\ lora_id = [s \in LaneSeqs |-> NoLora]
    /\ free_blocks = [i \in 1 .. LaneBlocks - (MaxBucket - 1) |-> i - 1]
    /\ cells = [c \in (0 .. LaneBlocks - 1) \X (0 .. LaneSlots - 1) |-> Junk]
    /\ graphs = [b \in BucketSizes |-> [i \in 1 .. b |-> [PadRow(1) EXCEPT !.pos = 0]]]
    /\ adapters = [a \in Adapters |-> 0] /\ loads = 0
    /\ reloaded = [s \in LaneSeqs |-> FALSE]

-----------------------------------------------------------------------------
(* One row of a forward pass *)

\* registry.get: an adapter that is not loaded adds nothing.
Delta(a) == IF a = NoLora THEN 0 ELSE adapters[a]

Full(s) == context_len[s] = LaneSlots * Len(block_table[s])

\* reserve() row by row: a sequence whose last block is full gets the top of
\* the stack, as long as there is one.
Grants(batch, i) == Cardinality({j \in 1 .. i : Full(batch[j])})

Granted(batch) == {i \in DOMAIN batch : Full(batch[i]) /\ Grants(batch, i) <= Len(free_blocks)}

Grant(batch, i) == free_blocks[Len(free_blocks) + 1 - Grants(batch, i)]

Reserved(batch) ==
    [s \in LaneSeqs |->
        IF \E i \in Granted(batch) : batch[i] = s
        THEN Append(block_table[s], Grant(batch, CHOOSE i \in Granted(batch) : batch[i] = s))
        ELSE block_table[s]]

\* The last token of s at its position, with the adapter a.
TokenRow(s, table, a) ==
    [of |-> s, pos |-> context_len[s], with |-> Delta(a), context_len |-> context_len[s] + 1,
     table |-> table, write |-> SlotOf(table, context_len[s])]

\* index_copy_, or one assignment per row: the last of a cell stays.
Written(kv, rows) ==
    [c \in DOMAIN kv |->
        LET on == {i \in DOMAIN rows : rows[i].write = c} IN
        IF on = {} THEN kv[c]
        ELSE LET row == rows[CHOOSE i \in on : \A j \in on : j <= i]
             IN  [of |-> row.of, pos |-> row.pos, with |-> row.with]]

\* paged_attention_decode reads context_len cells along the block table.
Attended(kv, row) ==
    [with |-> row.with, keys |-> [p \in 1 .. row.context_len |-> kv[SlotOf(row.table, p - 1)]]]

-----------------------------------------------------------------------------
(* Actions *)

\* _resolve_lora_id, when the request comes in: an adapter that was never
\* loaded is a 404.  It may be gone again when the sequence is prefilled.
Resolved(a) == a = NoLora \/ loads > 0

\* Prefill of a new sequence.
LanePrefill(s, a, n) ==
    LET taken == (n + LaneSlots - 1) \div LaneSlots
        table == Reverse(SubSeq(free_blocks, Len(free_blocks) - taken + 1, Len(free_blocks)))
        rows  == [i \in 1 .. n |-> [of |-> s, pos |-> i - 1, with |-> Delta(a), write |-> SlotOf(table, i - 1)]] IN
    /\ s \notin Live /\ taken <= Len(free_blocks)
    /\ Resolved(a)
    /\ running' = Append(running, s)
    /\ block_table' = [block_table EXCEPT ![s] = table]
    /\ free_blocks' = SubSeq(free_blocks, 1, Len(free_blocks) - taken)
    /\ context_len' = [context_len EXCEPT ![s] = n]
    /\ lora_id' = [lora_id EXCEPT ![s] = a]
    /\ cells' = Written(cells, rows)
    /\ reloaded' = [reloaded EXCEPT ![s] = FALSE]
    /\ UNCHANGED <<graphs, adapters, loads>>

\* _fits_captured_graphs
Captured(batch) ==
    /\ Len(batch) <= MaxBucket
    /\ \A s \in Elems(batch) : Len(block_table[s]) + 1 <= MaxBlocksPerSeq

Bucket(n) == CHOOSE b \in BucketSizes : b >= n /\ \A c \in BucketSizes : c >= n => b <= c

\* Mutant: only the rows of the batch are copied into the buffers.
GraphRowsUnpadded(batch, tables) ==
    LET b == Bucket(Len(batch)) IN
    [i \in 1 .. b |-> IF i <= Len(batch) THEN TokenRow(batch[i], tables[batch[i]], NoLora) ELSE graphs[b][i]]

\* The static buffers: the batch, padded to its bucket with scratch sequences.
GraphRows(batch, tables) ==
    [i \in 1 .. Bucket(Len(batch)) |->
        IF i <= Len(batch) THEN TokenRow(batch[i], tables[batch[i]], NoLora) ELSE PadRow(i - Len(batch))]

\* Mutant: the adapters are those of the unsplit batch.
LoraIdsUnsplit(active, batch) == [i \in DOMAIN batch |-> lora_id[active[i]]]

LoraIds(active, batch) == [i \in DOMAIN batch |-> lora_id[batch[i]]]

GraphBatch(active) == Only(active, {s \in LaneSeqs : lora_id[s] = NoLora})
EagerBatch(active) == Only(active, {s \in LaneSeqs : lora_id[s] # NoLora})

\* Both lanes of _decode_active, each a forward pass of its own: the rows they
\* compute, the cache in between and after, what the logits of each sequence
\* are computed from.
Passes(active) ==
    LET graph  == GraphBatch(active)
        eager  == EagerBatch(active)
        tables == Reserved(graph \o eager)
        ids    == LoraIds(active, eager)
        replay == graph # <<>> /\ Captured(graph)
        rows1  == IF replay THEN GraphRows(graph, tables)
                  ELSE [i \in DOMAIN graph |-> TokenRow(graph[i], tables[graph[i]], NoLora)]
        rows2  == [i \in DOMAIN eager |-> TokenRow(eager[i], tables[eager[i]], ids[i])]
        kv1    == Written(cells, rows1)
        kv2    == Written(kv1, rows2) IN
    [tables  |-> tables,
     buffers |-> IF replay THEN [graphs EXCEPT ![Len(rows1)] = rows1] ELSE graphs,
     kv      |-> kv2,
     logits  |-> [i \in DOMAIN graph |-> Attended(kv1, rows1[i])]
                 \o [i \in DOMAIN eager |-> Attended(kv2, rows2[i])]]

Needing(active) == LET ordered == GraphBatch(active) \o EagerBatch(active) IN Grants(ordered, Len(ordered))

LaneDecode(active) ==
    LET passes == Passes(active) IN
    /\ active # <<>> /\ Needing(active) <= Len(free_blocks)
    /\ block_table' = passes.tables
    /\ free_blocks' = SubSeq(free_blocks, 1, Len(free_blocks) - Needing(active))
    /\ context_len' = [s \in LaneSeqs |-> IF s \in Elems(active) THEN context_len[s] + 1 ELSE context_len[s]]
    /\ graphs' = passes.buffers
    /\ cells' = passes.kv
    /\ UNCHANGED <<running, lora_id, adapters, loads, reloaded>>

\* A lane runs out of blocks: the rows before that one keep what they got, and
\* when it is the eager lane the graph lane has decoded.
LaneOutOfMemory(active) ==
    LET graph   == GraphBatch(active)
        decoded == IF Needing(graph) <= Len(free_blocks) THEN graph ELSE <<>> IN
    /\ Needing(active) > Len(free_blocks)
    /\ block_table' = Reserved(graph \o EagerBatch(active))
    /\ free_blocks' = <<>>
    /\ context_len' = [s \in LaneSeqs |-> IF s \in Elems(decoded) THEN context_len[s] + 1 ELSE context_len[s]]
    /\ graphs' = Passes(decoded).buffers
    /\ cells' = Passes(decoded).kv
    /\ UNCHANGED <<running, lora_id, adapters, loads, reloaded>>

\* free_sequence: finished, cancelled or preempted.  What the cells of a free
\* block still hold is nobody's.
LaneFree(s) ==
    /\ s \in Live
    /\ running' = Only(running, LaneSeqs \ {s})
    /\ free_blocks' = free_blocks \o block_table[s]
    /\ block_table' = [block_table EXCEPT ![s] = <<>>]
    /\ context_len' = [context_len EXCEPT ![s] = 0]
    /\ lora_id' = [lora_id EXCEPT ![s] = NoLora]
    /\ reloaded' = [reloaded EXCEPT ![s] = FALSE]
    /\ cells' = [c \in DOMAIN cells |-> IF c[1] \in Elems(block_table[s]) THEN Junk ELSE cells[c]]
    /\ UNCHANGED <<graphs, adapters, loads>>

SetAdapter(a, version) ==
    /\ adapters' = [adapters EXCEPT ![a] = version]
    /\ reloaded' = [s \in LaneSeqs |-> reloaded[s] \/ (s \in Live /\ lora_id[s] = a)]
    /\ UNCHANGED <<running, block_table, context_len, lora_id, free_blocks, cells, graphs>>

\* load_adapter may replace an adapter of the same name.
LoadAdapter(a) ==
    /\ loads < MaxLoads
    /\ loads' = loads + 1
    /\ SetAdapter(a, loads + 1)

UnloadAdapter(a) ==
    /\ adapters[a] # 0
    /\ SetAdapter(a, 0)
    /\ UNCHANGED loads

\* The running sequences of a step, with or without the last to be admitted:
\* its prefill may just have completed.
Batches ==
    LET decodable == Only(running, {s \in LaneSeqs : context_len[s] < LaneMaxLen}) IN
    {q \in {decodable, Only(decodable, LaneSeqs \ {Last(running)})} : q # <<>>}

LaneNext ==
    \/ \E s \in LaneSeqs, a \in Adapters \cup {NoLora}, n \in PromptLens : LanePrefill(s, a, n)
    \/ \E q \in Batches : LaneDecode(q) \/ LaneOutOfMemory(q)
    \/ \E s \in LaneSeqs : LaneFree(s)
    \/ \E a \in Adapters : LoadAdapter(a) \/ UnloadAdapter(a)

LaneSpec == LaneInit /\ [][LaneNext]_laneVars

-----------------------------------------------------------------------------
(* Properties *)

OwnKey(s, p, key) == key.of = s /\ key.pos = p - 1

\* Whatever batch is decoded next, each row of logits belongs to the sequence it
\* is given to: it attends to that sequence's own positions in order, up to the
\* new one, and the adapter added is that sequence's (lora.py:39-42), none in
\* the graph lane; whatever the lanes, the padding and the buffers left by
\* earlier replays.
RowsAreTheirOwn ==
    \A active \in {batch \in Batches : Needing(batch) <= Len(free_blocks)} :
        LET ordered == GraphBatch(active) \o EagerBatch(active) IN
        \A logits \in {Passes(active).logits} : \A i \in DOMAIN ordered :
            LET s == ordered[i] IN
            /\ logits[i].with = Delta(lora_id[s])
            /\ Len(logits[i].keys) = context_len[s] + 1
            /\ \A p \in DOMAIN logits[i].keys : OwnKey(s, p, logits[i].keys[p])

\* No padding row, capture or other sequence writes into a live sequence's
\* cells ("safe as a placeholder write target", cuda_graph_decoder.py:91-94),
\* and a completion is of one set of weights from its prompt on unless its
\* adapter was loaded again or unloaded under it.
CellsIntact ==
    \A s \in Live, p \in 1 .. LaneMaxLen :
        p <= context_len[s] =>
            LET key(q) == cells[SlotOf(block_table[s], q - 1)] IN
            /\ OwnKey(s, p, key(p))
            /\ reloaded[s] \/ key(p).with = Delta(lora_id[s])

=============================================================================
