\* Chunked prefill, drafts before the graph lane, CPU swap and a beam group, in too
\* few blocks: a step may end in an exception.
SPECIFICATION Spec
CONSTANTS
    r1 = r1
    r2 = r2
    r3 = r3
    g1 = g1
    Reqs = {r1, r2, r3}
    NumBlocks = 4
    BlockSize = 3
    PromptLen <- ChunkPromptLen
    MaxNew <- ChunkMaxNew
    ChunkBudget = 4
    EnableSwap = TRUE
    MaxDraft = 2
    Greedy = {r1}
    UseGraph = TRUE
    Lora = {}
    CanStop = TRUE
    CanCancel = TRUE
    Groups = {g1}
    GroupLen <- MCGroupLen
    GroupNew <- MCGroupNew
INVARIANTS OneHome CacheInStep SomeTokenPerStep
PROPERTY NoLostWork
