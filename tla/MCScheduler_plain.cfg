\* One-shot prefill, eager decode, preemption by recomputation.
SPECIFICATION Spec
CONSTANTS
    r1 = r1
    r2 = r2
    r3 = r3
    g1 = g1
    Reqs = {r1, r2, r3}
    NumBlocks = 5
    BlockSize = 3
    PromptLen <- TightPromptLen
    MaxNew <- TightMaxNew
    ChunkBudget = 0
    EnableSwap = FALSE
    MaxDraft = 0
    Greedy = {}
    UseGraph = FALSE
    Lora = {}
    CanStop = TRUE
    CanCancel = TRUE
    Groups = {}
    GroupLen <- NoGroups
    GroupNew <- NoGroups
INVARIANTS TypeOK OneHome CacheInStep NothingEscapes OneTokenPerStep
PROPERTY AllServed
