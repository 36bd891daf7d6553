\* Graph and LoRA sequences in one batch: do the lanes agree on what is cached?
SPECIFICATION Spec
CONSTANTS
    r1 = r1
    r2 = r2
    r3 = r3
    g1 = g1
    Reqs = {r1, r2}
    NumBlocks = 5
    BlockSize = 3
    PromptLen <- LanePromptLen
    MaxNew <- LaneMaxNew
    ChunkBudget = 0
    EnableSwap = FALSE
    MaxDraft = 0
    Greedy = {}
    UseGraph = TRUE
    Lora = {r2}
    CanStop = TRUE
    CanCancel = FALSE
    Groups = {}
    GroupLen <- NoGroups
    GroupNew <- NoGroups
INVARIANT LanesAgree
