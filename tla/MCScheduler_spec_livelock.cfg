\* Is a request served when its drafts reach past the pool?
SPECIFICATION Spec
CONSTANTS
    r1 = r1
    r2 = r2
    r3 = r3
    g1 = g1
    Reqs = {r2}
    NumBlocks = 3
    BlockSize = 2
    PromptLen <- DraftPromptLen
    MaxNew <- DraftMaxNew
    ChunkBudget = 0
    EnableSwap = FALSE
    MaxDraft = 2
    Greedy = {r2}
    UseGraph = FALSE
    Lora = {}
    CanStop = FALSE
    CanCancel = FALSE
    Groups = {}
    GroupLen <- NoGroups
    GroupNew <- NoGroups
PROPERTY AllServed
