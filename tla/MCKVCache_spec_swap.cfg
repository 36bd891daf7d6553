\* Prefix caching, speculative decoding and preemption by CPU swap.
SPECIFICATION Spec
CONSTANTS
    a = a
    b = b
    Blocks = {b1, b2, b3, b4, b5}
    BlockSize = 2
    Seqs = {s1, s2}
    Tokens = {a, b}
    Prompts <- MCPrompts
    Adapters = {base}
    BaseModel = base
    EnablePrefixCaching = TRUE
    EnableChunking = FALSE
    EnableSwap = TRUE
    MaxDraft = 2
    MaxLen = 6
SYMMETRY Symmetric
INVARIANT CacheSound
PROPERTY StoreSpec
CHECK_DEADLOCK FALSE
