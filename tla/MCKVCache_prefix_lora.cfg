\* Prefix caching with two adapters.
SPECIFICATION Spec
CONSTANTS
    a = a
    b = b
    Blocks = {b1, b2, b3, b4}
    BlockSize = 2
    Seqs = {s1, s2}
    Tokens = {a, b}
    Prompts <- MCPrompts
    Adapters = {base, lora}
    BaseModel = base
    EnablePrefixCaching = TRUE
    EnableChunking = FALSE
    EnableSwap = FALSE
    MaxDraft = 0
    MaxLen = 5
SYMMETRY Symmetric
INVARIANTS CacheCoherent

CHECK_DEADLOCK FALSE
