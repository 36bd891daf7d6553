\* Prefix caching, chunked prefill, beam scoring, preemption by recomputation.
SPECIFICATION Spec
CONSTANTS
    a = a
    b = b
    Blocks = {b1, b2, b3, b4, b5}
    BlockSize = 2
    Seqs = {s1, s2, s3}
    Tokens = {a, b}
    Prompts <- MCPrompts
    Adapters = {base}
    BaseModel = base
    EnablePrefixCaching = TRUE
    EnableChunking = TRUE
    EnableSwap = FALSE
    MaxDraft = 0
    MaxLen = 6
SYMMETRY Symmetric
INVARIANTS TypeOK OwnershipExact CacheSound
PROPERTIES ExclusiveWrites StoreSpec
CHECK_DEADLOCK FALSE
