\* Speculative decoding and CPU swap: does every snapshot fit what swap_in allocates?
SPECIFICATION Spec
CONSTANTS
    a = a
    b = b
    Blocks = {b1, b2, b3, b4, b5}
    BlockSize = 2
    Seqs = {s1, s2}
    Tokens = {a, b}
    Prompts <- MCShort
    Adapters = {base}
    BaseModel = base
    EnablePrefixCaching = FALSE
    EnableChunking = FALSE
    EnableSwap = TRUE
    MaxDraft = 2
    MaxLen = 7
SYMMETRY Symmetric
INVARIANTS SwapSnapshotFits

CHECK_DEADLOCK FALSE
