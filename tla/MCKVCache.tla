------------------------------ MODULE MCKVCache ------------------------------
EXTENDS KVCache, TLC

CONSTANTS a, b

\* Prompts around the block boundary (BlockSize = 2): two that share their
\* first block, and one that is a whole number of blocks.
MCPrompts == {<<a, a, a>>, <<a, a, b, b>>}
MCShort == {<<a, a, a>>}
Symmetric == Permutations(Blocks) \cup Permutations(Seqs)
=============================================================================
