---------------------------- MODULE KVCacheProofs ----------------------------
(***************************************************************************)
(* Proofs about KVCache: its types, the exact ownership of blocks and the  *)
(* consistency of the prefix index, for every pool, block size, set of     *)
(* sequences, adapters and prompts.                                        *)
(*                                                                         *)
(* OwnershipExact is not inductive by itself: a prefix hit puts the blocks *)
(* that hash_to_block names into a new table, so the table is injective    *)
(* and its blocks are held only because the index is consistent; and the   *)
(* index stays consistent only because the tables are.  IInv is the three  *)
(* together, with the facts that blocks are lost only by an exception and  *)
(* that a sequence which is not in the cache has no table.                 *)
(***************************************************************************)
EXTENDS KVCache, Foundations, SequenceTheorems

LostByException == lost # {} => raised
IdleHoldNothing == \A s \in Seqs : place[s] # "live" => block_table[s] = <<>>

IInv == TypeOK /\ OwnershipExact /\ IndexConsistent /\ LostByException /\ IdleHoldNothing

-----------------------------------------------------------------------------
(* Arithmetic of blocks *)

\* A whole number of blocks below n \div BlockSize lies within n tokens.
LEMMA WholeBlocksFit ==
    ASSUME NEW n \in Nat, NEW i \in Nat, i <= n \div BlockSize
    PROVE  i * BlockSize <= n
<1>1. BlockSize \in Nat /\ BlockSize > 0
  BY SizesAssumption
<1> DEFINE q == n \div BlockSize
<1>2. q \in Nat /\ q * BlockSize <= n
  BY <1>1, SMTT(30)
<1>3. i * BlockSize <= q * BlockSize
  BY <1>1, <1>2, SMTT(30)
<1> QED
  BY <1>1, <1>2, <1>3

\* reserve() gives a table at least as many blocks as n tokens fill.
LEMMA BlocksNeededBounds ==
    ASSUME NEW n \in Nat
    PROVE  /\ BlocksNeeded(n) \in Nat
           /\ n \div BlockSize \in Nat
           /\ n \div BlockSize <= BlocksNeeded(n)
<1>1. BlockSize \in Nat /\ BlockSize > 0
  BY SizesAssumption
<1> DEFINE m == n + BlockSize - 1
<1>2. m \in Nat /\ n <= m
  BY <1>1
<1>3. \A x, y \in Nat : x <= y => x \div BlockSize <= y \div BlockSize
  BY <1>1, SMTT(30)
<1>4. \A x \in Nat : x \div BlockSize \in Nat
  BY <1>1, SMTT(30)
<1> QED
  BY <1>2, <1>3, <1>4 DEF BlocksNeeded

\* Blocks are counted from different lengths, so their prefixes differ.
LEMMA PrefixesDiffer ==
    ASSUME NEW h \in Seq(Tokens),
           NEW i \in 1 .. (Len(h) \div BlockSize), NEW j \in 1 .. (Len(h) \div BlockSize)
    PROVE  /\ BlockPrefix(h, i) \in Seq(Tokens)
           /\ BlockPrefix(h, i) = BlockPrefix(h, j) => i = j
<1>1. BlockSize \in Nat /\ BlockSize > 0 /\ Len(h) \in Nat
  BY SizesAssumption
<1>2. Len(h) \div BlockSize \in Nat
  BY <1>1, BlocksNeededBounds
<1>3. i \in Nat /\ j \in Nat /\ i <= Len(h) \div BlockSize /\ j <= Len(h) \div BlockSize
  BY <1>2
<1>4. i * BlockSize <= Len(h) /\ j * BlockSize <= Len(h)
  BY <1>1, <1>3, WholeBlocksFit
<1>5. i * BlockSize \in Nat /\ j * BlockSize \in Nat
  BY <1>1, <1>3
<1>6. \A k \in 0 .. Len(h) : SubSeq(h, 1, k) \in Seq(Tokens) /\ Len(SubSeq(h, 1, k)) = k
  BY <1>1
<1>7. BlockPrefix(h, i) \in Seq(Tokens)
  BY <1>4, <1>5, <1>6 DEF BlockPrefix
<1>8. ASSUME BlockPrefix(h, i) = BlockPrefix(h, j) PROVE i = j
  <2>1. i * BlockSize = j * BlockSize
    BY <1>4, <1>5, <1>6, <1>8 DEF BlockPrefix
  <2> QED
    BY <2>1, <1>1, <1>3, SMTT(30)
<1> QED
  BY <1>7, <1>8

-----------------------------------------------------------------------------
(* The prefix index *)

\* match_prefix() stops: there is a longest matching run of whole blocks.
LEMMA MatchLenExists ==
    ASSUME NEW h \in Seq(Tokens), Len(h) >= 1
    PROVE  /\ Matchable(h) \in Nat
           /\ Matchable(h) <= Len(h) \div BlockSize
           /\ MatchLen(h) \in 0 .. Matchable(h)
           /\ \A i \in 1 .. MatchLen(h) : BlockPrefix(h, i) \in DOMAIN hash_to_block
<1> DEFINE Hit(i)  == BlockPrefix(h, i) \in DOMAIN hash_to_block
           Ends    == {m \in Nat : m >= Matchable(h) \/ ~Hit(m + 1)}
<1>1. Matchable(h) \in Nat /\ Matchable(h) <= Len(h) \div BlockSize
  <2>1. BlockSize \in Nat /\ BlockSize > 0 /\ Len(h) \in Nat /\ Len(h) - 1 \in Nat
    BY SizesAssumption
  <2>2. \A x, y \in Nat : x <= y => x \div BlockSize <= y \div BlockSize
    BY <2>1, SMTT(30)
  <2>3. (Len(h) - 1) \div BlockSize \in Nat /\ Len(h) \div BlockSize \in Nat
    BY <2>1, BlocksNeededBounds
  <2>4. 0 <= Len(h) \div BlockSize
    BY <2>3
  <2> QED
    BY <2>1, <2>2, <2>3, <2>4 DEF Matchable
<1>2. Ends \subseteq Nat /\ Ends # {}
  <2>1. Matchable(h) \in Ends
    BY <1>1
  <2> QED
    BY <2>1
<1>3. PICK m \in Ends : \A k \in Ends : m <= k
  <2> HIDE DEF Ends
  <2> QED
    BY <1>2, LeastNatural
<1>5. m \in 0 .. Matchable(h)
  BY <1>1, <1>3
<1>6. \A i \in 1 .. m : Hit(i)
  <2> SUFFICES ASSUME NEW i \in 1 .. m, ~Hit(i) PROVE FALSE
    OBVIOUS
  <2>1. i - 1 \in Nat /\ (i - 1) + 1 = i
    OBVIOUS
  <2>2. i - 1 \in Ends
    BY <2>1
  <2> QED
    BY <1>3, <2>1, <2>2
<1>7. m < Matchable(h) => ~Hit(m + 1)
  BY <1>1, <1>3
<1> DEFINE Longest(k) == /\ \A i \in 1 .. k : Hit(i)
                         /\ k < Matchable(h) => ~Hit(k + 1)
<1>8. \E k \in 0 .. Matchable(h) : Longest(k)
  BY <1>5, <1>6, <1>7
<1>9. MatchLen(h) = CHOOSE k \in 0 .. Matchable(h) : Longest(k)
  BY DEF MatchLen
<1>10. MatchLen(h) \in 0 .. Matchable(h) /\ Longest(MatchLen(h))
  <2> HIDE DEF Longest
  <2> QED
    BY <1>8, <1>9
<1> QED
  BY <1>1, <1>10

\* The blocks match_prefix() reuses are distinct and held.
LEMMA MatchedBlocksOwned ==
    ASSUME TypeOK, IndexConsistent, NEW h \in Seq(Tokens), Len(h) >= 1
    PROVE  /\ MatchLen(h) \in Nat
           /\ MatchLen(h) <= Len(h) \div BlockSize
           /\ MatchedBlocks(h) \in Seq(Blocks)
           /\ Len(MatchedBlocks(h)) = MatchLen(h)
           /\ \A i \in 1 .. MatchLen(h) : MatchedBlocks(h)[i] \notin free_blocks
           /\ \A i, j \in 1 .. MatchLen(h) : MatchedBlocks(h)[i] = MatchedBlocks(h)[j] => i = j
<1>1. /\ MatchLen(h) \in Nat /\ MatchLen(h) <= Matchable(h) /\ Matchable(h) \in Nat
      /\ Matchable(h) <= Len(h) \div BlockSize
      /\ \A i \in 1 .. MatchLen(h) : BlockPrefix(h, i) \in DOMAIN hash_to_block
  BY MatchLenExists
<1>2. Len(h) \div BlockSize \in Nat
  BY BlocksNeededBounds
<1>3. \A i \in 1 .. MatchLen(h) : i \in 1 .. (Len(h) \div BlockSize)
  BY <1>1, <1>2
<1>4. \A i \in 1 .. MatchLen(h) :
        /\ hash_to_block[BlockPrefix(h, i)] \in Blocks \ free_blocks
        /\ block_hash_info[hash_to_block[BlockPrefix(h, i)]] = BlockPrefix(h, i)
  BY <1>1 DEF IndexConsistent, TypeOK
<1>5. \A i, j \in 1 .. MatchLen(h) : BlockPrefix(h, i) = BlockPrefix(h, j) => i = j
  BY <1>3, PrefixesDiffer
<1>6. MatchedBlocks(h) \in [1 .. MatchLen(h) -> Blocks]
  BY <1>4 DEF MatchedBlocks
<1>7. MatchedBlocks(h) \in Seq(Blocks) /\ Len(MatchedBlocks(h)) = MatchLen(h)
  BY <1>1, <1>6
<1> QED
  BY <1>1, <1>2, <1>4, <1>5, <1>7 DEF MatchedBlocks

-----------------------------------------------------------------------------
(* The allocator *)

\* Holders, references and what a set of sequences can give up.
LEMMA HoldersFinite ==
    ASSUME NEW b \in Blocks, NEW V \in SUBSET Seqs
    PROVE  /\ IsFiniteSet(Holders(b))
           /\ Cardinality(Holders(b)) \in Nat
           /\ Cardinality(Holders(b) \ V) = Cardinality(Holders(b)) - Refs(V, b)
           /\ Cardinality(Holders(b) \ V) \in Nat
           /\ Refs(V, b) \in Nat
           /\ Cardinality(Holders(b)) = 0 <=> Holders(b) = {}
           /\ Cardinality(Holders(b) \ V) = 0 <=> Holders(b) \subseteq V
<1>1. Holders(b) \in SUBSET Seqs
  BY DEF Holders
<1>2. IsFiniteSet(Holders(b)) /\ IsFiniteSet(Holders(b) \ V) /\ IsFiniteSet(Holders(b) \cap V)
  <2>1. Holders(b) \ V \in SUBSET Seqs /\ Holders(b) \cap V \in SUBSET Seqs
    BY <1>1
  <2> QED
    BY <1>1, <2>1, SeqsAssumption, FS_Subset
<1>3. Refs(V, b) = Cardinality(Holders(b) \cap V)
  <2>1. {s \in V : b \in BlocksOf(s)} = Holders(b) \cap V
    BY DEF Holders
  <2> QED
    BY <2>1 DEF Refs
<1>4. Cardinality(Holders(b) \ V) = Cardinality(Holders(b)) - Cardinality(Holders(b) \cap V)
  BY <1>2, FS_Difference
<1>5. /\ Cardinality(Holders(b)) \in Nat /\ Cardinality(Holders(b) \ V) \in Nat
      /\ Cardinality(Holders(b) \cap V) \in Nat
  BY <1>2, FS_CardinalityType
<1>6. /\ Cardinality(Holders(b)) = 0 <=> Holders(b) = {}
      /\ Cardinality(Holders(b) \ V) = 0 <=> Holders(b) \ V = {}
  BY <1>2, FS_EmptySet
<1> QED
  BY <1>2, <1>3, <1>4, <1>5, <1>6

\* What can be allocated once V has let go of its tables is held by V only.
LEMMA AvailableHeldByV ==
    ASSUME TypeOK, OwnershipExact, lost = {},
           NEW V \in SUBSET Seqs, NEW b \in Available(V)
    PROVE  b \in Blocks /\ Holders(b) \subseteq V
<1>1. b \in Blocks
  BY DEF Available, Dropped, TypeOK
<1>0. /\ Cardinality(Holders(b)) \in Nat /\ Cardinality(Holders(b) \ V) \in Nat
      /\ Refs(V, b) \in Nat
      /\ Cardinality(Holders(b) \ V) = Cardinality(Holders(b)) - Refs(V, b)
      /\ Cardinality(Holders(b)) = 0 <=> Holders(b) = {}
      /\ Cardinality(Holders(b) \ V) = 0 <=> Holders(b) \subseteq V
  BY <1>1, HoldersFinite
<1>2. ref_counts[b] = Cardinality(Holders(b))
  BY <1>0, <1>1 DEF OwnershipExact, RefCountsExact
<1>3. CASE b \in free_blocks
  <2>1. Cardinality(Holders(b)) = 0
    BY <1>2, <1>3 DEF OwnershipExact, FreeListExact
  <2> QED
    BY <1>0, <1>1, <2>1
<1>4. CASE b \in Dropped(V)
  <2>1. Cardinality(Holders(b)) <= Refs(V, b)
    BY <1>2, <1>4 DEF Dropped
  <2> QED
    BY <1>0, <1>1, <2>1
<1> QED
  BY <1>1, <1>3, <1>4 DEF Available

\* The free list and the reference counts after one call of the allocator's
\* users: exact with respect to the tables that V no longer has.
LEMMA AccountExact ==
    ASSUME TypeOK, OwnershipExact, lost = {},
           NEW V \in SUBSET Seqs,
           NEW Shared \in SUBSET (Blocks \ free_blocks), V = {} \/ Shared = {},
           NEW Taken \in SUBSET Available(V),
           Account(V, Shared, Taken)
    PROVE  /\ free_blocks' \subseteq Blocks
           /\ ref_counts' \in [Blocks -> Nat]
           /\ FreeListExact'
           /\ \A b \in Blocks : ref_counts'[b] =
                 IF b \in Taken THEN 1
                 ELSE IF b \in Shared THEN Cardinality(Holders(b)) + 1
                 ELSE Cardinality(Holders(b) \ V)
           /\ \A b \in Blocks : b \notin Taken => (b \in free_blocks' <=> b \in Available(V))
<1> DEFINE Goal(b) == /\ ref_counts'[b] \in Nat
                      /\ b \in free_blocks' <=> ref_counts'[b] = 0
                      /\ ref_counts'[b] =
                            IF b \in Taken THEN 1
                            ELSE IF b \in Shared THEN Cardinality(Holders(b)) + 1
                            ELSE Cardinality(Holders(b) \ V)
                      /\ b \notin Taken => (b \in free_blocks' <=> b \in Available(V))
<1>1. Available(V) \subseteq Blocks /\ Taken \subseteq Blocks
  BY DEF Available, Dropped, TypeOK
<1>2. free_blocks' = Available(V) \ Taken
  BY DEF Account
<1>3. ASSUME NEW b \in Blocks PROVE Goal(b)
  <2>1. /\ Cardinality(Holders(b)) \in Nat /\ Cardinality(Holders(b) \ V) \in Nat
        /\ Refs(V, b) \in Nat
        /\ Cardinality(Holders(b) \ V) = Cardinality(Holders(b)) - Refs(V, b)
    BY HoldersFinite
  <2>2. /\ ref_counts[b] = Cardinality(Holders(b))
        /\ b \in free_blocks <=> ref_counts[b] = 0
    BY <1>3, <2>1 DEF OwnershipExact, RefCountsExact, FreeListExact
  <2>3. b \in Dropped(V) <=> Refs(V, b) > 0 /\ ref_counts[b] <= Refs(V, b)
    BY DEF Dropped
  <2>4. ref_counts'[b] = IF b \in Taken THEN 1
                         ELSE IF b \in Shared THEN ref_counts[b] + 1
                         ELSE IF b \in Dropped(V) THEN 0
                         ELSE ref_counts[b] - Refs(V, b)
    BY DEF Account
  <2>5. b \in Shared => b \notin Available(V)
    <3>1. SUFFICES ASSUME b \in Shared PROVE b \notin free_blocks /\ b \notin Dropped(V)
      BY DEF Available
    <3>2. V = {}
      BY <3>1
    <3>3. Refs(V, b) = 0
      <4>1. {s \in V : b \in BlocksOf(s)} = {}
        BY <3>2
      <4> QED
        BY <4>1, FS_EmptySet DEF Refs
    <3> QED
      BY <3>1, <3>3, <2>3
  <2>6. b \in Available(V) <=> b \in free_blocks \/ b \in Dropped(V)
    BY DEF Available
  <2> QED
    BY <1>2, <2>1, <2>2, <2>3, <2>4, <2>5, <2>6
<1>4. ref_counts' = [b \in Blocks |-> ref_counts'[b]]
  BY DEF Account
<1>5. ref_counts' \in [Blocks -> Nat]
  BY <1>3, <1>4
<1>6. free_blocks' = {b \in Blocks : ref_counts'[b] = 0}
  BY <1>1, <1>2, <1>3
<1> QED
  BY <1>1, <1>2, <1>3, <1>5, <1>6 DEF FreeListExact

\* Ownership stays exact when V lets go of its tables and every block taken or
\* shared goes into the table of one sequence, its Owner.
Moves(V, Shared, Taken, Owner) ==
    /\ V \in SUBSET Seqs
    /\ Shared \in SUBSET (Blocks \ free_blocks) /\ (V = {} \/ Shared = {})
    /\ Taken \in SUBSET Available(V)
    /\ Account(V, Shared, Taken)
    /\ Owner \in [Taken \cup Shared -> Seqs]
    /\ \A b \in Shared : b \notin Elems(block_table[Owner[b]])
    /\ \A r \in Seqs : Elems(block_table'[r]) =
           (IF r \in V THEN {} ELSE Elems(block_table[r]))
               \cup {b \in Taken \cup Shared : Owner[b] = r}
    /\ TablesInjective'
    /\ lost = {} /\ lost' = {}

\* A step that frees the tables of V and grants Shared and Taken blocks to one
\* owner leaves every block owned exactly (kv_cache.py:27-54).
LEMMA OwnershipKept ==
    ASSUME TypeOK, OwnershipExact,
           NEW V, NEW Shared, NEW Taken, NEW Owner, Moves(V, Shared, Taken, Owner)
    PROVE  OwnershipExact'
<1> USE DEF Moves
<1>1. /\ FreeListExact'
      /\ \A b \in Blocks : ref_counts'[b] =
            IF b \in Taken THEN 1
            ELSE IF b \in Shared THEN Cardinality(Holders(b)) + 1
            ELSE Cardinality(Holders(b) \ V)
  BY AccountExact
<1>2. ASSUME NEW b \in Blocks PROVE Cardinality(Holders(b)') \in Nat /\ ref_counts'[b] = Cardinality(Holders(b)')
  <2>0. Holders(b) = {r \in Seqs : b \in Elems(block_table[r])}
    BY DEF Holders, BlocksOf, Elems
  <2>1. Holders(b)' = {r \in Seqs : b \in Elems(block_table'[r])}
    BY DEF Holders, BlocksOf, Elems
  <2>2. /\ IsFiniteSet(Holders(b)) /\ Cardinality(Holders(b)) \in Nat
        /\ Cardinality(Holders(b) \ V) \in Nat
    BY HoldersFinite
  <2>3. CASE b \in Taken
    <3>2. \A r \in Seqs : b \in Elems(block_table[r]) => r \in V
      BY <2>0, <2>3, AvailableHeldByV
    <3>3. Holders(b)' = {Owner[b]}
      BY <2>1, <2>3, <3>2
    <3>4. Cardinality(Holders(b)') = 1
      BY <3>3, FS_Singleton
    <3>5. ref_counts'[b] = 1
      BY <1>1, <2>3
    <3> QED
      BY <3>4, <3>5
  <2>4. CASE b \in Shared /\ b \notin Taken
    <3>2. V = {}
      BY <2>4
    <3>3. Holders(b)' = Holders(b) \cup {Owner[b]} /\ Owner[b] \notin Holders(b)
      BY <2>0, <2>1, <2>4, <3>2
    <3>4. Cardinality(Holders(b) \cup {Owner[b]}) = Cardinality(Holders(b)) + 1
      BY <2>2, <3>3, FS_AddElement
    <3> QED
      BY <1>1, <2>2, <2>4, <3>3, <3>4
  <2>5. CASE b \notin Shared /\ b \notin Taken
    <3>1. Holders(b)' = Holders(b) \ V
      BY <2>0, <2>1, <2>5
    <3> QED
      BY <1>1, <2>2, <2>5, <3>1
  <2> QED
    BY <2>3, <2>4, <2>5
<1>3. RefCountsExact'
  BY <1>2 DEF RefCountsExact
<1> QED
  BY <1>1, <1>3 DEF OwnershipExact

\* Nobody lets go of anything: what can be allocated is what is free.
LEMMA NothingDropped ==
    ASSUME TypeOK
    PROVE  Dropped({}) = {} /\ Available({}) = free_blocks
<1>1. ASSUME NEW b \in Blocks PROVE Refs({}, b) = 0
  <2>1. {s \in {} : b \in BlocksOf(s)} = {}
    OBVIOUS
  <2> QED
    BY <2>1, FS_EmptySet DEF Refs
<1> QED
  BY <1>1 DEF Dropped, Available

\* Freshly allocated blocks after a table that holds none of them.
LEMMA ConcatFresh ==
    ASSUME NEW pre \in Seq(Blocks), NEW n \in Nat, NEW new \in Fresh(n), free_blocks \subseteq Blocks,
           \A i \in DOMAIN pre : pre[i] \notin free_blocks,
           \A i, j \in DOMAIN pre : pre[i] = pre[j] => i = j
    PROVE  LET tab == pre \o new IN
           /\ tab \in Seq(Blocks)
           /\ Len(tab) = Len(pre) + n
           /\ DOMAIN tab = 1 .. (Len(pre) + n)
           /\ Elems(tab) = Elems(pre) \cup Elems(new)
           /\ Elems(new) \subseteq free_blocks
           /\ \A i, j \in DOMAIN tab : tab[i] = tab[j] => i = j
<1> DEFINE tab == pre \o new
<1>1. /\ new \in [1 .. n -> free_blocks]
      /\ \A i, j \in 1 .. n : new[i] = new[j] => i = j
  BY DEF Fresh
<1>2. new \in Seq(Blocks) /\ Len(new) = n /\ DOMAIN new = 1 .. n
  BY <1>1
<1>3. Len(pre) \in Nat /\ DOMAIN pre = 1 .. Len(pre)
  OBVIOUS
<1>4. /\ tab \in Seq(Blocks) /\ Len(tab) = Len(pre) + n /\ DOMAIN tab = 1 .. (Len(pre) + n)
      /\ \A i \in 1 .. Len(pre) : tab[i] = pre[i]
      /\ \A i \in 1 .. n : tab[Len(pre) + i] = new[i]
  BY <1>2, <1>3
<1>5. \A i \in DOMAIN tab : i \in 1 .. Len(pre) \/ (i - Len(pre) \in 1 .. n /\ i = Len(pre) + (i - Len(pre)))
  BY <1>3, <1>4
<1>6. ASSUME NEW i \in DOMAIN tab
      PROVE  \/ i \in 1 .. Len(pre) /\ tab[i] = pre[i] /\ tab[i] \notin free_blocks
             \/ i - Len(pre) \in 1 .. n /\ tab[i] = new[i - Len(pre)] /\ tab[i] \in free_blocks
  <2>1. CASE i \in 1 .. Len(pre)
    BY <1>3, <1>4, <2>1
  <2>2. CASE i - Len(pre) \in 1 .. n /\ i = Len(pre) + (i - Len(pre))
    <3>1. PICK k \in 1 .. n : k = i - Len(pre) /\ i = Len(pre) + k
      BY <2>2
    <3>2. tab[i] = new[k] /\ new[k] \in free_blocks
      BY <1>1, <1>4, <3>1
    <3> QED
      BY <3>1, <3>2
  <2> QED
    BY <1>5, <2>1, <2>2
<1>7. \A i, j \in DOMAIN tab : tab[i] = tab[j] => i = j
  BY <1>1, <1>3, <1>4, <1>6
<1>8. Elems(tab) = Elems(pre) \cup Elems(new)
  BY <1>2, ConcatList
<1>9. Elems(new) \subseteq free_blocks
  BY <1>1, <1>2 DEF Elems
<1> QED
  BY <1>4, <1>7, <1>8, <1>9

\* A sequence that is in no table, or that grows its own, keeps ownership exact:
\* pre is its table so far, or the blocks it shares.
Grows(s, pre, n, new, Shared) ==
    /\ pre \in Seq(Blocks) /\ n \in Nat /\ new \in Fresh(n)
    /\ Shared \in SUBSET (Blocks \ free_blocks)
    /\ Elems(pre) = Elems(block_table[s]) \cup Shared
    /\ Elems(block_table[s]) \cap Shared = {}
    /\ \A i, j \in DOMAIN pre : pre[i] = pre[j] => i = j
    /\ Account({}, Shared, Elems(new))
    /\ block_table' = [block_table EXCEPT ![s] = pre \o new]
    /\ lost = {} /\ lost' = {}

\* reserve() and a prefix hit make one table grow by shared and by fresh blocks
\* (kv_cache.py:259-275).
LEMMA TableGrows ==
    ASSUME TypeOK, OwnershipExact, NEW s \in Seqs,
           NEW pre, NEW n, NEW new, NEW Shared, Grows(s, pre, n, new, Shared)
    PROVE  /\ OwnershipExact'
           /\ free_blocks' \subseteq free_blocks
           /\ ref_counts' \in [Blocks -> Nat]
           /\ block_table' \in [Seqs -> Seq(Blocks)]
           /\ pre \o new \in Seq(Blocks)
           /\ Len(pre \o new) = Len(pre) + n
           /\ \A i, j \in DOMAIN (pre \o new) : (pre \o new)[i] = (pre \o new)[j] => i = j
           /\ \A i \in DOMAIN (pre \o new) : (pre \o new)[i] \in Blocks \ free_blocks'
<1> USE DEF Grows
<1> DEFINE tab   == pre \o new
           V     == {}
           Taken == Elems(new)
           Owner == [b \in Taken \cup Shared |-> s]
<1>1. Dropped({}) = {} /\ Available({}) = free_blocks /\ free_blocks \subseteq Blocks
  BY NothingDropped DEF TypeOK
<1>2. \A r \in Seqs : Elems(block_table[r]) \cap free_blocks = {}
  BY <1>1, AvailableHeldByV DEF Holders, BlocksOf, Elems
<1>3. \A i \in DOMAIN pre : pre[i] \notin free_blocks
  BY <1>2 DEF Elems
<1>4. /\ tab \in Seq(Blocks) /\ Len(tab) = Len(pre) + n
      /\ Elems(tab) = Elems(pre) \cup Elems(new)
      /\ Elems(new) \subseteq free_blocks
      /\ \A i, j \in DOMAIN tab : tab[i] = tab[j] => i = j
  BY <1>1, <1>3, ConcatFresh
<1>5. block_table \in [Seqs -> Seq(Blocks)]
  BY DEF TypeOK
<1> HIDE DEF tab
<1>6. block_table' = [block_table EXCEPT ![s] = tab] /\ block_table' \in [Seqs -> Seq(Blocks)]
  BY <1>4, <1>5 DEF tab
<1>7. block_table'[s] = tab /\ \A r \in Seqs \ {s} : block_table'[r] = block_table[r]
  BY <1>5, <1>6
<1>8. TablesInjective'
  <2> SUFFICES ASSUME NEW r \in Seqs
               PROVE  \A i, j \in DOMAIN block_table'[r] :
                          block_table'[r][i] = block_table'[r][j] => i = j
    BY DEF TablesInjective
  <2>1. CASE r = s
    BY ONLY <1>4, <1>7, <2>1
  <2>2. CASE r # s
    BY <1>7, <2>2 DEF OwnershipExact, TablesInjective
  <2> QED
    BY <2>1, <2>2
<1>9. ASSUME NEW r \in Seqs
      PROVE  Elems(block_table'[r]) =
                (IF r \in V THEN {} ELSE Elems(block_table[r]))
                    \cup {b \in Taken \cup Shared : Owner[b] = r}
  <2>1. CASE r = s
    BY <1>4, <1>7, <2>1
  <2>2. CASE r # s
    BY <1>7, <2>2
  <2> QED
    BY <2>1, <2>2
<1>10. /\ V \in SUBSET Seqs /\ (V = {} \/ Shared = {})
       /\ Taken \in SUBSET Available(V)
       /\ Account(V, Shared, Taken)
       /\ Owner \in [Taken \cup Shared -> Seqs]
       /\ \A b \in Shared : b \notin Elems(block_table[Owner[b]])
       /\ free_blocks' = free_blocks \ Taken
  BY <1>1, <1>4 DEF Account
<1>11. ref_counts' \in [Blocks -> Nat] /\ OwnershipExact'
  <2>0. Moves(V, Shared, Taken, Owner)
    BY <1>8, <1>9, <1>10 DEF Moves
  <2> HIDE DEF V, Taken, Owner
  <2>1. ref_counts' \in [Blocks -> Nat]
    BY <1>10, AccountExact
  <2>2. OwnershipExact'
    BY <2>0, OwnershipKept
  <2> QED
    BY <2>1, <2>2
<1>12. \A i \in DOMAIN tab : tab[i] \in Blocks \ free_blocks'
  <2>1. \A i \in DOMAIN tab : tab[i] \in Elems(pre) \cup Elems(new)
    BY <1>4 DEF Elems
  <2> QED
    BY <1>2, <1>4, <1>10, <2>1
<1> QED
  BY <1>4, <1>6, <1>10, <1>11, <1>12 DEF tab

-----------------------------------------------------------------------------
(* The index after a prefill and after a release *)

IndexTypeOK ==
    /\ DOMAIN hash_to_block \subseteq Seq(Tokens)
    /\ \A h \in DOMAIN hash_to_block : hash_to_block[h] \in Blocks
    /\ DOMAIN block_hash_info \subseteq Blocks
    /\ \A b \in DOMAIN block_hash_info : block_hash_info[b] \in Seq(Tokens)

\* Registering the whole blocks of a history in an injective table of held
\* blocks keeps hash and block paired, whatever was registered before.
LEMMA RegisterKeepsIndex ==
    ASSUME TypeOK, IndexConsistent,
           NEW h \in Seq(Tokens), NEW tab \in Seq(Blocks),
           Len(h) \div BlockSize <= Len(tab),
           \A i, j \in DOMAIN tab : tab[i] = tab[j] => i = j,
           \A i \in DOMAIN tab : tab[i] \in Blocks \ free_blocks',
           free_blocks' \subseteq free_blocks,
           RegisterPrefix(tab, h)
    PROVE  IndexTypeOK' /\ IndexConsistent'
<1> DEFINE New == Unregistered(tab, h)
           Key(i) == BlockPrefix(h, i)
<1>1. Len(h) \div BlockSize \in Nat /\ Len(tab) \in Nat /\ DOMAIN tab = 1 .. Len(tab)
  BY BlocksNeededBounds
<1>2. \A i \in New : /\ i \in 1 .. (Len(h) \div BlockSize)
                      /\ i \in DOMAIN tab
                      /\ tab[i] \notin DOMAIN block_hash_info
  BY <1>1 DEF Unregistered
<1>3. \A i \in New : Key(i) \in Seq(Tokens)
  BY <1>2, PrefixesDiffer
<1>4. \A i, j \in New : Key(i) = Key(j) => i = j
  BY <1>2, PrefixesDiffer
<1>5. \A i, j \in New : tab[i] = tab[j] => i = j
  BY <1>2
<1>6. \A i \in New : tab[i] \in Blocks \ free_blocks'
  BY <1>2
<1> HIDE DEF New, Key
<1>7. /\ hash_to_block' =
          [g \in DOMAIN hash_to_block \cup {Key(i) : i \in New} |->
              IF \E i \in New : g = Key(i)
              THEN tab[CHOOSE i \in New : g = Key(i)]
              ELSE hash_to_block[g]]
      /\ block_hash_info' =
          [b \in DOMAIN block_hash_info \cup {tab[i] : i \in New} |->
              IF \E i \in New : b = tab[i]
              THEN Key(CHOOSE i \in New : b = tab[i])
              ELSE block_hash_info[b]]
  BY DEF RegisterPrefix, New, Key
<1>8. /\ DOMAIN hash_to_block' = DOMAIN hash_to_block \cup {Key(i) : i \in New}
      /\ DOMAIN block_hash_info' = DOMAIN block_hash_info \cup {tab[i] : i \in New}
  BY <1>7
<1>9. ASSUME NEW i \in New
      PROVE  /\ Key(i) \in DOMAIN hash_to_block' /\ hash_to_block'[Key(i)] = tab[i]
             /\ tab[i] \in DOMAIN block_hash_info' /\ block_hash_info'[tab[i]] = Key(i)
  <2>1. Key(i) \in DOMAIN hash_to_block' /\ tab[i] \in DOMAIN block_hash_info'
    BY <1>8
  <2>2. (CHOOSE j \in New : Key(i) = Key(j)) = i
    BY <1>4
  <2>3. (CHOOSE j \in New : tab[i] = tab[j]) = i
    BY <1>5
  <2>4. hash_to_block'[Key(i)] = tab[CHOOSE j \in New : Key(i) = Key(j)]
    BY <1>7, <2>1
  <2>5. block_hash_info'[tab[i]] = Key(CHOOSE j \in New : tab[i] = tab[j])
    BY <1>7, <2>1
  <2> QED
    BY <2>1, <2>2, <2>3, <2>4, <2>5
<1>10. ASSUME NEW g \in DOMAIN hash_to_block', \A i \in New : g # Key(i)
       PROVE  g \in DOMAIN hash_to_block /\ hash_to_block'[g] = hash_to_block[g]
  BY <1>7, <1>8, <1>10
<1>11. ASSUME NEW b \in DOMAIN block_hash_info', \A i \in New : b # tab[i]
       PROVE  b \in DOMAIN block_hash_info /\ block_hash_info'[b] = block_hash_info[b]
  BY <1>7, <1>8, <1>11
<1>12. ASSUME NEW g \in DOMAIN hash_to_block'
       PROVE  /\ g \in Seq(Tokens)
              /\ hash_to_block'[g] \in Blocks
              /\ hash_to_block'[g] \in DOMAIN block_hash_info'
              /\ block_hash_info'[hash_to_block'[g]] = g
  <2>1. CASE \E i \in New : g = Key(i)
    BY <1>3, <1>6, <1>9, <2>1
  <2>2. CASE \A i \in New : g # Key(i)
    <3>1. /\ g \in Seq(Tokens) /\ hash_to_block'[g] = hash_to_block[g]
          /\ hash_to_block[g] \in Blocks
          /\ hash_to_block[g] \in DOMAIN block_hash_info
          /\ block_hash_info[hash_to_block[g]] = g
      BY <1>10, <2>2 DEF TypeOK, IndexConsistent
    <3>2. hash_to_block[g] \in DOMAIN block_hash_info'
      BY <1>8, <3>1
    <3>3. \A i \in New : hash_to_block[g] # tab[i]
      BY <1>2, <3>1
    <3> QED
      BY <1>11, <3>1, <3>2, <3>3
  <2> QED
    BY <2>1, <2>2
<1>13. ASSUME NEW b \in DOMAIN block_hash_info'
       PROVE  b \in Blocks /\ b \notin free_blocks' /\ block_hash_info'[b] \in Seq(Tokens)
  <2>1. CASE \E i \in New : b = tab[i]
    BY <1>3, <1>6, <1>9, <2>1
  <2>2. CASE \A i \in New : b # tab[i]
    BY <1>11, <2>2 DEF TypeOK, IndexConsistent
  <2> QED
    BY <2>1, <2>2
<1> QED
  BY <1>12, <1>13 DEF IndexTypeOK, IndexConsistent

\* Releasing the tables of V takes the entries of the dropped blocks with it.
LEMMA UnindexKeepsIndex ==
    ASSUME TypeOK, IndexConsistent, NEW V,
           free_blocks' \subseteq Available(V), Unindex(V)
    PROVE  IndexTypeOK' /\ IndexConsistent'
<1>1. /\ DOMAIN block_hash_info' = DOMAIN block_hash_info \ Dropped(V)
      /\ \A b \in DOMAIN block_hash_info' : block_hash_info'[b] = block_hash_info[b]
      /\ DOMAIN hash_to_block' =
            {g \in DOMAIN hash_to_block : hash_to_block[g] \notin Dropped(V)}
      /\ \A g \in DOMAIN hash_to_block' : hash_to_block'[g] = hash_to_block[g]
  BY DEF Unindex
<1>2. IndexTypeOK'
  BY <1>1 DEF IndexTypeOK, TypeOK
<1>3. \A g \in DOMAIN hash_to_block' :
         /\ hash_to_block'[g] \in DOMAIN block_hash_info'
         /\ block_hash_info'[hash_to_block'[g]] = g
  BY <1>1 DEF IndexConsistent
<1>4. \A b \in DOMAIN block_hash_info' : b \notin free_blocks'
  BY <1>1 DEF IndexConsistent, Available
<1> QED
  BY <1>2, <1>3, <1>4 DEF IndexConsistent

\* Nothing registered, nothing freed.
LEMMA IndexUntouched ==
    ASSUME TypeOK, IndexConsistent, UNCHANGED indexVars, free_blocks' \subseteq free_blocks
    PROVE  IndexTypeOK' /\ IndexConsistent'
BY DEF TypeOK, IndexTypeOK, IndexConsistent, indexVars

-----------------------------------------------------------------------------
(* Types of what a call writes *)

\* reserve() always ends with enough blocks for n tokens.
LEMMA MissingBounds ==
    ASSUME NEW tab \in Seq(Blocks), NEW n \in Nat
    PROVE  Missing(tab, n) \in Nat /\ n \div BlockSize <= Len(tab) + Missing(tab, n)
<1>1. Len(tab) \in Nat
  OBVIOUS
<1>2. BlocksNeeded(n) \in Nat /\ n \div BlockSize \in Nat /\ n \div BlockSize <= BlocksNeeded(n)
  BY BlocksNeededBounds
<1>3. Missing(tab, n) = IF BlocksNeeded(n) > Len(tab) THEN BlocksNeeded(n) - Len(tab) ELSE 0
  BY DEF Missing
<1> QED
  BY <1>1, <1>2, <1>3

\* A forward pass writes cells.
LEMMA WrittenType ==
    ASSUME TypeOK, NEW tab, NEW a \in Adapters, NEW h \in Seq(Tokens),
           NEW from \in Nat, from >= 1, NEW to \in Nat, to <= Len(h)
    PROVE  Written(tab, a, h, from, to) \in [Blocks -> [Slots -> Cells]]
<1>1. ASSUME NEW p \in from .. to PROVE Cell(a, h, p) \in Cells
  <2>1. SubSeq(h, 1, p) \in Seq(Tokens)
    OBVIOUS
  <2> QED
    BY <2>1 DEF Cell, Cells
<1>2. ASSUME NEW b \in Blocks, NEW k \in Slots
      PROVE  (IF \E p \in from .. to : BlockAt(tab, p) = b /\ SlotAt(p) = k
              THEN Cell(a, h, CHOOSE p \in from .. to : BlockAt(tab, p) = b /\ SlotAt(p) = k)
              ELSE kv[b][k]) \in Cells
  <2>1. kv[b][k] \in Cells
    BY DEF TypeOK
  <2> DEFINE Hits(p) == BlockAt(tab, p) = b /\ SlotAt(p) = k
  <2>2. CASE \E p \in from .. to : Hits(p)
    <3> HIDE DEF Hits
    <3>1. (CHOOSE p \in from .. to : Hits(p)) \in from .. to
      BY <2>2
    <3>2. Cell(a, h, CHOOSE p \in from .. to : Hits(p)) \in Cells
      BY <1>1, <3>1
    <3> QED
      BY <2>2, <3>2 DEF Hits
  <2> QED
    BY <2>1, <2>2
<1> QED
  BY <1>2 DEF Written

\* A function on 1 .. n is a sequence.
LEMMA FunctionsAreSequences ==
    ASSUME NEW S, NEW n \in Nat, NEW f \in [1 .. n -> S]
    PROVE  f \in Seq(S)
OBVIOUS

\* The two ways a freed block shows up: in the pool and in a snapshot.
LEMMA StaleBlockType == StaleBlock \in [Slots -> Cells]
BY DEF StaleBlock, Cells

\* The cells of the blocks given back keep their type (kv_cache.py:110-119).
LEMMA PoolWithoutType ==
    ASSUME TypeOK, NEW V
    PROVE  PoolWithout(V) \in [Blocks -> [Slots -> Cells]]
BY StaleBlockType DEF PoolWithout, TypeOK

\* What preemption leaves of the sequences of V.
LEMMA EvictTypes ==
    ASSUME TypeOK, NEW V \in SUBSET Seqs, NEW extra \in Nat, Evict(V, extra)
    PROVE  /\ place' \in [Seqs -> {"absent", "live", "swapped"}]
           /\ swapped_kv' \in [Seqs -> Seq([Slots -> Cells])]
           /\ swapped_context_len' \in [Seqs -> Nat]
           /\ prompt' \in [Seqs -> Seq(Tokens)]
           /\ adapter' \in [Seqs -> Adapters]
           /\ \A s \in Seqs : IF s \in V THEN place'[s] # "live" ELSE place'[s] = place[s]
<1> USE DEF TypeOK
<1>1. CASE EnableSwap
  <2>1. ASSUME NEW s \in Seqs
        PROVE  Snapshot(block_table[s]) \o [i \in 1 .. extra |-> StaleBlock] \in Seq([Slots -> Cells])
    <3>1. Snapshot(block_table[s]) \in Seq([Slots -> Cells])
      <4>1. /\ block_table[s] \in Seq(Blocks) /\ Len(block_table[s]) \in Nat
            /\ DOMAIN block_table[s] = 1 .. Len(block_table[s])
        OBVIOUS
      <4>2. Snapshot(block_table[s]) \in [1 .. Len(block_table[s]) -> [Slots -> Cells]]
        BY <4>1 DEF Snapshot
      <4> QED
        BY <4>1, <4>2, FunctionsAreSequences
    <3>2. [i \in 1 .. extra |-> StaleBlock] \in Seq([Slots -> Cells])
      BY StaleBlockType, FunctionsAreSequences
    <3> QED
      BY <3>1, <3>2
  <2>2. /\ swapped_kv' = [s \in Seqs |->
                IF s \in V THEN Snapshot(block_table[s]) \o [i \in 1 .. extra |-> StaleBlock]
                ELSE swapped_kv[s]]
        /\ swapped_context_len' =
                [s \in Seqs |-> IF s \in V THEN context_len[s] ELSE swapped_context_len[s]]
        /\ place' = [s \in Seqs |-> IF s \in V THEN "swapped" ELSE place[s]]
        /\ prompt' = prompt /\ adapter' = adapter
    BY <1>1 DEF Evict
  <2>3. swapped_kv' \in [Seqs -> Seq([Slots -> Cells])]
    BY <2>1, <2>2
  <2> QED
    BY <2>2, <2>3
<1>2. CASE ~EnableSwap
  <2>1. /\ place' = [s \in Seqs |-> IF s \in V THEN "absent" ELSE place[s]]
        /\ prompt' = [s \in Seqs |-> IF s \in V THEN <<>> ELSE prompt[s]]
        /\ adapter' = [s \in Seqs |-> IF s \in V THEN BaseModel ELSE adapter[s]]
        /\ swapped_kv' = swapped_kv /\ swapped_context_len' = swapped_context_len
    BY <1>2 DEF Evict, swapVars
  <2> QED
    BY <2>1, AdaptersAssumption
<1> QED
  BY <1>1, <1>2

-----------------------------------------------------------------------------
(* One lemma per action *)

\* A sequence that is not in the cache has no blocks of its own.
LEMMA IdleTable ==
    ASSUME IInv, ~raised
    PROVE  /\ TypeOK /\ OwnershipExact /\ IndexConsistent /\ lost = {}
           /\ \A s \in Seqs : place[s] # "live" =>
                  block_table[s] = <<>> /\ Elems(block_table[s]) = {}
BY DEF IInv, LostByException, IdleHoldNothing, Elems

\* A prefill over the matched blocks.
LEMMA StartPrefillKeeps ==
    ASSUME IInv, NEW s \in Seqs, NEW p \in Prompts, NEW a \in Adapters, NEW n \in 1 .. MaxLen,
           StartPrefill(s, p, a, n)
    PROVE  IInv'
<1> DEFINE matched == MatchedBlocks(p)
           start   == Len(matched) * BlockSize
           upto    == start + n
<1>1. /\ TypeOK /\ OwnershipExact /\ IndexConsistent /\ lost = {} /\ lost' = {} /\ ~raised
      /\ raised' = raised
      /\ Elems(block_table[s]) = {} /\ IdleHoldNothing
  BY IdleTable DEF IInv, StartPrefill
<1>2. /\ p \in Seq(Tokens) /\ Len(p) >= 1 /\ Len(p) \in Nat
      /\ n \in Nat /\ BlockSize \in Nat
  BY PromptsAssumption, SizesAssumption
<1>3. /\ MatchLen(p) \in Nat
      /\ MatchLen(p) <= Len(p) \div BlockSize
      /\ matched \in Seq(Blocks) /\ Len(matched) = MatchLen(p)
      /\ \A i \in 1 .. MatchLen(p) : matched[i] \notin free_blocks
      /\ \A i, j \in 1 .. MatchLen(p) : matched[i] = matched[j] => i = j
  BY <1>1, <1>2, MatchedBlocksOwned
<1>4. start \in Nat /\ upto \in Nat /\ upto <= Len(p)
  <2>1. start \in Nat
    BY <1>2, <1>3
  <2>2. start <= Len(p)
    BY <1>2, <1>3, WholeBlocksFit
  <2>3. IF EnableChunking THEN n <= Len(p) - start ELSE n = Len(p) - start
    BY DEF StartPrefill
  <2> HIDE DEF start
  <2> QED
    BY <1>2, <2>1, <2>2, <2>3
<1> HIDE DEF matched, start
<1>5. Missing(matched, upto) \in Nat /\ upto \div BlockSize <= Len(matched) + Missing(matched, upto)
  BY <1>3, <1>4, MissingBounds
<1>6. PICK new \in Fresh(Missing(matched, upto)) :
         LET tab == matched \o new IN
         /\ Account({}, Elems(matched), Elems(new))
         /\ place' = [place EXCEPT ![s] = "live"]
         /\ block_table' = [block_table EXCEPT ![s] = tab]
         /\ context_len' = [context_len EXCEPT ![s] = upto]
         /\ kv' = Written(tab, a, p, start + 1, upto)
         /\ prompt' = [prompt EXCEPT ![s] = p]
         /\ adapter' = [adapter EXCEPT ![s] = a]
         /\ IF upto = Len(p)
            THEN FinishPrefill(s, tab, p)
            ELSE UNCHANGED <<output, indexVars>>
  BY DEF StartPrefill, matched, start
<1> DEFINE tab == matched \o new
<1>7. Elems(matched) \in SUBSET (Blocks \ free_blocks) /\ DOMAIN matched = 1 .. MatchLen(p)
  BY <1>3 DEF Elems
<1>8. /\ OwnershipExact'
      /\ free_blocks' \subseteq free_blocks
      /\ ref_counts' \in [Blocks -> Nat]
      /\ block_table' \in [Seqs -> Seq(Blocks)]
      /\ tab \in Seq(Blocks)
      /\ Len(tab) = Len(matched) + Missing(matched, upto)
      /\ \A i, j \in DOMAIN tab : tab[i] = tab[j] => i = j
      /\ \A i \in DOMAIN tab : tab[i] \in Blocks \ free_blocks'
  <2>1. Grows(s, matched, Missing(matched, upto), new, Elems(matched))
    BY <1>1, <1>3, <1>5, <1>6, <1>7 DEF Grows
  <2> QED
    BY <1>1, <2>1, TableGrows
<1> HIDE DEF tab
<1>9. IndexTypeOK' /\ IndexConsistent' /\ output' \in [Seqs -> Seq(Tokens)]
  <2>1. CASE upto = Len(p)
    <3>1. RegisterPrefix(tab, p) /\ \E t \in Tokens : output' = [output EXCEPT ![s] = <<t>>]
      BY <1>6, <2>1 DEF FinishPrefill, tab
    <3>2. IndexTypeOK' /\ IndexConsistent'
      BY <1>1, <1>2, <1>5, <1>8, <2>1, <3>1, RegisterKeepsIndex
    <3> QED
      BY <1>1, <3>1, <3>2 DEF TypeOK
  <2>2. CASE upto # Len(p)
    <3>1. UNCHANGED indexVars /\ output' = output
      BY <1>6, <2>2
    <3> QED
      BY <1>1, <1>8, <3>1, IndexUntouched DEF TypeOK
  <2> QED
    BY <2>1, <2>2
<1>10. kv' \in [Blocks -> [Slots -> Cells]]
  <2>1. kv' = Written(tab, a, p, start + 1, upto) /\ start + 1 \in Nat /\ start + 1 >= 1
    BY <1>4, <1>6 DEF tab
  <2> HIDE DEF upto
  <2> QED
    BY <1>1, <1>2, <1>4, <2>1, WrittenType
<1>11. TypeOK'
  <2>1. UNCHANGED swapVars
    BY DEF StartPrefill
  <2> QED
    BY <1>1, <1>2, <1>4, <1>6, <1>8, <1>9, <1>10, <2>1 DEF TypeOK, IndexTypeOK, swapVars
<1>12. IdleHoldNothing'
  BY <1>1, <1>6 DEF IdleHoldNothing, TypeOK
<1> QED
  BY <1>1, <1>8, <1>9, <1>11, <1>12 DEF IInv, LostByException

\* A sequence that extends its own table.
LEMMA OwnTableGrows ==
    ASSUME TypeOK, OwnershipExact, lost = {}, lost' = {},
           NEW s \in Seqs, NEW n \in Nat, NEW new \in Fresh(n),
           Account({}, {}, Elems(new)),
           block_table' = [block_table EXCEPT ![s] = block_table[s] \o new]
    PROVE  /\ OwnershipExact'
           /\ free_blocks' \subseteq free_blocks
           /\ ref_counts' \in [Blocks -> Nat]
           /\ block_table' \in [Seqs -> Seq(Blocks)]
           /\ block_table[s] \o new \in Seq(Blocks)
           /\ Len(block_table[s] \o new) = Len(block_table[s]) + n
           /\ \A i, j \in DOMAIN (block_table[s] \o new) :
                  (block_table[s] \o new)[i] = (block_table[s] \o new)[j] => i = j
           /\ \A i \in DOMAIN (block_table[s] \o new) :
                  (block_table[s] \o new)[i] \in Blocks \ free_blocks'
<1>1. block_table[s] \in Seq(Blocks)
  BY DEF TypeOK
<1>2. \A i, j \in DOMAIN block_table[s] : block_table[s][i] = block_table[s][j] => i = j
  BY DEF OwnershipExact, TablesInjective
<1>3. Grows(s, block_table[s], n, new, {})
  BY <1>1, <1>2 DEF Grows
<1> QED
  BY <1>3, TableGrows

\* The next chunk of a prompt.
LEMMA ContinuePrefillKeeps ==
    ASSUME IInv, NEW s \in Seqs, NEW n \in 1 .. MaxLen, ContinuePrefill(s, n)
    PROVE  IInv'
<1> DEFINE to == context_len[s] + n
           p  == prompt[s]
<1>1. /\ TypeOK /\ OwnershipExact /\ IndexConsistent /\ lost = {} /\ lost' = {} /\ ~raised
      /\ IdleHoldNothing /\ raised' = raised /\ place[s] = "live"
  BY IdleTable DEF IInv, ContinuePrefill
<1>2. /\ p \in Seq(Tokens) /\ block_table[s] \in Seq(Blocks) /\ adapter[s] \in Adapters
      /\ n \in Nat /\ context_len[s] \in Nat /\ to \in Nat /\ to <= Len(p)
  BY <1>1, SizesAssumption DEF TypeOK, ContinuePrefill
<1>3. /\ Missing(block_table[s], to) \in Nat
      /\ to \div BlockSize <= Len(block_table[s]) + Missing(block_table[s], to)
  BY <1>2, MissingBounds
<1>4. PICK new \in Fresh(Missing(block_table[s], to)) :
         LET tab == block_table[s] \o new IN
         /\ Account({}, {}, Elems(new))
         /\ block_table' = [block_table EXCEPT ![s] = tab]
         /\ context_len' = [context_len EXCEPT ![s] = to]
         /\ kv' = Written(tab, adapter[s], p, context_len[s] + 1, to)
         /\ IF to = Len(p) THEN FinishPrefill(s, tab, p) ELSE UNCHANGED <<output, indexVars>>
  BY DEF ContinuePrefill
<1> DEFINE tab == block_table[s] \o new
<1>5. /\ OwnershipExact'
      /\ free_blocks' \subseteq free_blocks
      /\ ref_counts' \in [Blocks -> Nat]
      /\ block_table' \in [Seqs -> Seq(Blocks)]
      /\ tab \in Seq(Blocks)
      /\ Len(tab) = Len(block_table[s]) + Missing(block_table[s], to)
      /\ \A i, j \in DOMAIN tab : tab[i] = tab[j] => i = j
      /\ \A i \in DOMAIN tab : tab[i] \in Blocks \ free_blocks'
  BY <1>1, <1>3, <1>4, OwnTableGrows
<1> HIDE DEF tab, to
<1>6. IndexTypeOK' /\ IndexConsistent' /\ output' \in [Seqs -> Seq(Tokens)]
  <2>1. CASE to = Len(p)
    <3>1. RegisterPrefix(tab, p) /\ \E t \in Tokens : output' = [output EXCEPT ![s] = <<t>>]
      BY <1>4, <2>1 DEF FinishPrefill, tab, to
    <3> HIDE DEF p
    <3>2. IndexTypeOK' /\ IndexConsistent'
      BY <1>1, <1>2, <1>3, <1>5, <2>1, <3>1, RegisterKeepsIndex
    <3> QED
      BY <1>1, <3>1, <3>2 DEF TypeOK
  <2>2. CASE to # Len(p)
    <3>1. UNCHANGED indexVars /\ output' = output
      BY <1>4, <2>2 DEF to
    <3> QED
      BY <1>1, <1>5, <3>1, IndexUntouched DEF TypeOK
  <2> QED
    BY <2>1, <2>2
<1>7. kv' \in [Blocks -> [Slots -> Cells]]
  <2>1. /\ kv' = Written(tab, adapter[s], p, context_len[s] + 1, to)
        /\ context_len[s] + 1 \in Nat /\ context_len[s] + 1 >= 1
    BY <1>2, <1>4 DEF tab, to
  <2> HIDE DEF p
  <2> QED
    BY <1>1, <1>2, <2>1, WrittenType
<1>8. TypeOK'
  <2>1. UNCHANGED <<place, swapVars, prompt, adapter>>
    BY DEF ContinuePrefill
  <2>2. context_len' = [context_len EXCEPT ![s] = to]
    BY <1>4 DEF to
  <2> QED
    BY <1>1, <1>2, <1>5, <1>6, <1>7, <2>1, <2>2 DEF TypeOK, IndexTypeOK, swapVars
<1>9. IdleHoldNothing'
  <2>1. block_table' = [block_table EXCEPT ![s] = tab] /\ place' = place
    BY <1>4 DEF tab, ContinuePrefill
  <2> QED
    BY <1>1, <2>1 DEF IdleHoldNothing, TypeOK
<1> QED
  BY <1>1, <1>5, <1>6, <1>8, <1>9 DEF IInv, LostByException

\* A prefill that runs out of blocks keeps those it got.
LEMMA PrefillOOMKeeps ==
    ASSUME IInv, NEW s \in Seqs, NEW p \in Prompts, NEW a \in Adapters, PrefillOOM(s, p, a)
    PROVE  IInv'
<1> DEFINE matched == MatchedBlocks(p)
           n       == Cardinality(free_blocks)
<1>1. /\ TypeOK /\ OwnershipExact /\ IndexConsistent /\ lost = {} /\ lost' = {} /\ ~raised
      /\ raised' = TRUE /\ Elems(block_table[s]) = {} /\ IdleHoldNothing
  BY IdleTable DEF IInv, PrefillOOM
<1>2. p \in Seq(Tokens) /\ Len(p) >= 1 /\ BlockSize \in Nat
  BY PromptsAssumption, SizesAssumption
<1>3. /\ MatchLen(p) \in Nat
      /\ matched \in Seq(Blocks) /\ Len(matched) = MatchLen(p)
      /\ \A i \in 1 .. MatchLen(p) : matched[i] \notin free_blocks
      /\ \A i, j \in 1 .. MatchLen(p) : matched[i] = matched[j] => i = j
  BY <1>1, <1>2, MatchedBlocksOwned
<1>4. n \in Nat
  <2>1. IsFiniteSet(free_blocks)
    BY <1>1, BlocksAssumption, FS_Subset DEF TypeOK
  <2> QED
    BY <2>1, FS_CardinalityType
<1> HIDE DEF matched, n
<1>5. PICK new \in Fresh(n) :
         /\ Account({}, Elems(matched), Elems(new))
         /\ block_table' = [block_table EXCEPT ![s] = matched \o new]
  BY DEF PrefillOOM, matched, n
<1>6. Elems(matched) \in SUBSET (Blocks \ free_blocks) /\ DOMAIN matched = 1 .. MatchLen(p)
  BY <1>3 DEF Elems
<1>7. /\ OwnershipExact' /\ free_blocks' \subseteq free_blocks
      /\ ref_counts' \in [Blocks -> Nat] /\ block_table' \in [Seqs -> Seq(Blocks)]
  <2>1. Grows(s, matched, n, new, Elems(matched))
    BY <1>1, <1>3, <1>4, <1>5, <1>6 DEF Grows
  <2> QED
    BY <1>1, <2>1, TableGrows
<1>8. /\ place' = [place EXCEPT ![s] = "live"]
      /\ context_len' = [context_len EXCEPT ![s] = Len(matched) * BlockSize]
      /\ prompt' = [prompt EXCEPT ![s] = p]
      /\ adapter' = [adapter EXCEPT ![s] = a]
      /\ UNCHANGED <<kv, indexVars, swapVars, output>>
  BY DEF PrefillOOM, matched
<1>9. IndexTypeOK' /\ IndexConsistent'
  BY <1>1, <1>7, <1>8, IndexUntouched
<1>10. TypeOK'
  <2>1. Len(matched) * BlockSize \in Nat
    BY <1>2, <1>3
  <2> QED
    BY <1>1, <1>2, <1>7, <1>8, <1>9, <2>1 DEF TypeOK, IndexTypeOK, swapVars
<1>11. IdleHoldNothing'
  BY <1>1, <1>5, <1>8 DEF IdleHoldNothing, TypeOK
<1> QED
  BY <1>1, <1>7, <1>9, <1>10, <1>11 DEF IInv, LostByException

\* The same in the middle of a prompt.
LEMMA ContinuePrefillOOMKeeps ==
    ASSUME IInv, NEW s \in Seqs, NEW n \in 1 .. MaxLen, ContinuePrefillOOM(s, n)
    PROVE  IInv'
<1> DEFINE m == Cardinality(free_blocks)
<1>1. /\ TypeOK /\ OwnershipExact /\ IndexConsistent /\ lost = {} /\ lost' = {} /\ ~raised
      /\ raised' = TRUE /\ IdleHoldNothing /\ place[s] = "live"
  BY IdleTable DEF IInv, ContinuePrefillOOM
<1>2. m \in Nat
  <2>1. IsFiniteSet(free_blocks)
    BY <1>1, BlocksAssumption, FS_Subset DEF TypeOK
  <2> QED
    BY <2>1, FS_CardinalityType
<1> HIDE DEF m
<1>3. PICK new \in Fresh(m) :
         /\ Account({}, {}, Elems(new))
         /\ block_table' = [block_table EXCEPT ![s] = block_table[s] \o new]
  BY DEF ContinuePrefillOOM, m
<1>4. /\ OwnershipExact' /\ free_blocks' \subseteq free_blocks
      /\ ref_counts' \in [Blocks -> Nat] /\ block_table' \in [Seqs -> Seq(Blocks)]
  BY <1>1, <1>2, <1>3, OwnTableGrows
<1>5. UNCHANGED <<place, context_len, kv, indexVars, swapVars, seqVars>>
  BY DEF ContinuePrefillOOM
<1>6. IndexTypeOK' /\ IndexConsistent'
  BY <1>1, <1>4, <1>5, IndexUntouched
<1>7. TypeOK'
  BY <1>1, <1>4, <1>5, <1>6 DEF TypeOK, IndexTypeOK, swapVars, seqVars
<1>8. IdleHoldNothing'
  BY <1>1, <1>3, <1>5 DEF IdleHoldNothing, TypeOK
<1> QED
  BY <1>1, <1>4, <1>6, <1>7, <1>8 DEF IInv, LostByException

\* A speculation that fits.
LEMMA SpeculateKeeps ==
    ASSUME IInv, NEW s \in Seqs, NEW draft \in Drafts, NEW t \in Tokens,
           NEW matched \in 0 .. Len(draft), NEW kept \in 1 .. matched + 1,
           Speculate(s, draft, matched, t, kept)
    PROVE  IInv'
<1> DEFINE k    == Len(draft)
           ctx  == context_len[s]
           upto == ctx + 1 + k
           accepted == Append(SubSeq(draft, 1, matched), t)
<1>1. /\ TypeOK /\ OwnershipExact /\ IndexConsistent /\ lost = {} /\ lost' = {} /\ ~raised
      /\ raised' = raised /\ IdleHoldNothing /\ place[s] = "live"
  BY IdleTable DEF IInv, Speculate, Decodable
<1>2. draft \in Seq(Tokens) /\ k \in Nat
  <2>1. PICK m \in 1 .. MaxDraft : draft \in [1 .. m -> Tokens]
    BY DEF Drafts
  <2>2. m \in Nat
    BY SizesAssumption
  <2>3. draft \in Seq(Tokens)
    BY <2>1, <2>2, FunctionsAreSequences
  <2> QED
    BY <2>3
<1>3. /\ Hist(s) \in Seq(Tokens) /\ ctx \in Nat /\ ctx + 1 = Len(Hist(s))
      /\ block_table[s] \in Seq(Blocks) /\ adapter[s] \in Adapters
  BY <1>1 DEF TypeOK, Hist, Speculate, Decodable
<1>4. /\ Hist(s) \o draft \in Seq(Tokens) /\ Len(Hist(s) \o draft) = upto /\ upto \in Nat
  <2>1. \A x, y \in Seq(Tokens) : x \o y \in Seq(Tokens) /\ Len(x \o y) = Len(x) + Len(y)
    OBVIOUS
  <2>2. Hist(s) \o draft \in Seq(Tokens) /\ Len(Hist(s) \o draft) = Len(Hist(s)) + k
    BY <1>2, <1>3, <2>1
  <2> DEFINE g == Hist(s) \o draft
             m == Len(Hist(s))
  <2>3. g \in Seq(Tokens) /\ Len(g) = m + k /\ ctx + 1 = m /\ ctx \in Nat /\ k \in Nat
    BY <1>2, <1>3, <2>2
  <2> HIDE DEF g, m, k, ctx
  <2>4. g \in Seq(Tokens) /\ Len(g) = upto /\ upto \in Nat
    BY <2>3
  <2> QED
    BY <2>4 DEF g
<1>5. Missing(block_table[s], upto) \in Nat
  BY <1>3, <1>4, MissingBounds
<1> HIDE DEF upto
<1>6. PICK new \in Fresh(Missing(block_table[s], upto)) :
         LET tab == block_table[s] \o new IN
         /\ Account({}, {}, Elems(new))
         /\ block_table' = [block_table EXCEPT ![s] = tab]
         /\ kv' = Written(tab, adapter[s], Hist(s) \o draft, ctx + 1, upto)
  BY DEF Speculate, upto
<1>7. /\ OwnershipExact' /\ free_blocks' \subseteq free_blocks
      /\ ref_counts' \in [Blocks -> Nat] /\ block_table' \in [Seqs -> Seq(Blocks)]
  BY <1>1, <1>5, <1>6, OwnTableGrows
<1>8. /\ context_len' = [context_len EXCEPT ![s] = ctx + 1 + k - Rollback(k, matched, kept)]
      /\ output' = [output EXCEPT ![s] = output[s] \o SubSeq(accepted, 1, kept)]
      /\ UNCHANGED <<place, indexVars, swapVars, prompt, adapter>>
  BY DEF Speculate
<1>9. IndexTypeOK' /\ IndexConsistent'
  BY <1>1, <1>7, <1>8, IndexUntouched
<1>10. kv' \in [Blocks -> [Slots -> Cells]]
  <2>1. ctx + 1 \in Nat /\ ctx + 1 >= 1
    BY <1>3
  <2> DEFINE h == Hist(s) \o draft
             from == ctx + 1
             tab == block_table[s] \o new
  <2>2. /\ h \in Seq(Tokens) /\ upto \in Nat /\ upto <= Len(h) /\ from \in Nat /\ from >= 1
        /\ kv' = Written(tab, adapter[s], h, from, upto)
    BY <1>4, <1>6, <2>1
  <2> HIDE DEF h, from, tab
  <2> QED
    BY <1>1, <1>3, <2>2, WrittenType
<1>11. ctx + 1 + k - Rollback(k, matched, kept) \in Nat
  BY <1>2, <1>3 DEF Rollback
<1>12. SubSeq(accepted, 1, kept) \in Seq(Tokens)
  <2>1. SubSeq(draft, 1, matched) \in Seq(Tokens) /\ Len(SubSeq(draft, 1, matched)) = matched
    BY <1>2
  <2>2. accepted \in Seq(Tokens) /\ Len(accepted) = matched + 1
    BY <2>1
  <2> HIDE DEF accepted
  <2>3. kept \in Nat /\ kept <= Len(accepted)
    BY <1>2, <2>2
  <2> QED
    BY <2>2, <2>3
<1>13. TypeOK'
  <2> DEFINE c == ctx + 1 + k - Rollback(k, matched, kept)
             o == SubSeq(accepted, 1, kept)
  <2>1. c \in Nat /\ o \in Seq(Tokens)
    BY <1>11, <1>12
  <2>2. context_len' = [context_len EXCEPT ![s] = c] /\ output' = [output EXCEPT ![s] = output[s] \o o]
    BY <1>8
  <2> HIDE DEF c, o
  <2>3. context_len' \in [Seqs -> Nat] /\ output' \in [Seqs -> Seq(Tokens)]
    BY <1>1, <2>1, <2>2 DEF TypeOK
  <2> QED
    BY <1>1, <1>7, <1>8, <1>9, <1>10, <2>3 DEF TypeOK, IndexTypeOK, swapVars
<1>14. IdleHoldNothing'
  <2>1. place' = place /\ \A r \in Seqs \ {s} : block_table'[r] = block_table[r]
    BY <1>1, <1>6, <1>8 DEF TypeOK
  <2> QED
    BY <1>1, <2>1 DEF IdleHoldNothing
<1> QED
  BY <1>1, <1>7, <1>9, <1>13, <1>14 DEF IInv, LostByException

\* Sequences that let go of their tables and take nothing.
LEMMA TablesReleased ==
    ASSUME TypeOK, OwnershipExact, IndexConsistent, lost = {}, lost' = {},
           NEW V \in SUBSET Seqs, Account(V, {}, {}), Unindex(V),
           block_table' = [r \in Seqs |-> IF r \in V THEN <<>> ELSE block_table[r]]
    PROVE  /\ OwnershipExact' /\ IndexTypeOK' /\ IndexConsistent'
           /\ free_blocks' \subseteq Blocks /\ ref_counts' \in [Blocks -> Nat]
           /\ block_table' \in [Seqs -> Seq(Blocks)]
<1> DEFINE Owner == [b \in {} |-> CHOOSE r \in Seqs : TRUE]
<1>1. \A r \in Seqs : block_table'[r] = IF r \in V THEN <<>> ELSE block_table[r]
  OBVIOUS
<1>2. block_table' \in [Seqs -> Seq(Blocks)]
  BY DEF TypeOK
<1>3. TablesInjective'
  <2> SUFFICES ASSUME NEW r \in Seqs
               PROVE  \A i, j \in DOMAIN block_table'[r] :
                          block_table'[r][i] = block_table'[r][j] => i = j
    BY DEF TablesInjective
  <2>1. CASE r \in V
    BY <1>1, <2>1
  <2>2. CASE r \notin V
    BY <1>1, <2>2 DEF OwnershipExact, TablesInjective
  <2> QED
    BY <2>1, <2>2
<1>4. ASSUME NEW r \in Seqs
      PROVE  Elems(block_table'[r]) =
                (IF r \in V THEN {} ELSE Elems(block_table[r])) \cup {b \in {} \cup {} : Owner[b] = r}
  <2>1. CASE r \in V
    BY <1>1, <2>1 DEF Elems
  <2>2. CASE r \notin V
    BY <1>1, <2>2
  <2> QED
    BY <2>1, <2>2
<1>5. Moves(V, {}, {}, Owner)
  BY <1>3, <1>4 DEF Moves
<1>6. OwnershipExact'
  BY <1>5, OwnershipKept
<1> DEFINE Shared == {}
           Taken  == {}
<1>7. /\ Shared \in SUBSET (Blocks \ free_blocks) /\ Taken \in SUBSET Available(V)
      /\ Account(V, Shared, Taken) /\ Shared = {}
  OBVIOUS
<1>8. free_blocks' \subseteq Blocks /\ ref_counts' \in [Blocks -> Nat]
  <2> HIDE DEF Shared, Taken
  <2> QED
    BY <1>7, AccountExact
<1>9. free_blocks' \subseteq Available(V)
  BY DEF Account
<1> QED
  BY <1>2, <1>6, <1>8, <1>9, UnindexKeepsIndex

\* A finished or cancelled sequence is freed.
LEMMA FreeSequenceKeeps ==
    ASSUME IInv, NEW s \in Seqs, FreeSequence(s)
    PROVE  IInv'
<1>1. /\ TypeOK /\ OwnershipExact /\ IndexConsistent /\ lost = {} /\ lost' = {} /\ ~raised
      /\ raised' = raised /\ IdleHoldNothing
  BY IdleTable DEF IInv, FreeSequence
<1>2. /\ Account({s}, {}, {}) /\ Unindex({s})
      /\ block_table' = [r \in Seqs |-> IF r \in {s} THEN <<>> ELSE block_table[r]]
  BY <1>1 DEF FreeSequence, TypeOK
<1>3. /\ OwnershipExact' /\ IndexTypeOK' /\ IndexConsistent'
      /\ free_blocks' \subseteq Blocks /\ ref_counts' \in [Blocks -> Nat]
      /\ block_table' \in [Seqs -> Seq(Blocks)]
  BY <1>1, <1>2, TablesReleased
<1>4. kv' \in [Blocks -> [Slots -> Cells]]
  BY <1>1, PoolWithoutType DEF FreeSequence
<1>5. /\ place' = [place EXCEPT ![s] = "absent"]
      /\ context_len' = [context_len EXCEPT ![s] = 0]
      /\ prompt' = [prompt EXCEPT ![s] = <<>>]
      /\ output' = [output EXCEPT ![s] = <<>>]
      /\ adapter' = [adapter EXCEPT ![s] = BaseModel]
      /\ UNCHANGED swapVars
  BY DEF FreeSequence
<1>6. TypeOK'
  BY <1>1, <1>3, <1>4, <1>5, AdaptersAssumption DEF TypeOK, IndexTypeOK, swapVars
<1>7. IdleHoldNothing'
  BY <1>1, <1>2, <1>5 DEF IdleHoldNothing, TypeOK
<1> QED
  BY <1>1, <1>3, <1>6, <1>7 DEF IInv, LostByException

\* A speculation that runs out of blocks preempts its own sequence.
LEMMA SpeculateOOMKeeps ==
    ASSUME IInv, NEW s \in Seqs, NEW k \in 1 .. MaxDraft, SpeculateOOM(s, k)
    PROVE  IInv'
<1> DEFINE extra == Cardinality(free_blocks)
<1>1. /\ TypeOK /\ OwnershipExact /\ IndexConsistent /\ lost = {} /\ lost' = {} /\ ~raised
      /\ raised' = raised /\ IdleHoldNothing
  BY IdleTable DEF IInv, SpeculateOOM
<1>2. extra \in Nat
  <2>1. IsFiniteSet(free_blocks)
    BY <1>1, BlocksAssumption, FS_Subset DEF TypeOK
  <2> QED
    BY <2>1, FS_CardinalityType
<1>3. /\ Account({s}, {}, {}) /\ Unindex({s}) /\ Evict({s}, extra)
      /\ block_table' = [r \in Seqs |-> IF r \in {s} THEN <<>> ELSE block_table[r]]
  BY <1>1 DEF SpeculateOOM, TypeOK
<1>4. /\ OwnershipExact' /\ IndexTypeOK' /\ IndexConsistent'
      /\ free_blocks' \subseteq Blocks /\ ref_counts' \in [Blocks -> Nat]
      /\ block_table' \in [Seqs -> Seq(Blocks)]
  BY <1>1, <1>3, TablesReleased
<1>5. kv' \in [Blocks -> [Slots -> Cells]]
  BY <1>1, PoolWithoutType DEF SpeculateOOM
<1> HIDE DEF extra
<1>6. /\ place' \in [Seqs -> {"absent", "live", "swapped"}]
      /\ swapped_kv' \in [Seqs -> Seq([Slots -> Cells])]
      /\ swapped_context_len' \in [Seqs -> Nat]
      /\ prompt' \in [Seqs -> Seq(Tokens)]
      /\ adapter' \in [Seqs -> Adapters]
      /\ \A r \in Seqs : IF r \in {s} THEN place'[r] # "live" ELSE place'[r] = place[r]
  <2> DEFINE V == {s}
  <2>1. V \in SUBSET Seqs /\ Evict(V, extra)
    BY <1>3
  <2> HIDE DEF V
  <2>2. /\ place' \in [Seqs -> {"absent", "live", "swapped"}]
        /\ swapped_kv' \in [Seqs -> Seq([Slots -> Cells])]
        /\ swapped_context_len' \in [Seqs -> Nat]
        /\ prompt' \in [Seqs -> Seq(Tokens)]
        /\ adapter' \in [Seqs -> Adapters]
        /\ \A r \in Seqs : IF r \in V THEN place'[r] # "live" ELSE place'[r] = place[r]
    BY <1>1, <1>2, <2>1, EvictTypes
  <2> QED
    BY <2>2 DEF V
<1>7. context_len' \in [Seqs -> Nat] /\ output' \in [Seqs -> Seq(Tokens)]
  BY <1>1 DEF SpeculateOOM, KeptOutput, TypeOK
<1>8. TypeOK'
  BY <1>1, <1>4, <1>5, <1>6, <1>7 DEF TypeOK, IndexTypeOK
<1>9. IdleHoldNothing'
  BY <1>1, <1>3, <1>6 DEF IdleHoldNothing
<1> QED
  BY <1>1, <1>4, <1>8, <1>9 DEF IInv, LostByException

\* A snapshot that fits comes back into fresh blocks.
LEMMA SwapInKeeps ==
    ASSUME IInv, NEW s \in Seqs, SwapIn(s)
    PROVE  IInv'
<1> DEFINE n == BlocksNeeded(swapped_context_len[s])
<1>1. /\ TypeOK /\ OwnershipExact /\ IndexConsistent /\ lost = {} /\ lost' = {} /\ ~raised
      /\ raised' = raised /\ IdleHoldNothing /\ block_table[s] = <<>>
  BY IdleTable DEF IInv, SwapIn
<1>2. swapped_context_len[s] \in Nat /\ n \in Nat
  BY <1>1, BlocksNeededBounds DEF TypeOK
<1>3. /\ Len(swapped_kv[s]) = n
      /\ swapped_kv[s] \in Seq([Slots -> Cells])
      /\ context_len' = [context_len EXCEPT ![s] = swapped_context_len[s]]
      /\ place' = [place EXCEPT ![s] = "live"]
      /\ swapped_kv' = [swapped_kv EXCEPT ![s] = <<>>]
      /\ swapped_context_len' = [swapped_context_len EXCEPT ![s] = 0]
      /\ UNCHANGED <<indexVars, seqVars>>
  BY <1>1 DEF SwapIn, TypeOK
<1>4. PICK new \in Fresh(n) :
         /\ Account({}, {}, Elems(new))
         /\ block_table' = [block_table EXCEPT ![s] = new]
         /\ kv' = [b \in Blocks |-> IF \E i \in DOMAIN new : new[i] = b
                                    THEN swapped_kv[s][CHOOSE i \in DOMAIN new : new[i] = b]
                                    ELSE kv[b]]
  BY DEF SwapIn
<1> HIDE DEF n
<1>5. new \in [1 .. n -> Blocks] /\ DOMAIN new = 1 .. n /\ new \in Seq(Blocks)
  <2>1. new \in [1 .. n -> Blocks]
    BY <1>1 DEF Fresh, TypeOK
  <2> QED
    BY <1>2, <2>1, FunctionsAreSequences
<1>6. /\ OwnershipExact' /\ free_blocks' \subseteq free_blocks
      /\ ref_counts' \in [Blocks -> Nat] /\ block_table' \in [Seqs -> Seq(Blocks)]
  <2>1. block_table[s] \o new = new
    BY <1>1, <1>5
  <2> QED
    BY <1>1, <1>2, <1>4, <2>1, OwnTableGrows
<1>7. kv' \in [Blocks -> [Slots -> Cells]]
  <2> DEFINE T == [Slots -> Cells]
  <2>1. \A i \in 1 .. n : swapped_kv[s][i] \in T
    BY <1>2, <1>3
  <2>2. \A b \in Blocks : kv[b] \in T
    BY <1>1 DEF TypeOK
  <2> HIDE DEF T
  <2>3. ASSUME NEW b \in Blocks
        PROVE  (IF \E i \in DOMAIN new : new[i] = b
                THEN swapped_kv[s][CHOOSE i \in DOMAIN new : new[i] = b]
                ELSE kv[b]) \in T
    BY <1>5, <2>1, <2>2
  <2>4. kv' \in [Blocks -> T]
    BY <1>4, <2>3
  <2> QED
    BY <2>4 DEF T
<1>8. IndexTypeOK' /\ IndexConsistent'
  BY <1>1, <1>3, <1>6, IndexUntouched
<1>9. TypeOK'
  <2>1. /\ place' \in [Seqs -> {"absent", "live", "swapped"}]
        /\ context_len' \in [Seqs -> Nat] /\ swapped_context_len' \in [Seqs -> Nat]
    BY <1>1, <1>2, <1>3 DEF TypeOK
  <2>2. swapped_kv' \in [Seqs -> Seq([Slots -> Cells])]
    <3> DEFINE T == [Slots -> Cells]
    <3>1. swapped_kv \in [Seqs -> Seq(T)]
      BY <1>1 DEF TypeOK
    <3> HIDE DEF T
    <3>2. swapped_kv' \in [Seqs -> Seq(T)]
      BY <1>3, <3>1
    <3> QED
      BY <3>2 DEF T
  <2>3. /\ prompt' = prompt /\ output' = output /\ adapter' = adapter
        /\ raised' \in BOOLEAN /\ lost' \subseteq Blocks /\ free_blocks' \subseteq Blocks
    BY <1>1, <1>3, <1>6 DEF TypeOK, seqVars
  <2> QED
    BY <1>1, <1>6, <1>7, <1>8, <2>1, <2>2, <2>3 DEF TypeOK, IndexTypeOK
<1>10. IdleHoldNothing'
  BY <1>1, <1>3, <1>4 DEF IdleHoldNothing, TypeOK
<1> QED
  BY <1>1, <1>6, <1>8, <1>9, <1>10 DEF IInv, LostByException

\* One that does not fit costs the blocks it was to go into, and nothing else.
LEMMA SwapInFailsKeeps ==
    ASSUME IInv, NEW s \in Seqs, SwapInFails(s)
    PROVE  IInv'
<1> DEFINE n == BlocksNeeded(swapped_context_len[s])
           V == {}
           Shared == {}
<1>1. /\ TypeOK /\ OwnershipExact /\ IndexConsistent /\ lost = {} /\ ~raised
      /\ raised' = TRUE /\ IdleHoldNothing /\ block_table[s] = <<>>
  BY IdleTable DEF IInv, SwapInFails
<1>2. /\ place' = [place EXCEPT ![s] = "absent"]
      /\ swapped_kv' = [swapped_kv EXCEPT ![s] = <<>>]
      /\ swapped_context_len' = [swapped_context_len EXCEPT ![s] = 0]
      /\ prompt' = [prompt EXCEPT ![s] = <<>>]
      /\ output' = [output EXCEPT ![s] = <<>>]
      /\ adapter' = [adapter EXCEPT ![s] = BaseModel]
      /\ UNCHANGED <<block_table, context_len, kv, indexVars>>
  BY DEF SwapInFails
<1>3. PICK new \in Fresh(n) : Account({}, {}, Elems(new)) /\ lost' = Elems(new)
  BY DEF SwapInFails
<1> DEFINE Taken == Elems(new)
<1>4. Dropped({}) = {} /\ Available({}) = free_blocks /\ free_blocks \subseteq Blocks
  BY <1>1, NothingDropped DEF TypeOK
<1>5. Taken \subseteq free_blocks
  BY DEF Fresh, Elems
<1>6. /\ V \in SUBSET Seqs /\ Shared \in SUBSET (Blocks \ free_blocks) /\ V = {}
      /\ Taken \in SUBSET Available(V) /\ Account(V, Shared, Taken)
      /\ Shared = {} /\ (V = {} \/ Shared = {}) /\ lost' = Taken
      /\ free_blocks' \subseteq free_blocks
  BY <1>3, <1>4, <1>5 DEF Account
<1> HIDE DEF V, Shared, Taken
<1>7. /\ free_blocks' \subseteq Blocks
      /\ ref_counts' \in [Blocks -> Nat]
      /\ FreeListExact'
      /\ \A b \in Blocks : ref_counts'[b] =
             IF b \in Taken THEN 1
             ELSE IF b \in Shared THEN Cardinality(Holders(b)) + 1
             ELSE Cardinality(Holders(b) \ V)
  <2>1. /\ TypeOK /\ OwnershipExact /\ lost = {}
        /\ V \in SUBSET Seqs /\ Shared \in SUBSET (Blocks \ free_blocks) /\ (V = {} \/ Shared = {})
        /\ Taken \in SUBSET Available(V) /\ Account(V, Shared, Taken)
    BY <1>1, <1>6
  <2> QED
    BY ONLY <2>1, AccountExact
<1>8. RefCountsExact'
  <2> SUFFICES ASSUME NEW b \in Blocks
               PROVE  ref_counts'[b] = Cardinality(Holders(b)') + (IF b \in lost' THEN 1 ELSE 0)
    BY DEF RefCountsExact
  <2>1. Holders(b)' = Holders(b)
    BY <1>2 DEF Holders, BlocksOf
  <2>2. Cardinality(Holders(b)) \in Nat /\ Cardinality(Holders(b)) = 0 <=> Holders(b) = {}
    BY HoldersFinite
  <2>3. CASE b \in Taken
    <3>1. Holders(b) \subseteq V
      BY <1>1, <1>6, <2>3, AvailableHeldByV
    <3>2. Cardinality(Holders(b)) = 0
      <4>1. Holders(b) = {}
        BY <1>6, <3>1
      <4> QED
        BY <4>1, FS_EmptySet
    <3> QED
      BY <1>6, <1>7, <2>1, <2>3, <3>2
  <2>4. CASE b \notin Taken
    <3>1. Holders(b) \ V = Holders(b) /\ b \notin Shared
      BY <1>6
    <3> QED
      BY <1>6, <1>7, <2>1, <2>2, <2>4, <3>1
  <2> QED
    BY <2>3, <2>4
<1>9. TablesInjective'
  BY <1>1, <1>2 DEF OwnershipExact, TablesInjective
<1>10. IndexTypeOK' /\ IndexConsistent'
  BY <1>1, <1>2, <1>6, IndexUntouched
<1>11. TypeOK'
  <2>1. lost' \subseteq Blocks /\ raised' \in BOOLEAN
    BY <1>1, <1>4, <1>5, <1>6 DEF Taken
  <2>2. /\ place' \in [Seqs -> {"absent", "live", "swapped"}]
        /\ swapped_context_len' \in [Seqs -> Nat]
        /\ prompt' \in [Seqs -> Seq(Tokens)] /\ output' \in [Seqs -> Seq(Tokens)]
        /\ adapter' \in [Seqs -> Adapters]
    BY <1>1, <1>2, AdaptersAssumption DEF TypeOK
  <2>3. swapped_kv' \in [Seqs -> Seq([Slots -> Cells])]
    <3> DEFINE T == [Slots -> Cells]
    <3>1. swapped_kv \in [Seqs -> Seq(T)]
      BY <1>1 DEF TypeOK
    <3> HIDE DEF T
    <3>2. swapped_kv' \in [Seqs -> Seq(T)]
      BY <1>2, <3>1
    <3> QED
      BY <3>2 DEF T
  <2>4. block_table' = block_table /\ context_len' = context_len /\ kv' = kv
    BY <1>2
  <2> QED
    BY <1>1, <1>7, <1>10, <2>1, <2>2, <2>3, <2>4 DEF TypeOK, IndexTypeOK
<1>12. IdleHoldNothing'
  BY <1>1, <1>2 DEF IdleHoldNothing, TypeOK
<1> QED
  BY <1>1, <1>7, <1>8, <1>9, <1>10, <1>11, <1>12 DEF IInv, LostByException, OwnershipExact

\* Cancelled while swapped out: the pool does not notice.
LEMMA DiscardSwappedKeeps ==
    ASSUME IInv, NEW s \in Seqs, DiscardSwapped(s)
    PROVE  IInv'
<1>1. /\ TypeOK /\ OwnershipExact /\ IndexConsistent /\ lost = {} /\ ~raised
      /\ IdleHoldNothing /\ block_table[s] = <<>>
  BY IdleTable DEF IInv, DiscardSwapped
<1>2. UNCHANGED <<free_blocks, ref_counts, lost, block_table, context_len, kv, indexVars, raised>>
  BY DEF DiscardSwapped, allocVars
<1>3. /\ place' = [place EXCEPT ![s] = "absent"]
      /\ swapped_kv' = [swapped_kv EXCEPT ![s] = <<>>]
      /\ swapped_context_len' = [swapped_context_len EXCEPT ![s] = 0]
      /\ prompt' = [prompt EXCEPT ![s] = <<>>]
      /\ output' = [output EXCEPT ![s] = <<>>]
      /\ adapter' = [adapter EXCEPT ![s] = BaseModel]
  BY DEF DiscardSwapped
<1>4. OwnershipExact'
  BY <1>1, <1>2 DEF OwnershipExact, TablesInjective, RefCountsExact, FreeListExact, Holders, BlocksOf
<1>5. IndexTypeOK' /\ IndexConsistent'
  BY <1>1, <1>2, IndexUntouched
<1>6. TypeOK'
  BY <1>1, <1>2, <1>3, <1>5, AdaptersAssumption DEF TypeOK, IndexTypeOK
<1>7. IdleHoldNothing'
  BY <1>1, <1>2, <1>3 DEF IdleHoldNothing, TypeOK
<1> QED
  BY <1>1, <1>2, <1>4, <1>5, <1>6, <1>7 DEF IInv, LostByException

\* Scoring a beam only takes entries out of the index.
LEMMA BeamScoreKeeps ==
    ASSUME IInv, NEW h \in Prompts, BeamScore(h)
    PROVE  IInv'
<1>1. UNCHANGED <<allocVars, tableVars, kv, block_hash_info, swapVars, seqVars, raised>>
  BY DEF BeamScore
<1>2. /\ DOMAIN hash_to_block' \subseteq DOMAIN hash_to_block
      /\ \A g \in DOMAIN hash_to_block' : hash_to_block'[g] = hash_to_block[g]
  BY DEF BeamScore
<1>3. OwnershipExact'
  BY <1>1 DEF IInv, OwnershipExact, TablesInjective, RefCountsExact, FreeListExact, Holders,
              BlocksOf, allocVars, tableVars
<1>4. IndexConsistent'
  BY <1>1, <1>2 DEF IInv, IndexConsistent, allocVars
<1>5. TypeOK'
  BY <1>1, <1>2 DEF IInv, TypeOK, allocVars, tableVars, swapVars, seqVars
<1>6. IdleHoldNothing' /\ LostByException'
  BY <1>1 DEF IInv, IdleHoldNothing, LostByException, allocVars, tableVars
<1> QED
  BY <1>3, <1>4, <1>5, <1>6 DEF IInv

\* Preemption of V, and a block for every sequence of K that needs one, which
\* may be a block V has just let go.
LEMMA TablesGranted ==
    ASSUME TypeOK, OwnershipExact, lost = {}, lost' = {},
           NEW V \in SUBSET Seqs, NEW N \in SUBSET (Seqs \ V), NEW g \in Grants(N, Available(V)),
           Account(V, {}, {g[s] : s \in DOMAIN g}),
           block_table' = [s \in Seqs |-> IF s \in V THEN <<>>
                                          ELSE IF s \in DOMAIN g THEN Append(block_table[s], g[s])
                                          ELSE block_table[s]]
    PROVE  /\ OwnershipExact'
           /\ free_blocks' \subseteq Blocks /\ ref_counts' \in [Blocks -> Nat]
           /\ block_table' \in [Seqs -> Seq(Blocks)]
<1> DEFINE Taken  == {g[s] : s \in DOMAIN g}
           Shared == {}
           Owner  == [b \in Taken \cup Shared |-> CHOOSE s \in N : g[s] = b]
<1>1. /\ DOMAIN g = N /\ \A s \in N : g[s] \in Available(V)
      /\ \A s, t \in N : g[s] = g[t] => s = t
  BY DEF Grants
<1>2. Available(V) \subseteq Blocks
  BY DEF Available, Dropped, TypeOK
<1>3. \A s \in Seqs \ V : \A i \in DOMAIN block_table[s] : block_table[s][i] \notin Available(V)
  BY AvailableHeldByV DEF Holders, BlocksOf
<1>4. ASSUME NEW s \in Seqs
      PROVE  block_table[s] \in Seq(Blocks) /\ Len(block_table[s]) \in Nat
             /\ DOMAIN block_table[s] = 1 .. Len(block_table[s])
  BY DEF TypeOK
<1>5. ASSUME NEW s \in V
      PROVE  block_table'[s] = <<>> /\ Elems(block_table'[s]) = {}
  BY DEF Elems
<1>6. ASSUME NEW s \in Seqs \ V, s \notin N PROVE block_table'[s] = block_table[s]
  BY <1>1, <1>6
<1>7. ASSUME NEW s \in N
      PROVE  /\ block_table'[s] \in Seq(Blocks)
             /\ Elems(block_table'[s]) = Elems(block_table[s]) \cup {g[s]}
             /\ \A i, j \in DOMAIN block_table'[s] : block_table'[s][i] = block_table'[s][j] => i = j
  <2> DEFINE t == block_table[s]
             u == block_table'[s]
             l == Len(t)
  <2>1. t \in Seq(Blocks) /\ l \in Nat /\ DOMAIN t = 1 .. l /\ g[s] \in Blocks
    BY <1>1, <1>2, <1>4
  <2>2. u = Append(t, g[s])
    BY <1>1
  <2>3. \A i \in 1 .. l : t[i] # g[s]
    BY <1>1, <1>3, <2>1
  <2>4. \A i, j \in 1 .. l : t[i] = t[j] => i = j
    BY <2>1 DEF OwnershipExact, TablesInjective
  <2> HIDE DEF t, u
  <2>5. /\ u \in Seq(Blocks) /\ DOMAIN u = 1 .. l + 1
        /\ \A i \in 1 .. l : u[i] = t[i]
        /\ u[l + 1] = g[s]
    BY <2>1, <2>2 DEF l
  <2> HIDE DEF l
  <2>6. \A i \in 1 .. l + 1 : i \in 1 .. l \/ i = l + 1
    BY <2>1
  <2>7. \A i, j \in DOMAIN u : u[i] = u[j] => i = j
    BY <2>3, <2>4, <2>5, <2>6
  <2>8. Elems(u) = Elems(t) \cup {g[s]}
    <3>1. l + 1 \in DOMAIN u /\ 1 .. l \subseteq DOMAIN u
      BY <2>1, <2>5
    <3> QED
      BY <2>1, <2>5, <2>6, <3>1 DEF Elems
  <2> QED
    BY <2>5, <2>7, <2>8 DEF t, u
<1>8. block_table' \in [Seqs -> Seq(Blocks)]
  <2> SUFFICES ASSUME NEW s \in Seqs PROVE block_table'[s] \in Seq(Blocks)
    OBVIOUS
  <2>1. CASE s \in V
    BY <1>5, <2>1
  <2>2. CASE s \in N
    BY <1>7, <2>2
  <2>3. CASE s \in Seqs \ V /\ s \notin N
    BY <1>4, <1>6, <2>3
  <2> QED
    BY <2>1, <2>2, <2>3
<1>9. TablesInjective'
  <2> SUFFICES ASSUME NEW r \in Seqs
               PROVE  \A i, j \in DOMAIN block_table'[r] :
                          block_table'[r][i] = block_table'[r][j] => i = j
    BY DEF TablesInjective
  <2>1. CASE r \in V
    BY <1>5, <2>1
  <2>2. CASE r \in N
    BY <1>7, <2>2
  <2>3. CASE r \in Seqs \ V /\ r \notin N
    <3>1. block_table'[r] = block_table[r]
      BY <1>6, <2>3
    <3>2. \A i, j \in DOMAIN block_table[r] : block_table[r][i] = block_table[r][j] => i = j
      BY DEF OwnershipExact, TablesInjective
    <3> QED
      BY ONLY <3>1, <3>2
  <2> QED
    BY <2>1, <2>2, <2>3
<1>10. ASSUME NEW b \in Taken PROVE Owner[b] \in N /\ g[Owner[b]] = b
  BY <1>1
<1>11. ASSUME NEW s \in N PROVE {b \in Taken \cup Shared : Owner[b] = s} = {g[s]}
  BY <1>1, <1>10
<1>12. ASSUME NEW r \in Seqs
       PROVE  Elems(block_table'[r]) =
                 (IF r \in V THEN {} ELSE Elems(block_table[r]))
                     \cup {b \in Taken \cup Shared : Owner[b] = r}
  <2>1. CASE r \in N
    BY <1>7, <1>11, <2>1
  <2>2. CASE r \notin N
    <3>1. {b \in Taken \cup Shared : Owner[b] = r} = {}
      <4>1. Taken \cup Shared = Taken
        OBVIOUS
      <4> HIDE DEF Taken, Owner
      <4> QED
        BY <1>10, <2>2, <4>1
    <3> QED
      BY <1>5, <1>6, <2>2, <3>1
  <2> QED
    BY <2>1, <2>2
<1>13. /\ Taken \in SUBSET Available(V) /\ Shared \in SUBSET (Blocks \ free_blocks)
       /\ (V = {} \/ Shared = {}) /\ Account(V, Shared, Taken)
       /\ Owner \in [Taken \cup Shared -> Seqs]
       /\ \A b \in Shared : b \notin Elems(block_table[Owner[b]])
  <2>1. Owner \in [Taken \cup Shared -> Seqs]
    BY <1>10
  <2> QED
    BY <1>1, <2>1
<1> HIDE DEF Taken, Shared, Owner
<1>14. Moves(V, Shared, Taken, Owner)
  BY <1>9, <1>12, <1>13 DEF Moves
<1>15. OwnershipExact'
  BY <1>14, OwnershipKept
<1>16. free_blocks' \subseteq Blocks /\ ref_counts' \in [Blocks -> Nat]
  <2>1. /\ TypeOK /\ OwnershipExact /\ lost = {} /\ V \in SUBSET Seqs
        /\ Taken \in SUBSET Available(V) /\ Shared \in SUBSET (Blocks \ free_blocks)
        /\ (V = {} \/ Shared = {}) /\ Account(V, Shared, Taken)
    BY <1>13
  <2> QED
    BY ONLY <2>1, AccountExact
<1> QED
  BY <1>8, <1>15, <1>16

\* A decode step with the preemptions it takes.
LEMMA DecodeActiveKeeps ==
    ASSUME IInv, NEW K \in SUBSET Seqs, NEW V \in SUBSET (Seqs \ K), DecodeActive(K, V)
    PROVE  IInv'
<1> DEFINE N == NeedBlock(K)
<1>1. /\ TypeOK /\ OwnershipExact /\ IndexConsistent /\ lost = {} /\ lost' = {} /\ ~raised
      /\ raised' = raised /\ IdleHoldNothing
      /\ \A s \in K \cup V : Decodable(s)
  BY IdleTable DEF IInv, DecodeActive
<1>2. V \in SUBSET Seqs /\ N \in SUBSET (Seqs \ V) /\ N \subseteq K
  BY DEF NeedBlock
<1>3. PICK g \in Grants(N, Available(V)) :
         /\ Account(V, {}, {g[s] : s \in DOMAIN g})
         /\ block_table' = [s \in Seqs |-> IF s \in V THEN <<>>
                                           ELSE IF s \in DOMAIN g THEN Append(block_table[s], g[s])
                                           ELSE block_table[s]]
  BY DEF DecodeActive
<1>4. Unindex(V) /\ Evict(V, 0)
  BY DEF DecodeActive
<1> HIDE DEF N
<1>5. /\ OwnershipExact'
      /\ free_blocks' \subseteq Blocks /\ ref_counts' \in [Blocks -> Nat]
      /\ block_table' \in [Seqs -> Seq(Blocks)]
  BY <1>1, <1>2, <1>3, TablesGranted
<1>6. IndexTypeOK' /\ IndexConsistent'
  <2>1. free_blocks' \subseteq Available(V)
    BY <1>3 DEF Account
  <2> QED
    BY <1>1, <1>4, <2>1, UnindexKeepsIndex
<1>7. /\ place' \in [Seqs -> {"absent", "live", "swapped"}]
      /\ swapped_kv' \in [Seqs -> Seq([Slots -> Cells])]
      /\ swapped_context_len' \in [Seqs -> Nat]
      /\ prompt' \in [Seqs -> Seq(Tokens)]
      /\ adapter' \in [Seqs -> Adapters]
      /\ \A s \in Seqs : IF s \in V THEN place'[s] # "live" ELSE place'[s] = place[s]
  BY <1>1, <1>2, <1>4, EvictTypes
<1>8. context_len' \in [Seqs -> Nat]
  <2>1. context_len' = [s \in Seqs |-> IF s \in V THEN 0
                                       ELSE IF s \in K THEN context_len[s] + 1
                                       ELSE context_len[s]]
    BY DEF DecodeActive
  <2> QED
    BY <1>1, <2>1 DEF TypeOK
<1>9. output' \in [Seqs -> Seq(Tokens)]
  <2>1. PICK t \in [K -> Tokens] :
           output' = [s \in Seqs |-> IF s \in K THEN Append(output[s], t[s]) ELSE KeptOutput(s, V)]
    BY DEF DecodeActive
  <2>2. \A s \in Seqs : KeptOutput(s, V) \in Seq(Tokens)
    BY <1>1 DEF KeptOutput, TypeOK
  <2>3. \A s \in K : Append(output[s], t[s]) \in Seq(Tokens)
    BY <1>1 DEF TypeOK
  <2> QED
    BY <2>1, <2>2, <2>3
<1>10. kv' \in [Blocks -> [Slots -> Cells]]
  <2> DEFINE Target(s) == <<BlockAt(block_table'[s], context_len[s] + 1), SlotAt(context_len[s] + 1)>>
             New(s)    == Cell(adapter[s], Hist(s), context_len[s] + 1)
             Value(b, k) == IF \E s \in K : Target(s) = <<b, k>>
                            THEN New(CHOOSE s \in K : Target(s) = <<b, k>>)
                            ELSE PoolWithout(V)[b][k]
  <2>1. kv' = [b \in Blocks |-> [k \in Slots |-> Value(b, k)]]
    BY DEF DecodeActive
  <2>2. ASSUME NEW s \in K PROVE New(s) \in Cells
    <3>1. /\ Hist(s) \in Seq(Tokens) /\ context_len[s] \in Nat /\ adapter[s] \in Adapters
          /\ context_len[s] + 1 = Len(Hist(s))
      BY <1>1 DEF TypeOK, Hist, Decodable
    <3> DEFINE h == Hist(s)
               c == context_len[s] + 1
    <3>2. h \in Seq(Tokens) /\ c \in Nat /\ c = Len(h)
      BY <3>1
    <3> HIDE DEF h, c
    <3>3. SubSeq(h, 1, c) \in Seq(Tokens)
      BY <3>2
    <3> QED
      BY <3>1, <3>3 DEF Cell, Cells, h, c
  <2> HIDE DEF New, Target
  <2>3. ASSUME NEW b \in Blocks, NEW k \in Slots PROVE Value(b, k) \in Cells
    <3>1. PoolWithout(V)[b][k] \in Cells
      BY <1>1, PoolWithoutType
    <3>2. CASE \E s \in K : Target(s) = <<b, k>>
      <4>1. (CHOOSE s \in K : Target(s) = <<b, k>>) \in K
        BY <3>2
      <4> QED
        BY <2>2, <3>2, <4>1
    <3> QED
      BY <3>1, <3>2
  <2> HIDE DEF Value
  <2> QED
    BY <2>1, <2>3
<1>11. TypeOK'
  BY <1>1, <1>5, <1>6, <1>7, <1>8, <1>9, <1>10 DEF TypeOK, IndexTypeOK
<1>12. IdleHoldNothing'
  <2> SUFFICES ASSUME NEW s \in Seqs, place'[s] # "live" PROVE block_table'[s] = <<>>
    BY DEF IdleHoldNothing
  <2>1. CASE s \in V
    BY <1>3, <2>1
  <2>2. CASE s \notin V
    <3>1. place[s] # "live" /\ s \notin K
      BY <1>1, <1>7, <2>2 DEF Decodable
    <3>2. s \notin DOMAIN g
      BY <1>2, <3>1 DEF Grants
    <3> QED
      BY <1>1, <1>3, <2>2, <3>1, <3>2 DEF IdleHoldNothing
  <2> QED
    BY <2>1, <2>2
<1> QED
  BY <1>1, <1>5, <1>6, <1>11, <1>12 DEF IInv, LostByException

-----------------------------------------------------------------------------
(* The theorems *)

\* An empty pool with an empty index.
LEMMA InitIInv == Init => IInv
<1> SUFFICES ASSUME Init PROVE IInv
  OBVIOUS
<1>1. TypeOK
  <2>1. DOMAIN hash_to_block = {} /\ DOMAIN block_hash_info = {}
    BY DEF Init
  <2>2. /\ place \in [Seqs -> {"absent", "live", "swapped"}]
        /\ block_table \in [Seqs -> Seq(Blocks)]
        /\ context_len \in [Seqs -> Nat] /\ swapped_context_len \in [Seqs -> Nat]
        /\ ref_counts \in [Blocks -> Nat]
        /\ prompt \in [Seqs -> Seq(Tokens)] /\ output \in [Seqs -> Seq(Tokens)]
        /\ adapter \in [Seqs -> Adapters]
    BY AdaptersAssumption DEF Init
  <2>3. kv \in [Blocks -> [Slots -> Cells]]
    BY StaleBlockType DEF Init
  <2>4. swapped_kv \in [Seqs -> Seq([Slots -> Cells])]
    <3> DEFINE T == [Slots -> Cells]
    <3>1. <<>> \in Seq(T)
      OBVIOUS
    <3> HIDE DEF T
    <3>2. swapped_kv \in [Seqs -> Seq(T)]
      BY <3>1 DEF Init
    <3> QED
      BY <3>2 DEF T
  <2>5. free_blocks \subseteq Blocks /\ lost \subseteq Blocks /\ raised \in BOOLEAN
    BY DEF Init
  <2> QED
    BY <2>1, <2>2, <2>3, <2>4, <2>5 DEF TypeOK
<1>2. OwnershipExact
  <2>1. \A b \in Blocks : Cardinality(Holders(b)) = 0
    <3>1. \A b \in Blocks : Holders(b) = {}
      BY DEF Init, Holders, BlocksOf
    <3> QED
      BY <3>1, FS_EmptySet
  <2> QED
    BY <2>1 DEF Init, OwnershipExact, TablesInjective, RefCountsExact, FreeListExact
<1> QED
  BY <1>1, <1>2 DEF Init, IInv, IndexConsistent, LostByException, IdleHoldNothing

\* Every step of the cache keeps the invariant.
LEMMA NextIInv == IInv /\ [Next]_vars => IInv'
<1> SUFFICES ASSUME IInv, [Next]_vars PROVE IInv'
  OBVIOUS
<1>1. CASE UNCHANGED vars
  <2> USE <1>1 DEF vars, allocVars, tableVars, indexVars, swapVars, seqVars, IInv
  <2>1. TypeOK'
    BY DEF TypeOK
  <2>2. OwnershipExact'
    BY DEF OwnershipExact, TablesInjective, RefCountsExact, FreeListExact, Holders, BlocksOf
  <2>3. IndexConsistent' /\ LostByException' /\ IdleHoldNothing'
    BY DEF IndexConsistent, LostByException, IdleHoldNothing
  <2> QED
    BY <2>1, <2>2, <2>3
<1>2. CASE \E s \in Seqs, p \in Prompts, a \in Adapters, n \in 1 .. MaxLen : StartPrefill(s, p, a, n)
  BY <1>2, StartPrefillKeeps
<1>3. CASE \E s \in Seqs, n \in 1 .. MaxLen : ContinuePrefill(s, n)
  BY <1>3, ContinuePrefillKeeps
<1>4. CASE \E s \in Seqs, p \in Prompts, a \in Adapters : PrefillOOM(s, p, a)
  BY <1>4, PrefillOOMKeeps
<1>5. CASE \E s \in Seqs, n \in 1 .. MaxLen : ContinuePrefillOOM(s, n)
  BY <1>5, ContinuePrefillOOMKeeps
<1>6. CASE \E K \in SUBSET Seqs : \E V \in SUBSET (Seqs \ K) : DecodeActive(K, V)
  BY <1>6, DecodeActiveKeeps
<1>7. CASE \E s \in Seqs, draft \in Drafts, t \in Tokens :
             \E matched \in 0 .. Len(draft) : \E kept \in 1 .. matched + 1 :
                 Speculate(s, draft, matched, t, kept)
  BY <1>7, SpeculateKeeps
<1>8. CASE \E s \in Seqs, k \in 1 .. MaxDraft : SpeculateOOM(s, k)
  BY <1>8, SpeculateOOMKeeps
<1>9. CASE \E s \in Seqs : FreeSequence(s)
  BY <1>9, FreeSequenceKeeps
<1>10. CASE \E s \in Seqs : SwapIn(s)
  BY <1>10, SwapInKeeps
<1>11. CASE \E s \in Seqs : SwapInFails(s)
  BY <1>11, SwapInFailsKeeps
<1>12. CASE \E s \in Seqs : DiscardSwapped(s)
  BY <1>12, DiscardSwappedKeeps
<1>13. CASE \E h \in Prompts : BeamScore(h)
  BY <1>13, BeamScoreKeeps
<1> QED
  BY <1>1, <1>2, <1>3, <1>4, <1>5, <1>6, <1>7, <1>8, <1>9, <1>10, <1>11, <1>12, <1>13 DEF Next

\* Hence the invariant holds throughout.
LEMMA Inductive == Spec => []IInv
BY InitIInv, NextIInv, PTL DEF Spec

\* The bookkeeping of BlockAllocator and KVCacheManager keeps its types.
THEOREM TypeCorrect == Spec => []TypeOK
<1>1. IInv => TypeOK
  BY DEF IInv
<1> QED
  BY <1>1, Inductive, PTL

\* No block of any pool ever leaks or is handed out while it is still held: the
\* reference counts are the tables, and the free list is what they leave.
THEOREM Ownership == Spec => []OwnershipExact
<1>1. IInv => OwnershipExact
  BY DEF IInv
<1> QED
  BY <1>1, Inductive, PTL

\* match_prefix() only ever follows the index to a block somebody holds, and to
\* the block registered for that very prefix.
THEOREM IndexSound == Spec => []IndexConsistent
<1>1. IInv => IndexConsistent
  BY DEF IInv
<1> QED
  BY <1>1, Inductive, PTL

=============================================================================
