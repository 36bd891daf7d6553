--------------------------- MODULE KVCacheContents ---------------------------
(***************************************************************************)
(* Proofs about what the blocks of KVCache hold, for every value of its    *)
(* constants: writes go to blocks one sequence holds alone, the index      *)
(* leads to the K/V it promises, every sequence reads the K/V of its own   *)
(* history, and the whole cache implements SequenceStore.                  *)
(***************************************************************************)
EXTENDS KVCacheProofs

-----------------------------------------------------------------------------
(* The inductive invariant *)

\* The i-th block of a table holds positions up to i * BlockSize: a registered
\* block is full, its holder goes on behind it.
FullWhenRegistered ==
    \A s \in Seqs : \A i \in DOMAIN block_table[s] :
        block_table[s][i] \in DOMAIN block_hash_info => i * BlockSize <= context_len[s]

\* Two sequences only ever share a block through the index.
SharedThroughIndex ==
    \A s, r \in Seqs : \A i \in DOMAIN block_table[s], j \in DOMAIN block_table[r] :
        s # r /\ block_table[s][i] = block_table[r][j] =>
            block_table[s][i] \in DOMAIN block_hash_info

\* A table has room for the positions of its sequence.
TablesCover == \A s \in Seqs : context_len[s] <= Len(block_table[s]) * BlockSize

WInv == FullWhenRegistered /\ SharedThroughIndex /\ TablesCover

\* The slots of a registered block hold the last tokens of its prefix.
RegisteredCells ==
    \A b \in DOMAIN block_hash_info : \A k \in Slots :
        kv[b][k].prefix =
            SubSeq(block_hash_info[b], 1, Len(block_hash_info[b]) - BlockSize + k + 1)

\* A run of n cached positions of a sequence, read block by block: its own.
Coherent(blocks, a, h, n) ==
    /\ n <= Len(h) /\ n <= Len(blocks) * BlockSize
    /\ \A p \in 1 .. n : BlockAt(blocks, p)[SlotAt(p)] = Cell(a, h, p)

\* What a sequence reads through its table, and what it has put aside.
LiveCells ==
    \A s \in Seqs : Coherent(Snapshot(block_table[s]), adapter[s], Hist(s), context_len[s])
SavedCells ==
    \A s \in Seqs : Coherent(swapped_kv[s], adapter[s], Hist(s), swapped_context_len[s])

\* Where a sequence is in its life: nothing is cached, saved or known of one
\* that is not there, and only a whole prompt has an output.
Phases ==
    \A s \in Seqs :
        /\ place[s] # "live" => context_len[s] = 0
        /\ place[s] # "swapped" => swapped_context_len[s] = 0
        /\ place[s] = "absent" => prompt[s] = <<>> /\ output[s] = <<>>
        /\ place[s] = "live" /\ context_len[s] < Len(prompt[s]) => output[s] = <<>>
        /\ place[s] = "swapped" => swapped_context_len[s] >= Len(prompt[s])

CInv == RegisteredCells /\ LiveCells /\ SavedCells /\ Phases

-----------------------------------------------------------------------------
(* Arithmetic of positions *)

\* The block of position p in a table, counted from 1: BlockAt(tab, p) = tab[IndexOf(p)].
IndexOf(p) == (p - 1) \div BlockSize + 1

\* A position is a block and a slot.
LEMMA PositionSplits ==
    ASSUME NEW p \in Nat, p >= 1
    PROVE  /\ IndexOf(p) \in Nat /\ IndexOf(p) >= 1
           /\ SlotAt(p) \in Slots /\ SlotAt(p) \in Nat /\ SlotAt(p) < BlockSize
           /\ (IndexOf(p) - 1) * BlockSize \in Nat
           /\ p = (IndexOf(p) - 1) * BlockSize + SlotAt(p) + 1
           /\ \A tab : BlockAt(tab, p) = tab[IndexOf(p)]
<1>1. BlockSize \in Nat /\ BlockSize > 0 /\ p - 1 \in Nat
  BY SizesAssumption
<1> DEFINE q == (p - 1) \div BlockSize
           r == (p - 1) % BlockSize
<1>2. q \in Nat /\ r \in Nat /\ r < BlockSize /\ p - 1 = BlockSize * q + r
  BY <1>1, SMTT(30)
<1>3. IndexOf(p) = q + 1 /\ SlotAt(p) = r /\ \A tab : BlockAt(tab, p) = tab[q + 1]
  BY DEF IndexOf, SlotAt, BlockAt
<1> HIDE DEF q, r
<1>4. (IndexOf(p) - 1) * BlockSize = BlockSize * q
  <2>1. IndexOf(p) - 1 = q
    BY <1>2, <1>3
  <2>2. q * BlockSize = BlockSize * q
    BY <1>1, <1>2
  <2> QED
    BY <2>1, <2>2
<1>5. BlockSize * q \in Nat
  BY <1>1, <1>2
<1> QED
  BY <1>1, <1>2, <1>3, <1>4, <1>5 DEF Slots

\* Different positions never meet in one slot of one table entry.
LEMMA PositionsMeet ==
    ASSUME NEW p \in Nat, p >= 1, NEW q \in Nat, q >= 1,
           IndexOf(p) = IndexOf(q), SlotAt(p) = SlotAt(q)
    PROVE  p = q
<1>1. /\ p = (IndexOf(p) - 1) * BlockSize + SlotAt(p) + 1
      /\ q = (IndexOf(q) - 1) * BlockSize + SlotAt(q) + 1
  BY PositionSplits
<1> QED
  BY <1>1

\* n blocks hold exactly the positions 1 .. n * BlockSize.
LEMMA PositionWithin ==
    ASSUME NEW p \in Nat, p >= 1, NEW n \in Nat
    PROVE  /\ p <= n * BlockSize => IndexOf(p) <= n /\ IndexOf(p) \in 1 .. n
           /\ n * BlockSize < p => IndexOf(p) > n
           /\ p <= IndexOf(p) * BlockSize
<1> DEFINE i == IndexOf(p)
           s == SlotAt(p)
           B == BlockSize
<1>1. /\ i \in Nat /\ i >= 1 /\ s \in Nat /\ s < B /\ B \in Nat
      /\ p = (i - 1) * B + s + 1
  BY PositionSplits, SizesAssumption
<1> HIDE DEF i, s, B
<1>2. \A x, y \in Nat : x <= y => x * B <= y * B
  BY <1>1, SMTT(30)
<1>3. i * B = (i - 1) * B + B /\ i * B \in Nat /\ (i - 1) * B \in Nat /\ n * B \in Nat
  BY <1>1, SMTT(30)
<1>4. p <= i * B /\ p > (i - 1) * B
  BY <1>1, <1>3
<1>5. ASSUME p <= n * B PROVE i <= n
  <2> SUFFICES ASSUME n <= i - 1 PROVE FALSE
    BY <1>1
  <2>1. n * B <= (i - 1) * B
    BY <1>1, <1>2
  <2> QED
    BY <1>3, <1>4, <1>5, <2>1
<1>6. ASSUME n * B < p PROVE i > n
  <2> SUFFICES ASSUME i <= n PROVE FALSE
    BY <1>1
  <2>1. i * B <= n * B
    BY <1>1, <1>2
  <2> QED
    BY <1>3, <1>4, <1>6, <2>1
<1> QED
  BY <1>1, <1>4, <1>5, <1>6 DEF i, B

\* The table reserve() leaves has room for every position it was asked for.
LEMMA ReservedRoom ==
    ASSUME NEW tab \in Seq(Blocks), NEW n \in Nat
    PROVE  /\ n <= BlocksNeeded(n) * BlockSize
           /\ n <= (Len(tab) + Missing(tab, n)) * BlockSize
<1> DEFINE B == BlockSize
           q == BlocksNeeded(n)
           m == Len(tab) + Missing(tab, n)
<1>1. B \in Nat /\ B > 0
  BY SizesAssumption
<1>2. q \in Nat /\ n <= q * B
  <2>1. n + B - 1 \in Nat /\ q = (n + B - 1) \div B
    BY <1>1 DEF BlocksNeeded
  <2>2. \A x \in Nat : x \div B \in Nat /\ x % B \in Nat /\ x % B < B /\ x = B * (x \div B) + (x % B)
    BY <1>1, SMTT(30)
  <2> HIDE DEF q, B
  <2>3. q \in Nat /\ n + B - 1 < B * q + B
    <3> DEFINE x == n + B - 1
    <3>1. x \in Nat /\ q = x \div B
      BY <2>1
    <3> HIDE DEF x
    <3>2. q \in Nat /\ x % B \in Nat /\ x % B < B /\ x = B * q + (x % B)
      BY <2>2, <3>1
    <3>3. B * q \in Nat
      BY <1>1, <3>2
    <3>4. q \in Nat /\ x < B * q + B
      BY <1>1, <3>1, <3>2, <3>3
    <3> QED
      BY <3>4 DEF x
  <2>4. B * q = q * B /\ B * q \in Nat
    BY <1>1, <2>3, SMTT(30)
  <2> QED
    BY <1>1, <2>3, <2>4
<1>3. m \in Nat /\ q <= m
  <2>1. Len(tab) \in Nat
    OBVIOUS
  <2>2. Missing(tab, n) = IF q > Len(tab) THEN q - Len(tab) ELSE 0
    BY DEF Missing
  <2> HIDE DEF q
  <2> QED
    BY <1>2, <2>1, <2>2
<1> HIDE DEF q, m, B
<1>4. q * B <= m * B /\ q * B \in Nat /\ m * B \in Nat
  BY <1>1, <1>2, <1>3, SMTT(30)
<1> QED
  BY <1>2, <1>4 DEF q, m, B

-----------------------------------------------------------------------------
(* A forward pass over a table that has grown *)

\* Past the first f positions the blocks of pre are the sequence's alone, and
\* unregistered.
Frontier(s, pre, f) ==
    \A i \in DOMAIN pre :
        \/ i * BlockSize <= f
        \/ Holders(pre[i]) = {s} /\ pre[i] \notin DOMAIN block_hash_info

\* A sequence writes behind what it has cached.
LEMMA OwnFrontier ==
    ASSUME TypeOK, WInv, NEW s \in Seqs
    PROVE  Frontier(s, block_table[s], context_len[s])
<1> SUFFICES ASSUME NEW i \in DOMAIN block_table[s], ~(i * BlockSize <= context_len[s])
             PROVE  /\ Holders(block_table[s][i]) = {s}
                    /\ block_table[s][i] \notin DOMAIN block_hash_info
  BY DEF Frontier
<1>1. block_table[s][i] \notin DOMAIN block_hash_info
  BY DEF WInv, FullWhenRegistered
<1>2. \A r \in Seqs : r # s => block_table[s][i] \notin BlocksOf(r)
  BY <1>1 DEF WInv, SharedThroughIndex, BlocksOf
<1>3. block_table[s][i] \in BlocksOf(s)
  BY DEF BlocksOf
<1> QED
  BY <1>1, <1>2, <1>3 DEF Holders

\* Positions from .. to of history h are computed into a table grown from pre.
Computes(s, pre, n, new, Shared, a, h, from, to) ==
    /\ Grows(s, pre, n, new, Shared)
    /\ from \in Nat /\ from >= 1 /\ to \in Nat
    /\ Frontier(s, pre, from - 1)
    /\ to <= Len(pre \o new) * BlockSize
    /\ kv' = Written(pre \o new, a, h, from, to)

\* The facts about the table itself.
LEMMA GrownTable ==
    ASSUME TypeOK, OwnershipExact, IndexConsistent, NEW s \in Seqs,
           NEW pre, NEW n, NEW new, NEW Shared, Grows(s, pre, n, new, Shared)
    PROVE  LET tab == pre \o new IN
           /\ tab \in Seq(Blocks) /\ Len(tab) = Len(pre) + n /\ Len(pre) \in Nat
           /\ DOMAIN pre = 1 .. Len(pre) /\ DOMAIN tab = 1 .. Len(tab)
           /\ \A i, j \in DOMAIN tab : tab[i] = tab[j] => i = j
           /\ \A i \in DOMAIN pre : i \in DOMAIN tab /\ tab[i] = pre[i]
           /\ \A i \in DOMAIN tab \ DOMAIN pre :
                 /\ tab[i] \in free_blocks /\ tab[i] \in Elems(new)
                 /\ tab[i] \notin DOMAIN block_hash_info
                 /\ \A r \in Seqs : tab[i] \notin BlocksOf(r)
           /\ block_table' = [block_table EXCEPT ![s] = tab]
           /\ block_table'[s] = tab
           /\ \A r \in Seqs : r # s => block_table'[r] = block_table[r]
<1> DEFINE tab == pre \o new
<1>1. /\ tab \in Seq(Blocks) /\ Len(tab) = Len(pre) + n
      /\ \A i, j \in DOMAIN tab : tab[i] = tab[j] => i = j
      /\ block_table' \in [Seqs -> Seq(Blocks)]
  BY TableGrows
<1> USE DEF Grows
<1>2. /\ pre \in Seq(Blocks) /\ Len(pre) \in Nat /\ n \in Nat
      /\ new \in [1 .. n -> free_blocks] /\ free_blocks \subseteq Blocks
  BY DEF Fresh, TypeOK
<1>3. new \in Seq(free_blocks) /\ Len(new) = n /\ DOMAIN new = 1 .. n
  BY <1>2
<1>4. /\ \A i \in 1 .. Len(pre) : tab[i] = pre[i]
      /\ \A i \in 1 .. Len(tab) : i \notin 1 .. Len(pre) => i - Len(pre) \in 1 .. n /\ tab[i] = new[i - Len(pre)]
  BY <1>1, <1>2, <1>3
<1> HIDE DEF tab
<1>5. \A b \in free_blocks : b \notin DOMAIN block_hash_info /\ \A r \in Seqs : b \notin BlocksOf(r)
  <2>1. \A b \in free_blocks : b \notin DOMAIN block_hash_info
    BY DEF IndexConsistent
  <2>2. Available({}) = free_blocks
    BY NothingDropped
  <2>3. \A b \in free_blocks : Holders(b) \subseteq {}
    BY <2>2, AvailableHeldByV
  <2> QED
    BY <2>1, <2>3 DEF Holders
<1>6. DOMAIN pre = 1 .. Len(pre) /\ DOMAIN tab = 1 .. Len(tab) /\ 1 .. Len(pre) \subseteq 1 .. Len(tab)
  BY <1>1, <1>2
<1>7. ASSUME NEW i \in DOMAIN tab \ DOMAIN pre
      PROVE  /\ tab[i] \in free_blocks /\ tab[i] \in Elems(new)
             /\ tab[i] \notin DOMAIN block_hash_info
             /\ \A r \in Seqs : tab[i] \notin BlocksOf(r)
  <2>1. i - Len(pre) \in 1 .. n /\ tab[i] = new[i - Len(pre)]
    BY <1>4, <1>6
  <2>2. tab[i] \in free_blocks /\ tab[i] \in Elems(new)
    BY <1>2, <1>3, <2>1 DEF Elems
  <2> QED
    BY <1>5, <2>2
<1>8. block_table' = [block_table EXCEPT ![s] = tab] /\ block_table \in [Seqs -> Seq(Blocks)]
  BY DEF tab, TypeOK
<1> QED
  BY <1>1, <1>2, <1>4, <1>6, <1>7, <1>8 DEF tab

\* Every block written is the sequence's alone and unregistered.
LEMMA WritesAreExclusive ==
    ASSUME TypeOK, OwnershipExact, IndexConsistent, NEW s \in Seqs,
           NEW pre, NEW n, NEW new, NEW Shared, NEW a, NEW h, NEW from, NEW to,
           Computes(s, pre, n, new, Shared, a, h, from, to),
           NEW p \in from .. to
    PROVE  LET b == (pre \o new)[IndexOf(p)] IN
           /\ IndexOf(p) \in DOMAIN (pre \o new)
           /\ b \in Blocks /\ b \notin DOMAIN block_hash_info
           /\ \A r \in Seqs : r # s => b \notin BlocksOf(r)
           /\ ref_counts'[b] = 1
<1> DEFINE tab == pre \o new
           i   == IndexOf(p)
           b   == tab[i]
<1>1. Grows(s, pre, n, new, Shared)
  BY DEF Computes
<1>2. /\ tab \in Seq(Blocks) /\ DOMAIN pre = 1 .. Len(pre) /\ DOMAIN tab = 1 .. Len(tab) /\ Len(tab) \in Nat
      /\ \A j \in DOMAIN pre : tab[j] = pre[j]
      /\ \A j \in DOMAIN tab \ DOMAIN pre :
            /\ tab[j] \in Elems(new) /\ tab[j] \notin DOMAIN block_hash_info
            /\ \A r \in Seqs : tab[j] \notin BlocksOf(r)
  BY <1>1, GrownTable
<1>3. p \in Nat /\ p >= 1 /\ p > from - 1 /\ from \in Nat /\ from >= 1 /\ p <= Len(tab) * BlockSize
  <2>1. from \in Nat /\ from >= 1 /\ to \in Nat /\ to <= Len(tab) * BlockSize
    BY DEF Computes
  <2>2. Len(tab) * BlockSize \in Nat
    BY <1>2, SizesAssumption
  <2> QED
    BY <2>1, <2>2
<1> HIDE DEF tab
<1>4. i \in DOMAIN tab /\ p <= i * BlockSize /\ i \in Nat /\ i * BlockSize \in Nat
  <2>1. i \in 1 .. Len(tab) /\ p <= i * BlockSize
    BY <1>2, <1>3, PositionWithin
  <2>2. i \in Nat
    BY <1>3, PositionSplits
  <2> HIDE DEF i
  <2> QED
    BY <1>2, <2>1, <2>2, SizesAssumption
<1> HIDE DEF i
<1>5. /\ {} \in SUBSET Seqs /\ {} \subseteq Available({})
      /\ Shared \in SUBSET (Blocks \ free_blocks) /\ Account({}, Shared, Elems(new))
      /\ Elems(new) \in SUBSET Available({}) /\ lost = {}
  <2>1. Available({}) = free_blocks
    BY NothingDropped
  <2>2. Elems(new) \subseteq free_blocks
    BY <1>1 DEF Grows, Fresh, Elems
  <2> QED
    BY <1>1, <2>1, <2>2 DEF Grows
<1>6. \A c \in Blocks : ref_counts'[c] =
                 IF c \in Elems(new) THEN 1
                 ELSE IF c \in Shared THEN Cardinality(Holders(c)) + 1
                 ELSE Cardinality(Holders(c) \ {})
  <2> DEFINE V == {}
             Taken == Elems(new)
  <2>1. /\ TypeOK /\ OwnershipExact /\ lost = {} /\ V \in SUBSET Seqs
        /\ Shared \in SUBSET (Blocks \ free_blocks) /\ (V = {} \/ Shared = {})
        /\ Taken \in SUBSET Available(V) /\ Account(V, Shared, Taken)
    BY <1>5
  <2> HIDE DEF V, Taken
  <2>2. \A c \in Blocks : ref_counts'[c] =
                 IF c \in Taken THEN 1
                 ELSE IF c \in Shared THEN Cardinality(Holders(c)) + 1
                 ELSE Cardinality(Holders(c) \ V)
    BY ONLY <2>1, AccountExact
  <2> QED
    BY <2>2 DEF V, Taken
<1>7. b \in Blocks
  BY <1>2, <1>4
<1>8. CASE i \notin DOMAIN pre
  BY <1>2, <1>4, <1>6, <1>7, <1>8 DEF tab, i
<1>9. CASE i \in DOMAIN pre
  <2>1. ~(i * BlockSize <= from - 1)
    BY <1>3, <1>4
  <2>2. Holders(b) = {s} /\ b \notin DOMAIN block_hash_info
    BY <1>2, <1>9, <2>1 DEF Computes, Frontier
  <2>3. b \in BlocksOf(s)
    BY <2>2 DEF Holders
  <2>4. b \notin Shared
    BY <1>1, <2>3 DEF Grows, BlocksOf, Elems
  <2>5. ref_counts'[b] = 1
    <3>1. Holders(b) \ {} = {s}
      BY <2>2
    <3>2. Cardinality(Holders(b) \ {}) = 1
      BY <3>1, FS_Singleton
    <3> QED
      BY <1>6, <1>7, <2>4, <3>2
  <2>6. \A r \in Seqs : r # s => b \notin BlocksOf(r)
    BY <2>2 DEF Holders
  <2> QED
    BY <1>4, <1>7, <2>2, <2>5, <2>6 DEF tab, i
<1> QED
  BY <1>8, <1>9

\* Pool W is what write() of positions from .. to makes of kv: they get their
\* cells, the others keep theirs.
Overlays(W, tab, a, h, from, to) ==
    /\ \A p \in from .. to : W[tab[IndexOf(p)]][SlotAt(p)] = Cell(a, h, p)
    /\ \A p \in 1 .. from - 1 : p <= Len(tab) * BlockSize =>
          W[tab[IndexOf(p)]][SlotAt(p)] = kv[tab[IndexOf(p)]][SlotAt(p)]
    /\ \A b \in Blocks : (\A p \in from .. to : tab[IndexOf(p)] # b) => W[b] = kv[b]

LEMMA WhatIsWritten ==
    ASSUME TypeOK, NEW tab \in Seq(Blocks), \A i, j \in DOMAIN tab : tab[i] = tab[j] => i = j,
           NEW a, NEW h, NEW from \in Nat, from >= 1, NEW to \in Nat,
           to <= Len(tab) * BlockSize
    PROVE  Overlays(Written(tab, a, h, from, to), tab, a, h, from, to)
<1> DEFINE W == Written(tab, a, h, from, to)
           Hits(p, b, k) == BlockAt(tab, p) = b /\ SlotAt(p) = k
           Value(b, k) == IF \E p \in from .. to : Hits(p, b, k)
                          THEN Cell(a, h, CHOOSE p \in from .. to : Hits(p, b, k))
                          ELSE kv[b][k]
<1>1. W = [b \in Blocks |-> [k \in Slots |-> Value(b, k)]]
  BY DEF Written
<1> HIDE DEF W, Value
<1>2. Len(tab) \in Nat /\ DOMAIN tab = 1 .. Len(tab) /\ Len(tab) * BlockSize \in Nat
  BY SizesAssumption
<1>3. ASSUME NEW p \in Nat, p >= 1, p <= Len(tab) * BlockSize
      PROVE  /\ IndexOf(p) \in DOMAIN tab /\ tab[IndexOf(p)] \in Blocks /\ SlotAt(p) \in Slots
             /\ BlockAt(tab, p) = tab[IndexOf(p)]
  <2>1. IndexOf(p) \in 1 .. Len(tab)
    BY <1>2, <1>3, PositionWithin
  <2>2. SlotAt(p) \in Slots /\ BlockAt(tab, p) = tab[IndexOf(p)]
    BY <1>3, PositionSplits
  <2> QED
    BY <1>2, <2>1, <2>2
<1>4. \A p \in from .. to : p \in Nat /\ p >= 1 /\ p <= Len(tab) * BlockSize
  BY <1>2
<1>5. ASSUME NEW p \in Nat, p >= 1, p <= Len(tab) * BlockSize, NEW q \in from .. to,
             Hits(q, tab[IndexOf(p)], SlotAt(p))
      PROVE  q = p
  <2>1. q \in Nat /\ q >= 1 /\ q <= Len(tab) * BlockSize
    BY <1>4
  <2>2. tab[IndexOf(q)] = tab[IndexOf(p)] /\ SlotAt(q) = SlotAt(p)
    BY <1>3, <1>5, <2>1
  <2>3. IndexOf(q) = IndexOf(p)
    BY <1>3, <1>5, <2>1, <2>2
  <2> QED
    BY <1>5, <2>1, <2>2, <2>3, PositionsMeet
<1>6. ASSUME NEW p \in from .. to
      PROVE  W[tab[IndexOf(p)]][SlotAt(p)] = Cell(a, h, p)
  <2> DEFINE b == tab[IndexOf(p)]
             k == SlotAt(p)
  <2>1. p \in Nat /\ p >= 1 /\ p <= Len(tab) * BlockSize
    BY <1>4
  <2>2. b \in Blocks /\ k \in Slots /\ Hits(p, b, k)
    BY <1>3, <2>1
  <2>3. \A q \in from .. to : Hits(q, b, k) => q = p
    BY <1>5, <2>1
  <2> HIDE DEF b, k, Hits
  <2>4. (CHOOSE q \in from .. to : Hits(q, b, k)) = p
    BY <2>2, <2>3
  <2>5. Value(b, k) = Cell(a, h, p)
    BY <2>2, <2>4 DEF Value
  <2> QED
    BY <1>1, <2>2, <2>5 DEF b, k
<1>7. ASSUME NEW p \in 1 .. from - 1, p <= Len(tab) * BlockSize
      PROVE  W[tab[IndexOf(p)]][SlotAt(p)] = kv[tab[IndexOf(p)]][SlotAt(p)]
  <2> DEFINE b == tab[IndexOf(p)]
             k == SlotAt(p)
  <2>1. p \in Nat /\ p >= 1 /\ p \notin from .. to
    OBVIOUS
  <2>2. b \in Blocks /\ k \in Slots
    BY <1>3, <1>7, <2>1
  <2>3. \A q \in from .. to : ~Hits(q, b, k)
    BY <1>5, <1>7, <2>1
  <2> HIDE DEF b, k, Hits
  <2>4. Value(b, k) = kv[b][k]
    BY <2>3 DEF Value
  <2> QED
    BY <1>1, <2>2, <2>4 DEF b, k
<1>8. ASSUME NEW b \in Blocks, \A p \in from .. to : tab[IndexOf(p)] # b
      PROVE  W[b] = kv[b]
  <2>1. \A p \in from .. to : \A k \in Slots : ~Hits(p, b, k)
    BY <1>3, <1>4, <1>8
  <2>2. \A k \in Slots : Value(b, k) = kv[b][k]
    BY <2>1 DEF Value
  <2>3. W[b] = [k \in Slots |-> Value(b, k)]
    BY <1>1
  <2>4. kv[b] \in [Slots -> Cells]
    BY DEF TypeOK
  <2> QED
    BY <2>2, <2>3, <2>4
<1> QED
  BY <1>6, <1>7, <1>8 DEF W, Overlays

-----------------------------------------------------------------------------
(* What such a pass does to the invariant *)

\* Of the blocks of tab, the index gains some that lie within the first m
\* positions, each under its prefix of h; it loses nothing.
Gains(tab, m, h) ==
    /\ DOMAIN block_hash_info \subseteq DOMAIN block_hash_info'
    /\ \A b \in DOMAIN block_hash_info : block_hash_info'[b] = block_hash_info[b]
    /\ \A b \in DOMAIN block_hash_info' \ DOMAIN block_hash_info :
         \E i \in DOMAIN tab :
             b = tab[i] /\ i * BlockSize <= m /\ block_hash_info'[b] = BlockPrefix(h, i)

\* register_prefix_blocks() gains whole blocks of the history.
LEMMA RegisterGains ==
    ASSUME NEW h \in Seq(Tokens), NEW tab \in Seq(Blocks),
           Len(h) \div BlockSize <= Len(tab),
           \A i, j \in DOMAIN tab : tab[i] = tab[j] => i = j,
           RegisterPrefix(tab, h)
    PROVE  Gains(tab, Len(h), h)
<1> DEFINE New == Unregistered(tab, h)
           Key(i) == BlockPrefix(h, i)
<1>1. Len(h) \div BlockSize \in Nat /\ Len(tab) \in Nat /\ DOMAIN tab = 1 .. Len(tab) /\ Len(h) \in Nat
  <2>1. Len(h) \in Nat /\ Len(tab) \in Nat /\ DOMAIN tab = 1 .. Len(tab)
    OBVIOUS
  <2> QED
    BY <2>1, BlocksNeededBounds
<1>2. \A i \in New : i \in DOMAIN tab /\ i \in Nat /\ i <= Len(h) \div BlockSize /\ tab[i] \notin DOMAIN block_hash_info
  BY <1>1 DEF Unregistered
<1>3. \A i, j \in New : tab[i] = tab[j] => i = j
  BY <1>2
<1>4. \A i \in New : i * BlockSize <= Len(h)
  BY <1>1, <1>2, WholeBlocksFit
<1>5. block_hash_info' =
          [b \in DOMAIN block_hash_info \cup {tab[i] : i \in New} |->
              IF \E i \in New : b = tab[i]
              THEN Key(CHOOSE i \in New : b = tab[i])
              ELSE block_hash_info[b]]
  BY DEF RegisterPrefix
<1> HIDE DEF New, Key
<1>6. DOMAIN block_hash_info' = DOMAIN block_hash_info \cup {tab[i] : i \in New}
  BY <1>5
<1>7. \A b \in DOMAIN block_hash_info : block_hash_info'[b] = block_hash_info[b]
  BY <1>2, <1>5
<1>8. ASSUME NEW i \in New PROVE block_hash_info'[tab[i]] = Key(i)
  <2>1. (CHOOSE j \in New : tab[i] = tab[j]) = i
    BY <1>3
  <2>2. tab[i] \in DOMAIN block_hash_info'
    BY <1>6
  <2>3. block_hash_info'[tab[i]] = Key(CHOOSE j \in New : tab[i] = tab[j])
    BY <1>5, <2>2
  <2> QED
    BY <2>1, <2>3
<1>9. ASSUME NEW b \in DOMAIN block_hash_info' \ DOMAIN block_hash_info
      PROVE  \E i \in DOMAIN tab :
                 b = tab[i] /\ i * BlockSize <= Len(h) /\ block_hash_info'[b] = Key(i)
  <2>1. PICK i \in New : b = tab[i]
    BY <1>6
  <2> QED
    BY <1>2, <1>4, <1>8, <2>1
<1> QED
  BY <1>6, <1>7, <1>9 DEF Gains, Key

\* A table that grows keeps full blocks below, and shares through the index.
LEMMA GrowthKeepsWInv ==
    ASSUME TypeOK, OwnershipExact, IndexConsistent, WInv, NEW s \in Seqs,
           NEW pre, NEW n, NEW new, NEW Shared, Grows(s, pre, n, new, Shared),
           Shared \subseteq DOMAIN block_hash_info,
           NEW f \in Nat, Frontier(s, pre, f), NEW m \in Nat, f <= m,
           context_len' = [context_len EXCEPT ![s] = m], m <= Len(pre \o new) * BlockSize,
           NEW h, Gains(pre \o new, m, h)
    PROVE  WInv'
<1> DEFINE tab == pre \o new
<1>1. /\ tab \in Seq(Blocks) /\ Len(tab) \in Nat /\ Len(pre) \in Nat
      /\ DOMAIN pre = 1 .. Len(pre) /\ DOMAIN tab = 1 .. Len(tab)
      /\ \A i, j \in DOMAIN tab : tab[i] = tab[j] => i = j
      /\ \A i \in DOMAIN pre : i \in DOMAIN tab /\ tab[i] = pre[i]
      /\ \A i \in DOMAIN tab \ DOMAIN pre :
            /\ tab[i] \notin DOMAIN block_hash_info
            /\ \A r \in Seqs : tab[i] \notin BlocksOf(r)
      /\ block_table'[s] = tab
      /\ \A r \in Seqs : r # s => block_table'[r] = block_table[r]
  BY GrownTable
<1>2. context_len'[s] = m /\ \A r \in Seqs : r # s => context_len'[r] = context_len[r]
  BY DEF TypeOK
<1>3. Gains(tab, m, h) /\ m <= Len(tab) * BlockSize
  OBVIOUS
<1>4. \A i \in DOMAIN pre : pre[i] \in BlocksOf(s) \/ pre[i] \in DOMAIN block_hash_info
  BY DEF Grows, Elems, BlocksOf
<1> HIDE DEF tab
<1>5. ASSUME NEW r \in Seqs, r # s, NEW i \in DOMAIN tab, tab[i] \in BlocksOf(r)
      PROVE  tab[i] \in DOMAIN block_hash_info
  <2>1. i \in DOMAIN pre /\ tab[i] = pre[i]
    BY <1>1, <1>5
  <2>2. CASE pre[i] \in BlocksOf(s)
    BY <1>5, <2>1, <2>2 DEF WInv, SharedThroughIndex, BlocksOf
  <2> QED
    BY <1>4, <2>1, <2>2
<1>6. ASSUME NEW i \in DOMAIN tab, tab[i] \in DOMAIN block_hash_info'
      PROVE  i * BlockSize <= m
  <2>1. CASE tab[i] \in DOMAIN block_hash_info
    <3>1. i \in DOMAIN pre /\ pre[i] = tab[i] /\ i * BlockSize \in Nat
      BY <1>1, <2>1, SizesAssumption
    <3>2. i * BlockSize <= f
      BY <2>1, <3>1 DEF Frontier
    <3> QED
      BY <3>1, <3>2
  <2>2. CASE tab[i] \notin DOMAIN block_hash_info
    BY <1>1, <1>3, <1>6, <2>2 DEF Gains
  <2> QED
    BY <2>1, <2>2
<1>7. ASSUME NEW r \in Seqs, r # s, NEW i \in DOMAIN block_table[r],
             block_table[r][i] \in DOMAIN block_hash_info'
      PROVE  block_table[r][i] \in DOMAIN block_hash_info
  <2> SUFFICES ASSUME block_table[r][i] \notin DOMAIN block_hash_info PROVE FALSE
    OBVIOUS
  <2>1. PICK j \in DOMAIN tab : block_table[r][i] = tab[j]
    BY <1>3, <1>7 DEF Gains
  <2>2. tab[j] \in BlocksOf(r)
    BY <2>1 DEF BlocksOf
  <2> QED
    BY <1>5, <1>7, <2>1, <2>2
<1>8. FullWhenRegistered'
  <2> SUFFICES ASSUME NEW r \in Seqs, NEW i \in DOMAIN block_table'[r],
                      block_table'[r][i] \in DOMAIN block_hash_info'
               PROVE  i * BlockSize <= context_len'[r]
    BY DEF FullWhenRegistered
  <2>1. CASE r = s
    BY <1>1, <1>2, <1>6, <2>1
  <2>2. CASE r # s
    <3>1. block_table'[r] = block_table[r] /\ context_len'[r] = context_len[r]
      BY <1>1, <1>2, <2>2
    <3>2. block_table[r][i] \in DOMAIN block_hash_info
      BY <1>7, <2>2, <3>1
    <3> QED
      BY <3>1, <3>2 DEF WInv, FullWhenRegistered
  <2> QED
    BY <2>1, <2>2
<1>9. SharedThroughIndex'
  <2> SUFFICES ASSUME NEW q \in Seqs, NEW r \in Seqs,
                      NEW i \in DOMAIN block_table'[q], NEW j \in DOMAIN block_table'[r],
                      q # r, block_table'[q][i] = block_table'[r][j]
               PROVE  block_table'[q][i] \in DOMAIN block_hash_info'
    BY DEF SharedThroughIndex
  <2>1. DOMAIN block_hash_info \subseteq DOMAIN block_hash_info'
    BY <1>3 DEF Gains
  <2>2. CASE q = s
    <3>1. r # s /\ tab[i] = block_table[r][j] /\ i \in DOMAIN tab /\ j \in DOMAIN block_table[r]
      BY <1>1, <2>2
    <3>2. tab[i] \in BlocksOf(r)
      BY <3>1 DEF BlocksOf
    <3> QED
      BY <1>1, <1>5, <2>1, <2>2, <3>1, <3>2
  <2>3. CASE r = s
    <3>1. q # s /\ tab[j] = block_table[q][i] /\ j \in DOMAIN tab /\ i \in DOMAIN block_table[q]
          /\ block_table'[q][i] = tab[j]
      BY <1>1, <2>3
    <3>2. tab[j] \in BlocksOf(q)
      BY <3>1 DEF BlocksOf
    <3> QED
      BY <1>5, <2>1, <3>1, <3>2
  <2>4. CASE q # s /\ r # s
    BY <1>1, <2>1, <2>4 DEF WInv, SharedThroughIndex
  <2> QED
    BY <2>2, <2>3, <2>4
<1>10. TablesCover'
  BY <1>1, <1>2, <1>3 DEF WInv, TablesCover
<1> QED
  BY <1>8, <1>9, <1>10 DEF WInv

\* Reading pool K through a table, position by position.
Reading(tab, K) == [i \in DOMAIN tab |-> K[tab[i]]]

Reads(tab, K, a, h, n) ==
    /\ n <= Len(h) /\ n <= Len(tab) * BlockSize
    /\ \A p \in 1 .. n : K[tab[IndexOf(p)]][SlotAt(p)] = Cell(a, h, p)

LEMMA ReadThrough ==
    ASSUME NEW tab \in Seq(Blocks), NEW K \in [Blocks -> [Slots -> Cells]],
           NEW a, NEW h \in Seq(Tokens), NEW n \in Nat
    PROVE  Coherent(Reading(tab, K), a, h, n) <=> Reads(tab, K, a, h, n)
<1> DEFINE R == Reading(tab, K)
<1>1. Len(tab) \in Nat /\ DOMAIN tab = 1 .. Len(tab) /\ Len(tab) * BlockSize \in Nat
  BY SizesAssumption
<1>2. R \in [1 .. Len(tab) -> [Slots -> Cells]] /\ Len(R) = Len(tab)
  BY <1>1 DEF Reading
<1>3. ASSUME n <= Len(tab) * BlockSize, NEW p \in 1 .. n
      PROVE  BlockAt(R, p) = K[tab[IndexOf(p)]]
  <2>1. p \in Nat /\ p >= 1 /\ p <= Len(tab) * BlockSize
    BY <1>1, <1>3
  <2>2. IndexOf(p) \in 1 .. Len(tab)
    BY <1>1, <2>1, PositionWithin
  <2>3. BlockAt(R, p) = R[IndexOf(p)]
    <3> HIDE DEF R
    <3> QED
      BY <2>1, PositionSplits
  <2> QED
    BY <1>1, <2>2, <2>3 DEF Reading
<1> HIDE DEF R
<1> QED
  BY <1>2, <1>3 DEF Coherent, R, Reads

\* The i-th block of a table holds positions (i - 1) * BlockSize + 1 onwards.
LEMMA PositionOfSlot ==
    ASSUME NEW i \in Nat, i >= 1, NEW k \in Slots
    PROVE  LET p == (i - 1) * BlockSize + k + 1 IN
           /\ p \in Nat /\ p >= 1 /\ p <= i * BlockSize
           /\ IndexOf(p) = i /\ SlotAt(p) = k
           /\ i * BlockSize \in Nat /\ i * BlockSize - BlockSize + k + 1 = p
<1> DEFINE B == BlockSize
           o == (i - 1) * B
           p == o + k + 1
<1>1. B \in Nat /\ B > 0 /\ k \in Nat /\ k < B
  BY SizesAssumption DEF Slots
<1>2. o \in Nat /\ i * B = o + B /\ i * B \in Nat
  BY <1>1, SMTT(30)
<1>3. p \in Nat /\ p >= 1 /\ p <= i * B /\ i * B - B + k + 1 = p
  <2> DEFINE e == i * B
  <2>1. e = o + B /\ e \in Nat /\ o \in Nat
    BY <1>2
  <2> HIDE DEF e, o, B
  <2>2. p \in Nat /\ p >= 1 /\ p <= e /\ e - B + k + 1 = p
    BY <1>1, <2>1
  <2> QED
    BY <2>2 DEF e
<1>4. p > (i - 1) * B
  BY <1>1, <1>2
<1>5. IndexOf(p) <= i /\ IndexOf(p) > i - 1 /\ IndexOf(p) \in Nat
  <2>1. i - 1 \in Nat
    OBVIOUS
  <2> HIDE DEF p
  <2>2. IndexOf(p) <= i
    BY <1>3, PositionWithin
  <2>3. IndexOf(p) > i - 1
    BY <1>3, <1>4, <2>1, PositionWithin
  <2>4. IndexOf(p) \in Nat
    BY <1>3, PositionSplits
  <2> QED
    BY <2>2, <2>3, <2>4
<1>6. IndexOf(p) = i
  BY <1>5
<1>7. SlotAt(p) = k
  <2>1. p = (i - 1) * B + SlotAt(p) + 1 /\ SlotAt(p) \in Nat
    <3> HIDE DEF p
    <3> QED
      BY <1>3, <1>6, PositionSplits DEF B
  <2> DEFINE x == SlotAt(p)
  <2>2. p = o + x + 1 /\ p = o + k + 1 /\ x \in Nat
    BY <2>1
  <2> HIDE DEF x, p, o
  <2>3. x = k
    BY <1>1, <1>2, <2>2
  <2> QED
    BY <2>3 DEF x
<1> QED
  BY <1>3, <1>6, <1>7, <1>2 DEF p, o, B

\* A prefix of a prefix.
LEMMA PrefixOfPrefix ==
    ASSUME NEW h \in Seq(Tokens), NEW m \in Nat, m <= Len(h), NEW p \in Nat, p <= m
    PROVE  /\ SubSeq(SubSeq(h, 1, m), 1, p) = SubSeq(h, 1, p)
           /\ SubSeq(h, 1, m) \in Seq(Tokens) /\ Len(SubSeq(h, 1, m)) = m
<1>1. SubSeq(h, 1, m) \in Seq(Tokens) /\ Len(SubSeq(h, 1, m)) = m
  OBVIOUS
<1>2. \A i \in 1 .. m : SubSeq(h, 1, m)[i] = h[i]
  OBVIOUS
<1> DEFINE g == SubSeq(h, 1, m)
<1> HIDE DEF g
<1>3. g \in Seq(Tokens) /\ Len(g) = m /\ \A i \in 1 .. m : g[i] = h[i]
  BY <1>1, <1>2 DEF g
<1>4. SubSeq(g, 1, p) = [i \in 1 .. p |-> g[i]] /\ SubSeq(h, 1, p) = [i \in 1 .. p |-> h[i]]
  BY <1>3
<1>5. SubSeq(g, 1, p) = SubSeq(h, 1, p)
  BY <1>3, <1>4
<1> QED
  BY <1>1, <1>5 DEF g

\* Registered blocks, once they hold the K/V of the history they are
\* registered for.
LEMMA GainsKeepCells ==
    ASSUME TypeOK, kv' \in [Blocks -> [Slots -> Cells]], RegisteredCells,
           NEW tab \in Seq(Blocks), NEW m \in Nat, NEW h \in Seq(Tokens), m <= Len(h), NEW a,
           Gains(tab, m, h),
           \A b \in DOMAIN block_hash_info : kv'[b] = kv[b],
           \A p \in 1 .. m : kv'[tab[IndexOf(p)]][SlotAt(p)] = Cell(a, h, p)
    PROVE  RegisteredCells'
<1> SUFFICES ASSUME NEW b \in DOMAIN block_hash_info', NEW k \in Slots
             PROVE  kv'[b][k].prefix =
                       SubSeq(block_hash_info'[b], 1, Len(block_hash_info'[b]) - BlockSize + k + 1)
  BY DEF RegisteredCells, Slots
<1>1. CASE b \in DOMAIN block_hash_info
  <2>1. kv'[b] = kv[b] /\ block_hash_info'[b] = block_hash_info[b]
    BY <1>1 DEF Gains
  <2>2. kv[b][k].prefix = SubSeq(block_hash_info[b], 1, Len(block_hash_info[b]) - BlockSize + k + 1)
    BY <1>1 DEF RegisteredCells
  <2> QED
    BY ONLY <2>1, <2>2, Zenon
<1>2. CASE b \notin DOMAIN block_hash_info
  <2>1. PICK i \in DOMAIN tab : b = tab[i] /\ i * BlockSize <= m /\ block_hash_info'[b] = BlockPrefix(h, i)
    BY <1>2 DEF Gains
  <2> DEFINE p == (i - 1) * BlockSize + k + 1
             e == i * BlockSize
  <2>2. i \in Nat /\ i >= 1
    OBVIOUS
  <2>3. /\ p \in Nat /\ p >= 1 /\ p <= e /\ IndexOf(p) = i /\ SlotAt(p) = k
        /\ e \in Nat /\ e - BlockSize + k + 1 = p
    BY <2>2, PositionOfSlot
  <2> HIDE DEF p
  <2>4. kv'[b][k] = Cell(a, h, p)
    BY <2>1, <2>3
  <2> HIDE DEF e
  <2>5. e <= m /\ e <= Len(h) /\ p <= Len(h)
    BY <2>1, <2>3 DEF e
  <2>6. SubSeq(SubSeq(h, 1, e), 1, p) = SubSeq(h, 1, p) /\ Len(SubSeq(h, 1, e)) = e
    BY <2>3, <2>5, PrefixOfPrefix
  <2>7. block_hash_info'[b] = SubSeq(h, 1, e)
    BY <2>1 DEF BlockPrefix, e
  <2>8. SubSeq(block_hash_info'[b], 1, Len(block_hash_info'[b]) - BlockSize + k + 1) = SubSeq(h, 1, p)
    BY <2>3, <2>6, <2>7
  <2>9. Cell(a, h, p).prefix = SubSeq(h, 1, p)
    BY DEF Cell
  <2> QED
    BY ONLY <2>4, <2>8, <2>9, Zenon
<1> QED
  BY <1>1, <1>2

\* A sequence nobody touches reads what it read.
LEMMA UntouchedReads ==
    ASSUME TypeOK, LiveCells, NEW r \in Seqs,
           block_table'[r] = block_table[r], context_len'[r] = context_len[r],
           adapter'[r] = adapter[r], Hist(r)' = Hist(r),
           \A b \in BlocksOf(r) : b \in Blocks => kv'[b] = kv[b]
    PROVE  Coherent(Snapshot(block_table[r])', adapter'[r], Hist(r)', context_len'[r])
<1>1. block_table[r] \in Seq(Blocks)
  BY DEF TypeOK
<1>2. \A i \in DOMAIN block_table[r] : kv'[block_table[r][i]] = kv[block_table[r][i]]
  BY <1>1 DEF BlocksOf
<1>3. Snapshot(block_table[r])' = Snapshot(block_table[r])
  BY <1>2 DEF Snapshot
<1> QED
  BY <1>3 DEF LiveCells

\* A forward pass of s: its table grows from pre, positions from .. to of
\* history h are computed, of which it keeps those up to m of its history g.
Pass(s, pre, n, new, Shared, a, h, from, to, m, g) ==
    /\ Computes(s, pre, n, new, Shared, a, h, from, to)
    /\ Shared \subseteq DOMAIN block_hash_info
    /\ h \in Seq(Tokens) /\ g \in Seq(Tokens) /\ m \in Nat
    /\ from - 1 <= m /\ m <= to /\ m <= Len(g) /\ m <= Len(h)
    /\ \A p \in 1 .. m : SubSeq(g, 1, p) = SubSeq(h, 1, p)
    /\ Gains(pre \o new, m, h)
    /\ context_len' = [context_len EXCEPT ![s] = m]
    /\ adapter'[s] = a /\ Hist(s)' = g
    /\ \A r \in Seqs : r # s => adapter'[r] = adapter[r] /\ Hist(r)' = Hist(r)

\* After it the sequence has the K/V of history g up to position m, if it had
\* those it started from; the others still have theirs, and so has the index.
LEMMA PassCells ==
    ASSUME TypeOK, TypeOK', OwnershipExact, IndexConsistent, RegisteredCells, LiveCells, NEW s \in Seqs,
           NEW pre, NEW n, NEW new, NEW Shared, NEW a, NEW h, NEW from, NEW to, NEW m, NEW g,
           Pass(s, pre, n, new, Shared, a, h, from, to, m, g),
           from - 1 <= Len(pre) * BlockSize,
           \A p \in 1 .. from - 1 : kv[pre[IndexOf(p)]][SlotAt(p)] = Cell(a, g, p)
    PROVE  RegisteredCells' /\ LiveCells'
<1> /\ Computes(s, pre, n, new, Shared, a, h, from, to)
    /\ h \in Seq(Tokens) /\ g \in Seq(Tokens) /\ m \in Nat
    /\ from - 1 <= m /\ m <= to /\ m <= Len(g) /\ m <= Len(h)
    /\ \A p \in 1 .. m : SubSeq(g, 1, p) = SubSeq(h, 1, p)
    /\ Gains(pre \o new, m, h)
    /\ context_len' = [context_len EXCEPT ![s] = m]
    /\ adapter'[s] = a /\ Hist(s)' = g
    /\ \A r \in Seqs : r # s => adapter'[r] = adapter[r] /\ Hist(r)' = Hist(r)
  BY DEF Pass
<1> DEFINE tab == pre \o new
<1>1. Grows(s, pre, n, new, Shared)
  BY DEF Computes
<1>2. /\ tab \in Seq(Blocks) /\ Len(tab) \in Nat /\ Len(pre) \in Nat
      /\ DOMAIN pre = 1 .. Len(pre) /\ DOMAIN tab = 1 .. Len(tab)
      /\ \A i, j \in DOMAIN tab : tab[i] = tab[j] => i = j
      /\ \A i \in DOMAIN pre : i \in DOMAIN tab /\ tab[i] = pre[i]
      /\ block_table'[s] = tab
      /\ \A r \in Seqs : r # s => block_table'[r] = block_table[r]
      /\ Len(tab) = Len(pre) + n
  BY <1>1, GrownTable
<1>13. Len(pre) <= Len(tab)
  <2>1. n \in Nat
    BY <1>1 DEF Grows
  <2> HIDE DEF tab
  <2> QED
    BY <1>2, <2>1
<1>3. /\ from \in Nat /\ from >= 1 /\ to \in Nat /\ to <= Len(tab) * BlockSize
      /\ kv' = Written(tab, a, h, from, to)
  BY DEF Computes
<1>4. \A p \in from .. to : /\ tab[IndexOf(p)] \notin DOMAIN block_hash_info
                            /\ \A r \in Seqs : r # s => tab[IndexOf(p)] \notin BlocksOf(r)
  BY WritesAreExclusive
<1>5. Gains(tab, m, h)
  OBVIOUS
<1>0. Len(pre) * BlockSize \in Nat /\ Len(tab) * BlockSize \in Nat
  BY <1>2, SizesAssumption
<1> HIDE DEF tab
<1>6. /\ \A p \in from .. to : kv'[tab[IndexOf(p)]][SlotAt(p)] = Cell(a, h, p)
      /\ \A p \in 1 .. from - 1 : p <= Len(tab) * BlockSize =>
            kv'[tab[IndexOf(p)]][SlotAt(p)] = kv[tab[IndexOf(p)]][SlotAt(p)]
      /\ \A b \in Blocks : (\A p \in from .. to : tab[IndexOf(p)] # b) => kv'[b] = kv[b]
  <2>1. Overlays(Written(tab, a, h, from, to), tab, a, h, from, to)
    <3>1. /\ TypeOK /\ tab \in Seq(Blocks) /\ from \in Nat /\ from >= 1 /\ to \in Nat
          /\ to <= Len(tab) * BlockSize /\ \A i, j \in DOMAIN tab : tab[i] = tab[j] => i = j
      BY <1>2, <1>3
    <3> QED
      BY ONLY <3>1, WhatIsWritten
  <2>2. Overlays(kv', tab, a, h, from, to)
    BY <1>3, <2>1
  <2> QED
    BY <2>2 DEF Overlays
<1>7. ASSUME NEW p \in 1 .. m PROVE kv'[tab[IndexOf(p)]][SlotAt(p)] = Cell(a, g, p)
  <2>1. CASE p <= from - 1
    <3>1. p \in Nat /\ p >= 1 /\ p <= Len(pre) * BlockSize /\ p \in 1 .. from - 1
      BY <1>0, <1>3, <2>1
    <3>2. IndexOf(p) \in DOMAIN pre
      BY <1>2, <3>1, PositionWithin
    <3>3. p <= Len(tab) * BlockSize
      <4>1. IndexOf(p) \in 1 .. Len(tab)
        BY <1>2, <1>13, <3>2
      <4> SUFFICES ASSUME Len(tab) * BlockSize < p PROVE FALSE
        BY <1>0, <3>1
      <4>2. IndexOf(p) > Len(tab)
        BY <1>2, <3>1, PositionWithin
      <4> QED
        BY <1>2, <1>13, <4>1, <4>2
    <3>4. kv'[tab[IndexOf(p)]][SlotAt(p)] = kv[pre[IndexOf(p)]][SlotAt(p)]
      BY <1>2, <1>6, <3>1, <3>2, <3>3
    <3> QED
      BY <3>1, <3>4
  <2>2. CASE ~(p <= from - 1)
    <3>1. p \in from .. to
      BY <1>3, <2>2
    <3>2. kv'[tab[IndexOf(p)]][SlotAt(p)] = Cell(a, h, p)
      BY <1>6, <3>1
    <3> QED
      BY <3>2 DEF Cell
  <2> QED
    BY <2>1, <2>2
<1>8. kv' \in [Blocks -> [Slots -> Cells]] /\ kv \in [Blocks -> [Slots -> Cells]]
  BY DEF TypeOK
<1>9. \A b \in DOMAIN block_hash_info : kv'[b] = kv[b]
  <2>1. \A b \in DOMAIN block_hash_info : b \in Blocks
    BY DEF TypeOK
  <2> QED
    BY <1>4, <1>6, <2>1
<1>10. RegisteredCells'
  <2>1. \A p \in 1 .. m : kv'[tab[IndexOf(p)]][SlotAt(p)] = Cell(a, h, p)
    BY <1>7 DEF Cell
  <2>2. /\ TypeOK /\ RegisteredCells /\ m \in Nat /\ m <= Len(h) /\ h \in Seq(Tokens)
        /\ tab \in Seq(Blocks) /\ kv' \in [Blocks -> [Slots -> Cells]]
    BY <1>2, <1>8
  <2> QED
    BY ONLY <1>5, <1>9, <2>1, <2>2, GainsKeepCells
<1>11. ASSUME NEW r \in Seqs
       PROVE  Coherent(Snapshot(block_table[r])', adapter'[r], Hist(r)', context_len'[r])
  <2>1. CASE r = s
    <3>1. Snapshot(block_table[r])' = Reading(tab, kv')
      BY <1>2, <2>1 DEF Snapshot, Reading
    <3>2. m <= Len(tab) * BlockSize
      BY <1>0, <1>3
    <3>3. Coherent(Reading(tab, kv'), a, g, m)
      <4>1. /\ tab \in Seq(Blocks) /\ kv' \in [Blocks -> [Slots -> Cells]] /\ m \in Nat
            /\ g \in Seq(Tokens) /\ m <= Len(g) /\ m <= Len(tab) * BlockSize
            /\ \A p \in 1 .. m : kv'[tab[IndexOf(p)]][SlotAt(p)] = Cell(a, g, p)
        BY <1>2, <1>7, <1>8, <3>2
      <4>2. Reads(tab, kv', a, g, m)
        BY <4>1 DEF Reads
      <4> QED
        BY ONLY <4>1, <4>2, ReadThrough
    <3> QED
      BY <2>1, <3>1, <3>3 DEF TypeOK
  <2>2. CASE r # s
    <3>1. \A b \in BlocksOf(r) : b \in Blocks => kv'[b] = kv[b]
      BY <1>4, <1>6, <2>2
    <3>2. context_len'[r] = context_len[r] /\ block_table'[r] = block_table[r]
      BY <1>2, <2>2 DEF TypeOK
    <3>3. adapter'[r] = adapter[r] /\ Hist(r)' = Hist(r)
      BY <2>2
    <3> QED
      BY <3>1, <3>2, <3>3, UntouchedReads
  <2> QED
    BY <2>1, <2>2
<1>12. LiveCells'
  BY <1>11 DEF LiveCells
<1> QED
  BY <1>10, <1>12

-----------------------------------------------------------------------------
(* Steps of one kind *)

\* What ExclusiveWrites says of one step.
WritesExclusively ==
    \A b \in Blocks :
        kv'[b] # kv[b] /\ kv'[b] # StaleBlock =>
            ref_counts'[b] = 1 /\ (b \in DOMAIN block_hash_info' => b \notin DOMAIN block_hash_info)

\* It writes only blocks it may write.
LEMMA PassWrites ==
    ASSUME TypeOK, OwnershipExact, IndexConsistent, WInv, NEW s \in Seqs,
           NEW pre, NEW n, NEW new, NEW Shared, NEW a, NEW h, NEW from, NEW to, NEW m, NEW g,
           Pass(s, pre, n, new, Shared, a, h, from, to, m, g)
    PROVE  WInv' /\ WritesExclusively
<1> DEFINE tab == pre \o new
           f   == from - 1
<1>1. /\ Computes(s, pre, n, new, Shared, a, h, from, to) /\ Shared \subseteq DOMAIN block_hash_info
      /\ m \in Nat /\ from - 1 <= m /\ Gains(tab, m, h)
      /\ context_len' = [context_len EXCEPT ![s] = m]
  BY DEF Pass
<1>2. /\ Grows(s, pre, n, new, Shared) /\ from \in Nat /\ from >= 1 /\ to \in Nat
      /\ Frontier(s, pre, f) /\ to <= Len(tab) * BlockSize /\ kv' = Written(tab, a, h, from, to)
  BY <1>1 DEF Computes
<1>3. tab \in Seq(Blocks) /\ \A i, j \in DOMAIN tab : tab[i] = tab[j] => i = j
  BY <1>2, GrownTable
<1> HIDE DEF tab
<1>4. f \in Nat /\ f <= m
  BY <1>1, <1>2
<1>9. m <= Len(tab) * BlockSize
  <2>1. Len(tab) * BlockSize \in Nat /\ m <= to
    BY <1>3, SizesAssumption DEF Pass
  <2> QED
    BY <1>1, <1>2, <2>1
<1> HIDE DEF f
<1>5. WInv'
  BY <1>1, <1>2, <1>4, <1>9, GrowthKeepsWInv DEF tab
<1>6. Overlays(kv', tab, a, h, from, to)
  <2>1. /\ TypeOK /\ tab \in Seq(Blocks) /\ from \in Nat /\ from >= 1 /\ to \in Nat
        /\ to <= Len(tab) * BlockSize /\ \A i, j \in DOMAIN tab : tab[i] = tab[j] => i = j
    BY <1>2, <1>3
  <2>2. Overlays(Written(tab, a, h, from, to), tab, a, h, from, to)
    BY ONLY <2>1, WhatIsWritten
  <2> QED
    BY <1>2, <2>2
<1>7. \A p \in from .. to : /\ tab[IndexOf(p)] \notin DOMAIN block_hash_info
                            /\ ref_counts'[tab[IndexOf(p)]] = 1
  BY <1>1, WritesAreExclusive DEF tab
<1>8. WritesExclusively
  <2> SUFFICES ASSUME NEW b \in Blocks, kv'[b] # kv[b]
               PROVE  ref_counts'[b] = 1 /\ b \notin DOMAIN block_hash_info
    BY DEF WritesExclusively
  <2>1. PICK p \in from .. to : tab[IndexOf(p)] = b
    BY <1>6 DEF Overlays
  <2> QED
    BY <1>7, <2>1
<1> QED
  BY <1>5, <1>8

\* What is put aside stays right while its sequence stays the same.
LEMMA SavedUntouched ==
    ASSUME TypeOK', SavedCells, UNCHANGED swapVars,
           \A r \in Seqs : \/ adapter'[r] = adapter[r] /\ Hist(r)' = Hist(r)
                           \/ swapped_context_len[r] = 0
    PROVE  SavedCells'
<1> SUFFICES ASSUME NEW r \in Seqs
             PROVE  Coherent(swapped_kv'[r], adapter'[r], Hist(r)', swapped_context_len'[r])
  BY DEF SavedCells
<1>1. swapped_kv'[r] = swapped_kv[r] /\ swapped_context_len'[r] = swapped_context_len[r]
  BY DEF swapVars
<1>2. CASE adapter'[r] = adapter[r] /\ Hist(r)' = Hist(r)
  BY <1>1, <1>2 DEF SavedCells
<1>3. CASE swapped_context_len[r] = 0
  <2>1. Len(Hist(r)') \in Nat /\ Len(swapped_kv'[r]) \in Nat
    BY DEF TypeOK, Hist
  <2>2. Len(swapped_kv'[r]) * BlockSize \in Nat
    BY <2>1, SizesAssumption
  <2> QED
    BY <1>1, <1>3, <2>1, <2>2 DEF Coherent
<1> QED
  BY <1>2, <1>3

\* Nothing cached: nothing to be wrong.
LEMMA NothingToRead ==
    ASSUME NEW blocks, NEW a, NEW h, Len(h) \in Nat, Len(blocks) \in Nat
    PROVE  Coherent(blocks, a, h, 0)
<1>1. Len(blocks) * BlockSize \in Nat
  BY SizesAssumption
<1> QED
  BY <1>1 DEF Coherent

\* What LiveCells says of one sequence, position by position.
LEMMA LiveReads ==
    ASSUME TypeOK, LiveCells, NEW s \in Seqs
    PROVE  /\ context_len[s] <= Len(Hist(s)) /\ context_len[s] <= Len(block_table[s]) * BlockSize
           /\ \A p \in 1 .. context_len[s] :
                 kv[block_table[s][IndexOf(p)]][SlotAt(p)] = Cell(adapter[s], Hist(s), p)
<1> DEFINE tab == block_table[s]
           h   == Hist(s)
           n   == context_len[s]
           a   == adapter[s]
<1>1. /\ tab \in Seq(Blocks) /\ kv \in [Blocks -> [Slots -> Cells]] /\ n \in Nat /\ h \in Seq(Tokens)
      /\ Coherent(Reading(tab, kv), a, h, n)
  <2>1. Coherent(Snapshot(tab), a, h, n)
    BY DEF LiveCells
  <2> QED
    BY <2>1 DEF TypeOK, Snapshot, Reading, Hist
<1> HIDE DEF tab, h, n, a
<1>2. Reads(tab, kv, a, h, n)
  BY ONLY <1>1, ReadThrough
<1> QED
  BY <1>2 DEF tab, h, n, a, Reads

\* A prefix does not look at what is appended.
LEMMA PrefixOfConcat ==
    ASSUME NEW x \in Seq(Tokens), NEW y \in Seq(Tokens), NEW p \in Nat, p <= Len(x)
    PROVE  /\ x \o y \in Seq(Tokens) /\ Len(x \o y) = Len(x) + Len(y)
           /\ SubSeq(x \o y, 1, p) = SubSeq(x, 1, p)
<1> DEFINE z == x \o y
<1>1. z \in Seq(Tokens) /\ Len(z) = Len(x) + Len(y) /\ \A i \in 1 .. Len(x) : z[i] = x[i]
  OBVIOUS
<1> HIDE DEF z
<1>2. SubSeq(z, 1, p) = [i \in 1 .. p |-> z[i]] /\ SubSeq(x, 1, p) = [i \in 1 .. p |-> x[i]]
  BY <1>1
<1>3. SubSeq(z, 1, p) = SubSeq(x, 1, p)
  BY <1>1, <1>2
<1> QED
  BY <1>1, <1>3 DEF z

LEMMA ConcatParts ==
    ASSUME NEW x \in Seq(Tokens), NEW y \in Seq(Tokens)
    PROVE  /\ x \o y \in Seq(Tokens) /\ Len(x \o y) = Len(x) + Len(y)
           /\ \A i \in 1 .. Len(x \o y) : (x \o y)[i] = IF i <= Len(x) THEN x[i] ELSE y[i - Len(x)]
OBVIOUS

LEMMA ConcatAssociates ==
    ASSUME NEW x \in Seq(Tokens), NEW y \in Seq(Tokens), NEW z \in Seq(Tokens)
    PROVE  x \o (y \o z) = (x \o y) \o z
<1> DEFINE u == x \o y
           v == y \o z
<1>1. u \in Seq(Tokens) /\ v \in Seq(Tokens) /\ Len(u) = Len(x) + Len(y) /\ Len(v) = Len(y) + Len(z)
  OBVIOUS
<1>2. /\ \A i \in 1 .. Len(u) : u[i] = IF i <= Len(x) THEN x[i] ELSE y[i - Len(x)]
      /\ \A i \in 1 .. Len(v) : v[i] = IF i <= Len(y) THEN y[i] ELSE z[i - Len(y)]
  OBVIOUS
<1> HIDE DEF u, v
<1> DEFINE l == x \o v
           r == u \o z
<1>3. /\ l \in Seq(Tokens) /\ Len(l) = Len(x) + Len(v)
      /\ \A i \in 1 .. Len(l) : l[i] = IF i <= Len(x) THEN x[i] ELSE v[i - Len(x)]
  BY <1>1, ConcatParts
<1>4. /\ r \in Seq(Tokens) /\ Len(r) = Len(u) + Len(z)
      /\ \A i \in 1 .. Len(r) : r[i] = IF i <= Len(u) THEN u[i] ELSE z[i - Len(u)]
  BY <1>1, ConcatParts
<1>5. Len(x) \in Nat /\ Len(y) \in Nat /\ Len(z) \in Nat
  OBVIOUS
<1> HIDE DEF l, r
<1>6. Len(l) = Len(r)
  BY <1>1, <1>3, <1>4, <1>5
<1>7. ASSUME NEW i \in 1 .. Len(l) PROVE l[i] = r[i]
  <2>1. CASE i <= Len(x)
    <3>1. l[i] = x[i]
      BY <1>3, <2>1
    <3>2. i \in 1 .. Len(u) /\ i \in 1 .. Len(r) /\ i <= Len(u)
      BY <1>1, <1>5, <1>6, <2>1
    <3> QED
      BY <1>2, <1>4, <2>1, <3>1, <3>2
  <2>2. CASE i > Len(x) /\ i <= Len(u)
    <3>1. /\ i - Len(x) \in 1 .. Len(v) /\ i - Len(x) <= Len(y)
          /\ i \in 1 .. Len(u) /\ i \in 1 .. Len(r)
      BY <1>1, <1>3, <1>5, <1>6, <2>2
    <3>2. l[i] = v[i - Len(x)]
      BY <1>3, <1>5, <2>2
    <3>3. r[i] = u[i]
      BY <1>4, <2>2, <3>1
    <3>4. v[i - Len(x)] = y[i - Len(x)]
      BY <1>2, <3>1
    <3>5. u[i] = y[i - Len(x)]
      BY <1>2, <1>5, <2>2, <3>1
    <3> QED
      BY <3>2, <3>3, <3>4, <3>5
  <2>3. CASE i > Len(x) /\ i > Len(u)
    <3>1. /\ i - Len(x) \in 1 .. Len(v) /\ i - Len(x) > Len(y)
          /\ (i - Len(x)) - Len(y) = i - Len(u) /\ i \in 1 .. Len(r)
      BY <1>1, <1>3, <1>5, <1>6, <2>3
    <3>2. l[i] = v[i - Len(x)]
      BY <1>3, <1>5, <2>3
    <3>3. r[i] = z[i - Len(u)]
      BY <1>1, <1>4, <1>5, <2>3, <3>1
    <3>4. v[i - Len(x)] = z[(i - Len(x)) - Len(y)]
      BY <1>2, <1>5, <3>1
    <3> QED
      BY <3>1, <3>2, <3>3, <3>4
  <2> QED
    BY <1>1, <1>5, <2>1, <2>2, <2>3
<1>8. l = r
  BY <1>3, <1>4, <1>6, <1>7
<1> QED
  BY <1>8 DEF l, r, u, v

\* Sequence s extends its own table by n blocks, writes history h from behind
\* its cached positions up to position to, and ends with m positions cached.
OwnPass(s, n, new, to, h, m) ==
    /\ lost = {} /\ lost' = {} /\ n \in Nat /\ new \in Fresh(n)
    /\ Account({}, {}, Elems(new))
    /\ block_table' = [block_table EXCEPT ![s] = block_table[s] \o new]
    /\ to \in Nat /\ to <= (Len(block_table[s]) + n) * BlockSize
    /\ h \in Seq(Tokens)
    /\ kv' = Written(block_table[s] \o new, adapter[s], h, context_len[s] + 1, to)
    /\ m \in Nat /\ context_len[s] <= m /\ m <= to /\ m <= Len(h) /\ m <= Len(Hist(s)')
    /\ \A p \in 1 .. m : SubSeq(Hist(s)', 1, p) = SubSeq(h, 1, p)
    /\ context_len' = [context_len EXCEPT ![s] = m]
    /\ Gains(block_table[s] \o new, m, h)
    /\ UNCHANGED <<prompt, adapter>> /\ \A r \in Seqs : r # s => output'[r] = output[r]

LEMMA OwnPassKeeps ==
    ASSUME TypeOK, TypeOK', OwnershipExact, IndexConsistent, WInv, NEW s \in Seqs,
           NEW n, NEW new, NEW to, NEW h, NEW m, OwnPass(s, n, new, to, h, m)
    PROVE  /\ WInv' /\ WritesExclusively
           /\ RegisteredCells /\ LiveCells
              /\ (\A p \in 1 .. context_len[s] : SubSeq(Hist(s)', 1, p) = SubSeq(Hist(s), 1, p))
                 => RegisteredCells' /\ LiveCells'
<1> DEFINE pre  == block_table[s]
           a    == adapter[s]
           from == context_len[s] + 1
           g    == Hist(s)'
           none == {}
<1>1. /\ pre \in Seq(Blocks) /\ from \in Nat /\ from >= 1 /\ from - 1 = context_len[s]
      /\ context_len[s] \in Nat /\ g \in Seq(Tokens)
  BY DEF TypeOK, Hist
<1>2. Grows(s, pre, n, new, none)
  <2>1. \A i, j \in DOMAIN pre : pre[i] = pre[j] => i = j
    BY DEF OwnershipExact, TablesInjective
  <2> QED
    BY <1>1, <2>1 DEF Grows, OwnPass
<1>3. Frontier(s, pre, from - 1)
  BY <1>1, OwnFrontier
<1> HIDE DEF none, pre
<1>4. Len(pre \o new) = Len(pre) + n
  BY <1>2, GrownTable
<1>5. Computes(s, pre, n, new, none, a, h, from, to)
  BY <1>1, <1>2, <1>3, <1>4 DEF Computes, OwnPass, pre
<1>6. \A r \in Seqs : r # s => adapter'[r] = adapter[r] /\ Hist(r)' = Hist(r)
  BY DEF OwnPass, Hist
<1>7. adapter'[s] = a /\ none \subseteq DOMAIN block_hash_info
  BY DEF OwnPass, none
<1> HIDE DEF a, from, g
<1>8. Pass(s, pre, n, new, none, a, h, from, to, m, g)
  BY <1>1, <1>5, <1>6, <1>7 DEF Pass, OwnPass, g, pre
<1>9. WInv' /\ WritesExclusively
  BY <1>8, PassWrites
<1>10. ASSUME RegisteredCells, LiveCells,
              \A p \in 1 .. context_len[s] : SubSeq(Hist(s)', 1, p) = SubSeq(Hist(s), 1, p)
       PROVE  RegisteredCells' /\ LiveCells'
  <2>1. /\ context_len[s] <= Len(pre) * BlockSize
        /\ \A p \in 1 .. context_len[s] : kv[pre[IndexOf(p)]][SlotAt(p)] = Cell(a, Hist(s), p)
    BY <1>10, LiveReads DEF pre, a
  <2>2. \A p \in 1 .. from - 1 : kv[pre[IndexOf(p)]][SlotAt(p)] = Cell(a, g, p)
    BY <1>1, <1>10, <2>1 DEF Cell, g
  <2>3. from - 1 <= Len(pre) * BlockSize
    BY <1>1, <2>1
  <2> QED
    BY <1>8, <1>10, <2>2, <2>3, PassCells
<1> QED
  BY <1>9, <1>10

-----------------------------------------------------------------------------
(* The actions that grow a table *)

\* The prefix index does not look at the adapter (the run kv_prefix_lora), so
\* with it the cells are right where all requests use the same one.
OneAdapter == EnablePrefixCaching => Adapters = {BaseModel}

LEMMA GainsNothing ==
    ASSUME block_hash_info' = block_hash_info, NEW tab, NEW m, NEW h
    PROVE  Gains(tab, m, h)
BY DEF Gains

LEMMA NothingWritten ==
    ASSUME TypeOK, NEW tab, NEW a, NEW h, NEW n \in Nat
    PROVE  Written(tab, a, h, n + 1, n) = kv
<1>1. n + 1 .. n = {}
  OBVIOUS
<1>2. kv \in [Blocks -> [Slots -> Cells]]
  BY DEF TypeOK
<1>3. Written(tab, a, h, n + 1, n) = [b \in Blocks |-> [k \in Slots |-> kv[b][k]]]
  BY <1>1 DEF Written
<1>4. \A b \in Blocks : [k \in Slots |-> kv[b][k]] = kv[b]
  BY <1>2
<1>5. [b \in Blocks |-> [k \in Slots |-> kv[b][k]]] = [b \in Blocks |-> kv[b]]
  BY <1>4
<1> QED
  BY <1>2, <1>3, <1>5

\* What the actions on a live sequence start from.
LEMMA LiveFacts ==
    ASSUME IInv, ~raised, NEW s \in Seqs
    PROVE  /\ TypeOK /\ OwnershipExact /\ IndexConsistent /\ lost = {}
           /\ context_len[s] \in Nat /\ block_table[s] \in Seq(Blocks) /\ adapter[s] \in Adapters
           /\ prompt[s] \in Seq(Tokens) /\ output[s] \in Seq(Tokens)
           /\ Hist(s) = prompt[s] \o output[s] /\ Hist(s) \in Seq(Tokens)
           /\ Len(block_table[s]) \in Nat /\ Len(prompt[s]) \in Nat
BY IdleTable DEF TypeOK, Hist

\* The next chunk of a prompt.
LEMMA ContinuePrefillContents ==
    ASSUME IInv, IInv', WInv, NEW s \in Seqs, NEW n \in 1 .. MaxLen, ContinuePrefill(s, n)
    PROVE  WInv' /\ WritesExclusively /\ (CInv => CInv')
<1> DEFINE to == context_len[s] + n
           p  == prompt[s]
           miss == Missing(block_table[s], to)
<1>1. /\ TypeOK /\ OwnershipExact /\ IndexConsistent /\ lost = {} /\ lost' = {} /\ TypeOK'
      /\ context_len[s] \in Nat /\ block_table[s] \in Seq(Blocks) /\ adapter[s] \in Adapters
      /\ p \in Seq(Tokens) /\ output[s] \in Seq(Tokens)
      /\ Hist(s) = p \o output[s] /\ Len(block_table[s]) \in Nat /\ Len(p) \in Nat
  BY LiveFacts DEF IInv, ContinuePrefill
<1>2. to \in Nat /\ to <= Len(p) /\ context_len[s] < to /\ place[s] = "live"
  BY <1>1, SizesAssumption DEF ContinuePrefill
<1>3. /\ miss \in Nat /\ to \div BlockSize <= Len(block_table[s]) + miss
      /\ to <= (Len(block_table[s]) + miss) * BlockSize
  BY <1>1, <1>2, MissingBounds, ReservedRoom
<1>4. PICK new \in Fresh(miss) :
         LET tab == block_table[s] \o new IN
         /\ Account({}, {}, Elems(new))
         /\ block_table' = [block_table EXCEPT ![s] = tab]
         /\ context_len' = [context_len EXCEPT ![s] = to]
         /\ kv' = Written(tab, adapter[s], p, context_len[s] + 1, to)
         /\ IF to = Len(p) THEN FinishPrefill(s, tab, p) ELSE UNCHANGED <<output, indexVars>>
  BY DEF ContinuePrefill
<1>5. UNCHANGED <<place, swapVars, prompt, adapter>>
  BY DEF ContinuePrefill
<1> HIDE DEF to, miss, p
<1> DEFINE tab == block_table[s] \o new
<1>6. /\ tab \in Seq(Blocks) /\ Len(tab) = Len(block_table[s]) + miss
      /\ \A i, j \in DOMAIN tab : tab[i] = tab[j] => i = j
  BY <1>1, <1>3, <1>4, OwnTableGrows
<1> HIDE DEF tab
<1>7. Gains(tab, to, p)
  <2>1. CASE to = Len(p)
    <3>1. RegisterPrefix(tab, p)
      BY <1>4, <2>1 DEF FinishPrefill, tab
    <3> QED
      BY <1>1, <1>3, <1>6, <2>1, <3>1, RegisterGains
  <2>2. CASE to # Len(p)
    BY <1>4, <2>2, GainsNothing DEF indexVars
  <2> QED
    BY <2>1, <2>2
<1>8. \A r \in Seqs : r # s => output'[r] = output[r]
  BY <1>1, <1>4 DEF FinishPrefill, TypeOK
<1>9. Hist(s)' = p \o output'[s] /\ output'[s] \in Seq(Tokens)
  BY <1>1, <1>5 DEF Hist, TypeOK, p
<1>10. /\ to <= Len(Hist(s)')
       /\ \A q \in 1 .. to : SubSeq(Hist(s)', 1, q) = SubSeq(p, 1, q)
       /\ \A q \in 1 .. to : SubSeq(Hist(s), 1, q) = SubSeq(p, 1, q)
  <2>1. \A q \in 1 .. to : q \in Nat /\ q <= Len(p)
    BY <1>1, <1>2
  <2>2. Len(p \o output'[s]) = Len(p) + Len(output'[s]) /\ Len(output'[s]) \in Nat
    BY <1>1, <1>9
  <2>3. to <= Len(Hist(s)')
    BY <1>1, <1>2, <1>9, <2>2
  <2> QED
    BY <1>1, <1>9, <2>1, <2>3, PrefixOfConcat
<1>11. OwnPass(s, miss, new, to, p, to)
  BY <1>1, <1>2, <1>3, <1>4, <1>5, <1>7, <1>8, <1>10 DEF OwnPass, tab
<1>12. WInv' /\ WritesExclusively
  BY <1>1, <1>11, OwnPassKeeps
<1>13. ASSUME CInv PROVE CInv'
  <2>1. RegisteredCells /\ LiveCells /\ SavedCells /\ Phases
    BY <1>13 DEF CInv
  <2>2. \A q \in 1 .. context_len[s] : SubSeq(Hist(s)', 1, q) = SubSeq(Hist(s), 1, q)
    BY <1>1, <1>2, <1>10
  <2>3. RegisteredCells' /\ LiveCells'
    BY <1>1, <1>11, <2>1, <2>2, OwnPassKeeps
  <2>4. \A r \in Seqs : \/ adapter'[r] = adapter[r] /\ Hist(r)' = Hist(r)
                        \/ swapped_context_len[r] = 0
    BY <1>2, <1>5, <1>8, <2>1 DEF Phases, Hist
  <2>5. SavedCells'
    BY <1>1, <1>5, <2>1, <2>4, SavedUntouched
  <2>6. Phases'
    <3>1. to # Len(p) => output'[s] = output[s]
      BY <1>4
    <3>2. context_len'[s] = to /\ \A r \in Seqs : r # s => context_len'[r] = context_len[r]
      BY <1>1, <1>4 DEF TypeOK
    <3>3. to < Len(p) => output'[s] = <<>>
      BY <1>1, <1>2, <2>1, <3>1 DEF Phases, p
    <3> QED
      BY <1>1, <1>2, <1>5, <1>8, <2>1, <3>2, <3>3 DEF Phases, swapVars, p
  <2> QED
    BY <2>3, <2>5, <2>6 DEF CInv
<1> QED
  BY <1>12, <1>13

\* A chunk that runs out of blocks: nothing is computed.
LEMMA ContinuePrefillOOMContents ==
    ASSUME IInv, IInv', WInv, NEW s \in Seqs, NEW n \in 1 .. MaxLen, ContinuePrefillOOM(s, n)
    PROVE  WInv' /\ WritesExclusively /\ (CInv => CInv')
<1> DEFINE room == Cardinality(free_blocks)
           m    == context_len[s]
           h    == Hist(s)
<1>1. /\ TypeOK /\ OwnershipExact /\ IndexConsistent /\ lost = {} /\ lost' = {} /\ TypeOK'
      /\ m \in Nat /\ block_table[s] \in Seq(Blocks) /\ adapter[s] \in Adapters
      /\ h \in Seq(Tokens) /\ Len(block_table[s]) \in Nat
  BY LiveFacts DEF IInv, ContinuePrefillOOM
<1>2. room \in Nat
  <2>1. IsFiniteSet(free_blocks)
    BY <1>1, BlocksAssumption, FS_Subset DEF TypeOK
  <2> QED
    BY <2>1, FS_CardinalityType
<1>3. PICK new \in Fresh(room) :
         /\ Account({}, {}, Elems(new))
         /\ block_table' = [block_table EXCEPT ![s] = block_table[s] \o new]
  BY DEF ContinuePrefillOOM
<1>4. UNCHANGED <<place, context_len, kv, indexVars, swapVars, prompt, output, adapter>>
  BY DEF ContinuePrefillOOM, seqVars
<1> HIDE DEF room, m, h
<1>0. m <= (Len(block_table[s]) + room) * BlockSize
  <2>1. m <= Len(block_table[s]) * BlockSize
    BY DEF WInv, TablesCover, m
  <2>2. \A x, y \in Nat : /\ x * BlockSize <= (x + y) * BlockSize
                          /\ x * BlockSize \in Nat /\ (x + y) * BlockSize \in Nat
    BY SizesAssumption, SMTT(30)
  <2> DEFINE x == Len(block_table[s])
  <2>3. x \in Nat /\ m \in Nat /\ m <= x * BlockSize
    BY <1>1, <2>1
  <2> HIDE DEF x
  <2>4. /\ x * BlockSize <= (x + room) * BlockSize
        /\ x * BlockSize \in Nat /\ (x + room) * BlockSize \in Nat
    BY <1>2, <2>2, <2>3
  <2>5. m <= (x + room) * BlockSize
    BY <2>3, <2>4
  <2> QED
    BY <2>5 DEF x
<1>5. Hist(s)' = h /\ \A r \in Seqs : Hist(r)' = Hist(r) /\ adapter'[r] = adapter[r]
  BY <1>4 DEF Hist, h
<1>6. WInv' /\ (kv' = kv)
  <2> DEFINE none == {}
  <2>1. Grows(s, block_table[s], room, new, none)
    <3>1. \A i, j \in DOMAIN block_table[s] : block_table[s][i] = block_table[s][j] => i = j
      BY <1>1 DEF OwnershipExact, TablesInjective
    <3> QED
      BY <1>1, <1>2, <1>3, <3>1 DEF Grows
  <2>2. Frontier(s, block_table[s], m)
    BY <1>1, OwnFrontier DEF m
  <2>3. Gains(block_table[s] \o new, m, h)
    BY <1>4, GainsNothing DEF indexVars
  <2>4. context_len' = [context_len EXCEPT ![s] = m] /\ m <= m
    BY <1>1, <1>4 DEF TypeOK, m
  <2>5. none \subseteq DOMAIN block_hash_info
    OBVIOUS
  <2>6. m <= Len(block_table[s] \o new) * BlockSize
    <3>1. Len(block_table[s] \o new) = Len(block_table[s]) + room
      BY <1>1, <1>2, <1>3, OwnTableGrows
    <3> QED
      BY <1>0, <3>1
  <2> HIDE DEF none
  <2> QED
    BY <1>1, <1>4, <2>1, <2>2, <2>3, <2>4, <2>5, <2>6, GrowthKeepsWInv
<1>7. WritesExclusively
  BY <1>6 DEF WritesExclusively
<1>8. ASSUME CInv PROVE CInv'
  <2>1. RegisteredCells /\ LiveCells /\ SavedCells /\ Phases
    BY <1>8 DEF CInv
  <2>2. RegisteredCells' /\ Phases'
    BY <1>4, <2>1 DEF RegisteredCells, Phases, indexVars, swapVars
  <2>3. SavedCells'
    BY <1>1, <1>4, <1>5, <2>1, SavedUntouched
  <2>4. m <= Len(h) /\ m <= (Len(block_table[s]) + room) * BlockSize
    BY <1>0, <1>1, <2>1, LiveReads DEF m, h
  <2>5. kv' = Written(block_table[s] \o new, adapter[s], h, m + 1, m)
    BY <1>1, <1>6, NothingWritten
  <2>6. Gains(block_table[s] \o new, m, h)
    BY <1>4, GainsNothing DEF indexVars
  <2>7. context_len' = [context_len EXCEPT ![s] = m] /\ UNCHANGED <<prompt, adapter, output>>
    BY <1>1, <1>4 DEF TypeOK, m
  <2>8. OwnPass(s, room, new, m, h, m)
    BY <1>1, <1>2, <1>3, <1>5, <2>4, <2>5, <2>6, <2>7 DEF OwnPass, m
  <2>9. RegisteredCells' /\ LiveCells'
    BY <1>1, <1>5, <2>1, <2>8, OwnPassKeeps DEF h
  <2> QED
    BY <2>2, <2>3, <2>9 DEF CInv
<1> QED
  BY <1>6, <1>7, <1>8

\* A speculation: of the positions written, those of accepted tokens stay.
LEMMA SpeculateContents ==
    ASSUME IInv, IInv', WInv, NEW s \in Seqs, NEW draft \in Drafts, NEW t \in Tokens,
           NEW matched \in 0 .. Len(draft), NEW kept \in 1 .. matched + 1,
           Speculate(s, draft, matched, t, kept)
    PROVE  WInv' /\ WritesExclusively /\ (CInv => CInv')
<1> DEFINE k    == Len(draft)
           ctx  == context_len[s]
           to   == ctx + 1 + k
           back == IF kept < matched THEN kept ELSE matched
           m    == ctx + 1 + k - Rollback(k, matched, kept)
           old  == Hist(s)
           h    == old \o draft
           got  == SubSeq(Append(SubSeq(draft, 1, matched), t), 1, kept)
           g    == old \o got
           miss == Missing(block_table[s], to)
<1>1. /\ TypeOK /\ OwnershipExact /\ IndexConsistent /\ lost = {} /\ lost' = {} /\ TypeOK'
      /\ ctx \in Nat /\ block_table[s] \in Seq(Blocks) /\ adapter[s] \in Adapters
      /\ prompt[s] \in Seq(Tokens) /\ output[s] \in Seq(Tokens) /\ old \in Seq(Tokens)
      /\ Len(block_table[s]) \in Nat /\ Len(prompt[s]) \in Nat
  BY LiveFacts DEF IInv, Speculate
<1>0. old = prompt[s] \o output[s]
  BY DEF Hist
<1>2. ctx + 1 = Len(old) /\ Len(prompt[s]) <= ctx /\ place[s] = "live"
  BY <1>1 DEF Speculate, Decodable
<1>3. /\ draft \in Seq(Tokens) /\ k \in Nat /\ matched \in Nat /\ matched <= k
      /\ kept \in Nat /\ kept >= 1 /\ kept <= matched + 1
  <2>1. PICK d \in 1 .. MaxDraft : draft \in [1 .. d -> Tokens]
    BY DEF Drafts
  <2>2. d \in Nat
    BY SizesAssumption
  <2>3. draft \in Seq(Tokens)
    BY <2>1, <2>2, FunctionsAreSequences
  <2> QED
    BY <2>3
<1>4. got \in Seq(Tokens) /\ Len(got) = kept /\ \A i \in 1 .. kept : i <= matched => got[i] = draft[i]
  <2> DEFINE u == SubSeq(draft, 1, matched)
             v == Append(u, t)
  <2>1. u \in Seq(Tokens) /\ Len(u) = matched /\ \A i \in 1 .. matched : u[i] = draft[i]
    BY <1>3
  <2> HIDE DEF u
  <2>2. v \in Seq(Tokens) /\ Len(v) = matched + 1 /\ \A i \in 1 .. matched : v[i] = draft[i]
    BY <1>3, <2>1
  <2> HIDE DEF v
  <2>3. SubSeq(v, 1, kept) \in Seq(Tokens) /\ Len(SubSeq(v, 1, kept)) = kept
        /\ \A i \in 1 .. kept : SubSeq(v, 1, kept)[i] = v[i]
    BY <1>3, <2>2
  <2>4. got = SubSeq(v, 1, kept)
    BY DEF u, v
  <2> HIDE DEF got
  <2> QED
    BY <1>3, <2>2, <2>3, <2>4
<1>5. PICK new \in Fresh(miss) :
         LET tab == block_table[s] \o new IN
         /\ Account({}, {}, Elems(new))
         /\ block_table' = [block_table EXCEPT ![s] = tab]
         /\ kv' = Written(tab, adapter[s], h, ctx + 1, to)
  BY DEF Speculate
<1>6. /\ context_len' = [context_len EXCEPT ![s] = m]
      /\ output' = [output EXCEPT ![s] = output[s] \o got]
      /\ UNCHANGED <<place, indexVars, swapVars, prompt, adapter>>
  BY DEF Speculate
<1>7. m = ctx + 1 + back /\ back \in Nat /\ back <= k /\ back <= kept /\ back <= matched
      /\ m \in Nat /\ to \in Nat /\ m <= to /\ ctx <= m
  <2>1. m = ctx + 1 + k - (k - back)
    BY DEF Rollback
  <2>2. back \in Nat /\ back <= k /\ back <= kept /\ back <= matched /\ k \in Nat /\ ctx \in Nat
    <3> HIDE DEF k, ctx
    <3> QED
      BY <1>1, <1>3
  <2> HIDE DEF m, k, back, ctx
  <2> QED
    BY <2>1, <2>2
<1> HIDE DEF got, m, k, back, miss, old, ctx
<1>8. h \in Seq(Tokens) /\ Len(h) = to
  <2>1. \A x, y \in Seq(Tokens) : x \o y \in Seq(Tokens) /\ Len(x \o y) = Len(x) + Len(y)
    OBVIOUS
  <2>2. h \in Seq(Tokens) /\ Len(h) = Len(old) + k
    BY <1>1, <1>3, <2>1 DEF k
  <2> HIDE DEF h
  <2> QED
    BY <1>2, <2>2
<1>9. Hist(s)' = g
  <2>1. output'[s] = output[s] \o got /\ prompt'[s] = prompt[s]
    BY <1>1, <1>6 DEF TypeOK
  <2>2. prompt[s] \o (output[s] \o got) = (prompt[s] \o output[s]) \o got
    BY <1>1, <1>4, ConcatAssociates
  <2> QED
    BY <1>0, <2>1, <2>2 DEF Hist
<1>10. g \in Seq(Tokens) /\ Len(g) = ctx + 1 + kept
  <2>1. \A x, y \in Seq(Tokens) : x \o y \in Seq(Tokens) /\ Len(x \o y) = Len(x) + Len(y)
    OBVIOUS
  <2>2. g \in Seq(Tokens) /\ Len(g) = Len(old) + kept
    BY <1>1, <1>4, <2>1
  <2> HIDE DEF g
  <2> QED
    BY <1>2, <2>2
<1>11. ASSUME NEW i \in 1 .. m PROVE g[i] = h[i]
  <2> DEFINE l == Len(old)
  <2>1. l \in Nat /\ l = ctx + 1
    BY <1>1, <1>2
  <2>2. CASE i <= l
    BY <1>3, <1>4, <1>7, <2>1, <2>2
  <2>3. CASE i > l
    <3>1. i - l \in 1 .. back
      BY <1>7, <2>1, <2>3
    <3>2. i - l \in 1 .. kept /\ i - l \in 1 .. k /\ i - l <= matched
      BY <1>3, <1>7, <3>1
    <3>3. g[i] = got[i - l]
      BY <1>4, <2>1, <2>3, <3>2
    <3>4. h[i] = draft[i - l]
      BY <1>3, <2>1, <2>3, <3>2 DEF k
    <3> QED
      BY <1>4, <3>2, <3>3, <3>4
  <2>4. i \in Nat
    BY <1>7
  <2> HIDE DEF g, h, l
  <2> QED
    BY <2>1, <2>2, <2>3, <2>4
<1>12. \A p \in 1 .. m : SubSeq(g, 1, p) = SubSeq(h, 1, p)
  <2> HIDE DEF g, h
  <2> SUFFICES ASSUME NEW p \in 1 .. m PROVE SubSeq(g, 1, p) = SubSeq(h, 1, p)
    OBVIOUS
  <2>1. p \in Nat /\ p <= m /\ m <= Len(h) /\ m <= Len(g)
    BY <1>1, <1>3, <1>7, <1>8, <1>10
  <2>2. SubSeq(g, 1, p) = [i \in 1 .. p |-> g[i]] /\ SubSeq(h, 1, p) = [i \in 1 .. p |-> h[i]]
    BY <1>8, <1>10, <2>1
  <2>3. \A i \in 1 .. p : g[i] = h[i]
    BY <1>7, <1>11, <2>1
  <2> QED
    BY <2>2, <2>3
<1>13. /\ miss \in Nat /\ to <= (Len(block_table[s]) + miss) * BlockSize
  <2> HIDE DEF to
  <2> QED
    BY <1>1, <1>7, MissingBounds, ReservedRoom DEF miss
<1>14. m <= Len(g) /\ m <= Len(h)
  <2> HIDE DEF g, h
  <2> QED
    BY <1>1, <1>3, <1>7, <1>8, <1>10
<1>15. \A r \in Seqs : r # s => output'[r] = output[r]
  BY <1>1, <1>6 DEF TypeOK
<1> HIDE DEF h, g, to
<1>16. Gains(block_table[s] \o new, m, h)
  BY <1>6, GainsNothing DEF indexVars
<1>17. OwnPass(s, miss, new, to, h, m)
  BY <1>1, <1>5, <1>6, <1>7, <1>8, <1>9, <1>12, <1>13, <1>14, <1>15, <1>16 DEF OwnPass, ctx
<1>18. WInv' /\ WritesExclusively
  BY <1>1, <1>17, OwnPassKeeps
<1>19. ASSUME CInv PROVE CInv'
  <2>1. RegisteredCells /\ LiveCells /\ SavedCells /\ Phases
    BY <1>19 DEF CInv
  <2>2. \A q \in 1 .. context_len[s] : SubSeq(Hist(s)', 1, q) = SubSeq(Hist(s), 1, q)
    <3>1. \A q \in 1 .. ctx : q \in Nat /\ q <= Len(old)
      BY <1>1, <1>2
    <3>2. \A q \in 1 .. ctx : SubSeq(g, 1, q) = SubSeq(old, 1, q)
      BY <1>1, <1>4, <3>1, PrefixOfConcat DEF g
    <3> QED
      BY <1>9, <3>2 DEF ctx, old
  <2>3. RegisteredCells' /\ LiveCells'
    BY <1>1, <1>17, <2>1, <2>2, OwnPassKeeps
  <2>4. \A r \in Seqs : \/ adapter'[r] = adapter[r] /\ Hist(r)' = Hist(r)
                        \/ swapped_context_len[r] = 0
    BY <1>2, <1>6, <1>15, <2>1 DEF Phases, Hist
  <2>5. SavedCells'
    BY <1>1, <1>6, <2>1, <2>4, SavedUntouched
  <2>6. Phases'
    <3>1. context_len'[s] = m /\ \A r \in Seqs : r # s => context_len'[r] = context_len[r]
      BY <1>1, <1>6 DEF TypeOK
    <3>2. ~(m < Len(prompt[s]))
      BY <1>1, <1>2, <1>7
    <3> QED
      BY <1>1, <1>2, <1>6, <1>15, <2>1, <3>1, <3>2 DEF Phases, swapVars
  <2> QED
    BY <2>3, <2>5, <2>6 DEF CInv
<1> QED
  BY <1>18, <1>19

\* The blocks match_prefix() returns hold the K/V of the prompt.
LEMMA MatchedReads ==
    ASSUME TypeOK, IndexConsistent, RegisteredCells, OneAdapter,
           NEW p \in Seq(Tokens), Len(p) >= 1, NEW a \in Adapters
    PROVE  \A q \in 1 .. Len(MatchedBlocks(p)) * BlockSize :
               kv[MatchedBlocks(p)[IndexOf(q)]][SlotAt(q)] = Cell(a, p, q)
<1> DEFINE matched == MatchedBlocks(p)
           l       == MatchLen(p)
<1>1. /\ l \in Nat /\ l <= Len(p) \div BlockSize /\ Len(matched) = l /\ matched \in Seq(Blocks)
      /\ BlockSize \in Nat /\ Len(p) \in Nat
  BY MatchedBlocksOwned, SizesAssumption
<1>2. /\ Matchable(p) \in Nat /\ l \in 0 .. Matchable(p)
      /\ \A i \in 1 .. l : BlockPrefix(p, i) \in DOMAIN hash_to_block
  BY MatchLenExists
<1>3. \A i \in 1 .. l : matched[i] = hash_to_block[BlockPrefix(p, i)]
  BY DEF MatchedBlocks
<1> HIDE DEF matched, l
<1>4. l * BlockSize \in Nat
  BY <1>1
<1> SUFFICES ASSUME NEW q \in 1 .. l * BlockSize
             PROVE  kv[matched[IndexOf(q)]][SlotAt(q)] = Cell(a, p, q)
  BY <1>1 DEF matched
<1> DEFINE i == IndexOf(q)
           k == SlotAt(q)
           b == matched[i]
<1>5. q \in Nat /\ q >= 1 /\ q <= l * BlockSize
  BY <1>4
<1>6. i \in 1 .. l /\ i \in Nat /\ i >= 1 /\ i <= l
  <2>1. i \in 1 .. l
    BY <1>1, <1>5, PositionWithin
  <2> HIDE DEF i
  <2> QED
    BY <1>1, <2>1
<1>7. k \in Slots /\ q = (i - 1) * BlockSize + k + 1
  BY <1>5, PositionSplits
<1> HIDE DEF i, k
<1>8. /\ i * BlockSize \in Nat /\ i * BlockSize - BlockSize + k + 1 = q /\ q <= i * BlockSize
  BY <1>6, <1>7, PositionOfSlot
<1>9. i * BlockSize <= Len(p)
  <2>1. Len(p) \div BlockSize \in Nat
    BY <1>1, BlocksNeededBounds
  <2>2. i <= Len(p) \div BlockSize
    BY <1>1, <1>6, <2>1
  <2> QED
    BY <1>1, <1>6, <2>2, WholeBlocksFit
<1>10. b \in DOMAIN block_hash_info /\ block_hash_info[b] = BlockPrefix(p, i) /\ b \in Blocks
  BY <1>2, <1>3, <1>6 DEF IndexConsistent, TypeOK
<1>11. kv[b][k].prefix = SubSeq(block_hash_info[b], 1, Len(block_hash_info[b]) - BlockSize + k + 1)
  BY <1>7, <1>10 DEF RegisteredCells
<1> DEFINE e == i * BlockSize
<1>12. block_hash_info[b] = SubSeq(p, 1, e)
  BY <1>10 DEF BlockPrefix
<1>13. e \in Nat /\ e <= Len(p) /\ q <= e /\ e - BlockSize + k + 1 = q
  BY <1>8, <1>9
<1> HIDE DEF e, b
<1>14. SubSeq(SubSeq(p, 1, e), 1, q) = SubSeq(p, 1, q) /\ Len(SubSeq(p, 1, e)) = e
  BY <1>5, <1>13, PrefixOfPrefix
<1>15. kv[b][k].prefix = SubSeq(p, 1, q)
  BY <1>11, <1>12, <1>13, <1>14
<1>16. SubSeq(p, 1, q) # <<>>
  <2>1. Len(SubSeq(p, 1, q)) = q
    BY <1>1, <1>5, <1>13
  <2> QED
    BY <1>5, <2>1
<1>17. kv[b][k] \in [adapter : Adapters, prefix : Seq(Tokens)]
  <2>1. kv[b][k] \in Cells
    BY <1>7, <1>10 DEF TypeOK
  <2>2. kv[b][k] # Stale
    BY <1>15, <1>16 DEF Stale
  <2> QED
    BY <2>1, <2>2 DEF Cells
<1>18. kv[b][k].adapter = a
  <2>1. EnablePrefixCaching
    BY <1>2, <1>6 DEF Matchable
  <2>2. Adapters = {BaseModel}
    BY <2>1 DEF OneAdapter
  <2> QED
    BY <1>17, <2>2
<1>19. kv[b][k] = Cell(a, p, q)
  BY <1>15, <1>17, <1>18 DEF Cell
<1> QED
  BY <1>19 DEF b, i, k

\* A table that starts with matched blocks.
LEMMA MatchedGrows ==
    ASSUME TypeOK, OwnershipExact, IndexConsistent, lost = {}, lost' = {},
           NEW s \in Seqs, Elems(block_table[s]) = {}, NEW p \in Seq(Tokens), Len(p) >= 1,
           NEW n \in Nat, NEW new \in Fresh(n),
           Account({}, Elems(MatchedBlocks(p)), Elems(new)),
           block_table' = [block_table EXCEPT ![s] = MatchedBlocks(p) \o new]
    PROVE  /\ Grows(s, MatchedBlocks(p), n, new, Elems(MatchedBlocks(p)))
           /\ Elems(MatchedBlocks(p)) \subseteq DOMAIN block_hash_info
           /\ Frontier(s, MatchedBlocks(p), Len(MatchedBlocks(p)) * BlockSize)
           /\ Len(MatchedBlocks(p)) * BlockSize \in Nat
           /\ Len(MatchedBlocks(p)) * BlockSize <= Len(p)
           /\ Len(MatchedBlocks(p)) \in Nat /\ MatchedBlocks(p) \in Seq(Blocks)
           /\ Len(MatchedBlocks(p) \o new) = Len(MatchedBlocks(p)) + n
<1> DEFINE matched == MatchedBlocks(p)
           l       == MatchLen(p)
<1>1. /\ l \in Nat /\ l <= Len(p) \div BlockSize /\ Len(matched) = l /\ matched \in Seq(Blocks)
      /\ \A i \in 1 .. l : matched[i] \notin free_blocks
      /\ \A i, j \in 1 .. l : matched[i] = matched[j] => i = j
      /\ BlockSize \in Nat /\ Len(p) \in Nat
  BY MatchedBlocksOwned, SizesAssumption
<1>2. \A i \in 1 .. l : /\ BlockPrefix(p, i) \in DOMAIN hash_to_block
                        /\ matched[i] = hash_to_block[BlockPrefix(p, i)]
  BY MatchLenExists DEF MatchedBlocks
<1> HIDE DEF matched, l
<1>3. DOMAIN matched = 1 .. l
  BY <1>1
<1>4. Elems(matched) \in SUBSET (Blocks \ free_blocks)
  BY <1>1, <1>3 DEF Elems
<1>5. Elems(matched) \subseteq DOMAIN block_hash_info
  BY <1>2, <1>3 DEF Elems, IndexConsistent
<1>6. Grows(s, matched, n, new, Elems(matched))
  BY <1>1, <1>3, <1>4 DEF Grows, matched
<1>7. l * BlockSize \in Nat /\ l * BlockSize <= Len(p)
  BY <1>1, WholeBlocksFit
<1>8. Frontier(s, matched, l * BlockSize)
  <2>1. \A x, y \in Nat : x <= y => x * BlockSize <= y * BlockSize
    BY <1>1, SMTT(30)
  <2> QED
    BY <1>1, <1>3, <2>1 DEF Frontier
<1>9. Len(matched \o new) = Len(matched) + n
  <2> DEFINE Shared == Elems(matched)
  <2>1. TypeOK /\ OwnershipExact /\ Grows(s, matched, n, new, Shared)
    BY <1>6
  <2> HIDE DEF Shared
  <2> QED
    BY ONLY <2>1, TableGrows
<1> QED
  BY <1>1, <1>5, <1>6, <1>7, <1>8, <1>9 DEF matched

\* The first pass of a prompt, over the blocks its prefix matched.
LEMMA StartPrefillContents ==
    ASSUME IInv, IInv', WInv, NEW s \in Seqs, NEW p \in Prompts, NEW a \in Adapters,
           NEW n \in 1 .. MaxLen, StartPrefill(s, p, a, n)
    PROVE  WInv' /\ WritesExclusively /\ (OneAdapter /\ CInv => CInv')
<1> DEFINE matched == MatchedBlocks(p)
           start   == Len(matched) * BlockSize
           upto    == start + n
           miss    == Missing(matched, upto)
           Shared  == Elems(matched)
           g       == Hist(s)'
<1>1. /\ TypeOK /\ TypeOK' /\ OwnershipExact /\ IndexConsistent /\ lost = {} /\ lost' = {}
      /\ Elems(block_table[s]) = {} /\ place[s] = "absent"
  BY IdleTable DEF IInv, StartPrefill
<1>2. /\ p \in Seq(Tokens) /\ Len(p) >= 1 /\ Len(p) \in Nat
      /\ n \in Nat /\ n >= 1 /\ BlockSize \in Nat
  BY PromptsAssumption, SizesAssumption
<1>3. matched \in Seq(Blocks) /\ Len(matched) \in Nat
  BY <1>1, <1>2, MatchedBlocksOwned
<1>4. IF EnableChunking THEN n <= Len(p) - start ELSE n = Len(p) - start
  BY DEF StartPrefill
<1>5. start \in Nat
  BY <1>2, <1>3
<1> HIDE DEF matched, start
<1>6. upto \in Nat /\ start <= upto /\ upto <= Len(p)
  BY <1>2, <1>4, <1>5
<1> HIDE DEF upto
<1>7. /\ miss \in Nat /\ upto \div BlockSize <= Len(matched) + miss
      /\ upto <= (Len(matched) + miss) * BlockSize
  BY <1>3, <1>6, MissingBounds, ReservedRoom
<1>8. PICK new \in Fresh(miss) :
         LET tab == matched \o new IN
         /\ Account({}, Shared, Elems(new))
         /\ place' = [place EXCEPT ![s] = "live"]
         /\ block_table' = [block_table EXCEPT ![s] = tab]
         /\ context_len' = [context_len EXCEPT ![s] = upto]
         /\ kv' = Written(tab, a, p, start + 1, upto)
         /\ prompt' = [prompt EXCEPT ![s] = p]
         /\ adapter' = [adapter EXCEPT ![s] = a]
         /\ IF upto = Len(p)
            THEN FinishPrefill(s, tab, p)
            ELSE UNCHANGED <<output, indexVars>>
  BY DEF StartPrefill, matched, start, upto
<1> HIDE DEF miss, Shared
<1> DEFINE tab == matched \o new
<1>9. /\ Grows(s, matched, miss, new, Shared) /\ Shared \subseteq DOMAIN block_hash_info
      /\ Frontier(s, matched, start) /\ Len(tab) = Len(matched) + miss
  BY <1>1, <1>2, <1>7, <1>8, MatchedGrows DEF matched, start, Shared
<1>10. tab \in Seq(Blocks) /\ \A i, j \in DOMAIN tab : tab[i] = tab[j] => i = j
  BY <1>1, <1>9, TableGrows
<1> HIDE DEF tab
<1>11. Gains(tab, upto, p)
  <2>1. CASE upto = Len(p)
    <3>1. RegisterPrefix(tab, p)
      BY <1>8, <2>1 DEF FinishPrefill, tab
    <3> QED
      BY <1>2, <1>7, <1>9, <1>10, <2>1, <3>1, RegisterGains
  <2>2. CASE upto # Len(p)
    BY <1>8, <2>2, GainsNothing DEF indexVars
  <2> QED
    BY <2>1, <2>2
<1>12. \A r \in Seqs : r # s => /\ output'[r] = output[r] /\ prompt'[r] = prompt[r]
                                /\ adapter'[r] = adapter[r] /\ Hist(r)' = Hist(r)
  BY <1>1, <1>8 DEF FinishPrefill, TypeOK, Hist
<1>13. g = p \o output'[s] /\ output'[s] \in Seq(Tokens) /\ adapter'[s] = a /\ prompt'[s] = p
  BY <1>1, <1>8 DEF Hist, TypeOK
<1>14. /\ g \in Seq(Tokens) /\ upto <= Len(g)
       /\ \A q \in 1 .. upto : SubSeq(g, 1, q) = SubSeq(p, 1, q)
  <2>1. \A q \in 1 .. upto : q \in Nat /\ q <= Len(p)
    BY <1>2, <1>6
  <2>2. g \in Seq(Tokens) /\ Len(g) = Len(p) + Len(output'[s]) /\ Len(output'[s]) \in Nat
    BY <1>2, <1>13, ConcatParts
  <2>3. upto <= Len(g)
    <3> HIDE DEF g
    <3> QED
      BY <1>2, <1>6, <2>2
  <2>4. \A q \in 1 .. upto : SubSeq(p \o output'[s], 1, q) = SubSeq(p, 1, q)
    BY <1>2, <1>13, <2>1, PrefixOfConcat
  <2>5. \A q \in 1 .. upto : SubSeq(g, 1, q) = SubSeq(p, 1, q)
    BY ONLY <1>13, <2>4, Zenon
  <2> HIDE DEF g
  <2> QED
    BY <2>2, <2>3, <2>5
<1> HIDE DEF g
<1> DEFINE from == start + 1
<1>15. from \in Nat /\ from >= 1 /\ from - 1 = start
  BY <1>5
<1>16. Computes(s, matched, miss, new, Shared, a, p, from, upto)
  BY <1>6, <1>7, <1>8, <1>9, <1>15 DEF Computes, tab
<1> HIDE DEF from
<1>17. Pass(s, matched, miss, new, Shared, a, p, from, upto, upto, g)
  BY <1>2, <1>6, <1>8, <1>9, <1>11, <1>12, <1>13, <1>14, <1>15, <1>16 DEF Pass, tab, g
<1>18. WInv' /\ WritesExclusively
  BY <1>1, <1>17, PassWrites
<1>19. ASSUME OneAdapter, CInv PROVE CInv'
  <2>1. RegisteredCells /\ LiveCells /\ SavedCells /\ Phases
    BY <1>19 DEF CInv
  <2>2. \A q \in 1 .. start : kv[matched[IndexOf(q)]][SlotAt(q)] = Cell(a, p, q)
    BY <1>1, <1>2, <1>19, <2>1, MatchedReads DEF matched, start
  <2>3. \A q \in 1 .. from - 1 : kv[matched[IndexOf(q)]][SlotAt(q)] = Cell(a, g, q)
    <3>1. \A q \in 1 .. from - 1 : q \in 1 .. start /\ q \in 1 .. upto
      BY <1>5, <1>6, <1>15
    <3> QED
      BY <1>14, <2>2, <3>1 DEF Cell
  <2>4. from - 1 <= Len(matched) * BlockSize
    BY <1>5, <1>15 DEF start
  <2>5. RegisteredCells' /\ LiveCells'
    BY <1>1, <1>17, <2>1, <2>3, <2>4, PassCells
  <2>6. UNCHANGED swapVars
    BY DEF StartPrefill
  <2>7. SavedCells'
    <3>1. swapped_context_len[s] = 0
      BY <1>1, <2>1 DEF Phases
    <3> QED
      BY <1>1, <1>12, <2>1, <2>6, <3>1, SavedUntouched
  <2>8. Phases'
    <3>1. /\ context_len'[s] = upto /\ place'[s] = "live"
          /\ \A r \in Seqs : r # s => context_len'[r] = context_len[r] /\ place'[r] = place[r]
      BY <1>1, <1>8 DEF TypeOK
    <3>2. upto < Len(p) => output'[s] = <<>>
      <4>1. output[s] = <<>>
        BY <1>1, <2>1 DEF Phases
      <4>2. upto < Len(p) => upto # Len(p)
        BY <1>2, <1>6
      <4> QED
        BY <1>8, <4>1, <4>2
    <3> QED
      BY <1>1, <1>12, <1>13, <2>1, <2>6, <3>1, <3>2 DEF Phases, swapVars
  <2> QED
    BY <2>5, <2>7, <2>8 DEF CInv
<1> QED
  BY <1>18, <1>19

\* A prompt that runs out of blocks: its matched blocks are read, nothing is computed.
LEMMA PrefillOOMContents ==
    ASSUME IInv, IInv', WInv, NEW s \in Seqs, NEW p \in Prompts, NEW a \in Adapters, PrefillOOM(s, p, a)
    PROVE  WInv' /\ WritesExclusively /\ (OneAdapter /\ CInv => CInv')
<1> DEFINE matched == MatchedBlocks(p)
           start   == Len(matched) * BlockSize
           room    == Cardinality(free_blocks)
           Shared  == Elems(matched)
           g       == Hist(s)'
<1>1. /\ TypeOK /\ TypeOK' /\ OwnershipExact /\ IndexConsistent /\ lost = {} /\ lost' = {}
      /\ Elems(block_table[s]) = {} /\ place[s] = "absent"
  BY IdleTable DEF IInv, PrefillOOM
<1>2. p \in Seq(Tokens) /\ Len(p) >= 1 /\ Len(p) \in Nat
  BY PromptsAssumption
<1>3. room \in Nat
  <2>1. IsFiniteSet(free_blocks)
    BY <1>1, BlocksAssumption, FS_Subset DEF TypeOK
  <2> QED
    BY <2>1, FS_CardinalityType
<1>4. PICK new \in Fresh(room) :
         /\ Account({}, Shared, Elems(new))
         /\ block_table' = [block_table EXCEPT ![s] = matched \o new]
  BY DEF PrefillOOM
<1>5. /\ place' = [place EXCEPT ![s] = "live"]
      /\ context_len' = [context_len EXCEPT ![s] = start]
      /\ prompt' = [prompt EXCEPT ![s] = p]
      /\ adapter' = [adapter EXCEPT ![s] = a]
      /\ UNCHANGED <<kv, indexVars, swapVars, output>>
  BY DEF PrefillOOM
<1> HIDE DEF room
<1> DEFINE tab == matched \o new
<1>6. /\ Grows(s, matched, room, new, Shared) /\ Shared \subseteq DOMAIN block_hash_info
      /\ Frontier(s, matched, start) /\ start \in Nat /\ start <= Len(p)
      /\ Len(matched) \in Nat /\ Len(tab) = Len(matched) + room
  BY <1>1, <1>2, <1>3, <1>4, MatchedGrows
<1>7. start <= Len(tab) * BlockSize
  <2>1. \A x, y \in Nat : x * BlockSize <= (x + y) * BlockSize
    BY SizesAssumption, SMTT(30)
  <2> DEFINE l == Len(matched)
             t == Len(tab)
  <2>2. l \in Nat /\ t = l + room
    BY <1>6
  <2> HIDE DEF l, t
  <2>3. l * BlockSize <= t * BlockSize
    BY <1>3, <2>1, <2>2
  <2> QED
    BY <2>3 DEF l, t
<1> HIDE DEF matched, start, Shared, tab
<1>8. \A r \in Seqs : r # s => /\ output'[r] = output[r] /\ prompt'[r] = prompt[r]
                               /\ adapter'[r] = adapter[r] /\ Hist(r)' = Hist(r)
  BY <1>1, <1>5 DEF TypeOK, Hist
<1>9. g = p \o output'[s] /\ output'[s] \in Seq(Tokens) /\ adapter'[s] = a /\ prompt'[s] = p
  BY <1>1, <1>5 DEF Hist, TypeOK
<1>10. /\ g \in Seq(Tokens) /\ start <= Len(g)
       /\ \A q \in 1 .. start : SubSeq(g, 1, q) = SubSeq(p, 1, q)
  <2>1. \A q \in 1 .. start : q \in Nat /\ q <= Len(p)
    BY <1>2, <1>6
  <2>2. g \in Seq(Tokens) /\ Len(g) = Len(p) + Len(output'[s]) /\ Len(output'[s]) \in Nat
    BY <1>2, <1>9, ConcatParts
  <2>3. start <= Len(g)
    <3> HIDE DEF g
    <3> QED
      BY <1>2, <1>6, <2>2
  <2> QED
    BY <1>2, <1>9, <2>1, <2>2, <2>3, PrefixOfConcat
<1> HIDE DEF g
<1> DEFINE from == start + 1
<1>11. from \in Nat /\ from >= 1 /\ from - 1 = start /\ kv' = Written(tab, a, p, from, start)
  BY <1>1, <1>5, <1>6, NothingWritten
<1>12. Computes(s, matched, room, new, Shared, a, p, from, start)
  BY <1>6, <1>7, <1>11 DEF Computes, tab
<1> HIDE DEF from
<1>13. Gains(tab, start, p)
  BY <1>5, GainsNothing DEF indexVars
<1>14. Pass(s, matched, room, new, Shared, a, p, from, start, start, g)
  BY <1>2, <1>5, <1>6, <1>8, <1>9, <1>10, <1>11, <1>12, <1>13 DEF Pass, tab, g
<1>15. WInv' /\ WritesExclusively
  BY <1>1, <1>14, PassWrites
<1>16. ASSUME OneAdapter, CInv PROVE CInv'
  <2>1. RegisteredCells /\ LiveCells /\ SavedCells /\ Phases
    BY <1>16 DEF CInv
  <2>2. \A q \in 1 .. start : kv[matched[IndexOf(q)]][SlotAt(q)] = Cell(a, p, q)
    BY <1>1, <1>2, <1>16, <2>1, MatchedReads DEF matched, start
  <2>3. \A q \in 1 .. from - 1 : kv[matched[IndexOf(q)]][SlotAt(q)] = Cell(a, g, q)
    BY <1>6, <1>10, <1>11, <2>2 DEF Cell
  <2>4. from - 1 <= Len(matched) * BlockSize
    BY <1>6, <1>11 DEF start
  <2>5. RegisteredCells' /\ LiveCells'
    BY <1>1, <1>14, <2>1, <2>3, <2>4, PassCells
  <2>6. SavedCells'
    <3>1. swapped_context_len[s] = 0
      BY <1>1, <2>1 DEF Phases
    <3> QED
      BY <1>1, <1>5, <1>8, <2>1, <3>1, SavedUntouched
  <2>7. Phases'
    <3>1. /\ place'[s] = "live"
          /\ \A r \in Seqs : r # s => context_len'[r] = context_len[r] /\ place'[r] = place[r]
      BY <1>1, <1>5 DEF TypeOK
    <3>2. output'[s] = <<>>
      BY <1>1, <1>5, <2>1 DEF Phases
    <3> QED
      BY <1>1, <1>5, <1>8, <2>1, <3>1, <3>2 DEF Phases, swapVars
  <2> QED
    BY <2>5, <2>6, <2>7 DEF CInv
<1> QED
  BY <1>15, <1>16

-----------------------------------------------------------------------------
(* The actions that give blocks back *)

\* The sequences of V let go of their tables; the tables of the others keep
\* their blocks, in place, and may get blocks nobody else has.
LetsGo(V) ==
    /\ lost = {} /\ V \in SUBSET Seqs /\ Unindex(V)
    /\ \A r \in V : block_table'[r] = <<>> /\ context_len'[r] = 0
    /\ \A r \in Seqs \ V :
         /\ context_len[r] <= context_len'[r]
         /\ context_len'[r] <= Len(block_table'[r]) * BlockSize
         /\ \A i \in DOMAIN block_table'[r] :
              \/ i \in DOMAIN block_table[r] /\ block_table'[r][i] = block_table[r][i]
              \/ /\ block_table'[r][i] \in Available(V)
                 /\ \A q \in Seqs : q # r => block_table'[r][i] \notin Elems(block_table'[q])

\* What somebody else still holds is not given back; what is given back is no
\* longer registered.
LEMMA SurvivorsKeep ==
    ASSUME TypeOK, OwnershipExact, IndexConsistent, lost = {}, NEW V \in SUBSET Seqs, Unindex(V)
    PROVE  /\ \A r \in Seqs \ V : \A b \in BlocksOf(r) : b \notin Available(V) /\ b \notin Dropped(V)
           /\ \A b \in Available(V) : b \notin DOMAIN block_hash_info'
           /\ DOMAIN block_hash_info' = DOMAIN block_hash_info \ Dropped(V)
           /\ \A b \in DOMAIN block_hash_info' : block_hash_info'[b] = block_hash_info[b]
<1>1. \A r \in Seqs \ V : \A b \in BlocksOf(r) : b \notin Available(V) /\ b \notin Dropped(V)
  <2>1. \A b \in Available(V) : Holders(b) \subseteq V
    BY AvailableHeldByV
  <2>2. Dropped(V) \subseteq Available(V)
    BY DEF Available
  <2> QED
    BY <2>1, <2>2 DEF Holders
<1>2. /\ DOMAIN block_hash_info' = DOMAIN block_hash_info \ Dropped(V)
      /\ \A b \in DOMAIN block_hash_info' : block_hash_info'[b] = block_hash_info[b]
  BY DEF Unindex
<1>3. \A b \in Available(V) : b \notin DOMAIN block_hash_info'
  BY <1>2 DEF Available, IndexConsistent
<1> QED
  BY <1>1, <1>2, <1>3

LEMMA ReleaseKeepsWInv ==
    ASSUME TypeOK, TypeOK', OwnershipExact, IndexConsistent, WInv, NEW V, LetsGo(V)
    PROVE  WInv'
<1>1. /\ lost = {} /\ V \in SUBSET Seqs /\ Unindex(V)
      /\ \A r \in V : block_table'[r] = <<>>
  BY DEF LetsGo
<1>2. /\ \A r \in Seqs \ V : \A b \in BlocksOf(r) : b \notin Available(V) /\ b \notin Dropped(V)
      /\ \A b \in Available(V) : b \notin DOMAIN block_hash_info'
      /\ DOMAIN block_hash_info' = DOMAIN block_hash_info \ Dropped(V)
  BY <1>1, SurvivorsKeep
<1>3. \A r \in Seqs : DOMAIN block_table'[r] # {} => r \in Seqs \ V
  BY <1>1
<1>4. FullWhenRegistered'
  <2> SUFFICES ASSUME NEW r \in Seqs, NEW i \in DOMAIN block_table'[r],
                      block_table'[r][i] \in DOMAIN block_hash_info'
               PROVE  i * BlockSize <= context_len'[r]
    BY DEF FullWhenRegistered
  <2>1. r \in Seqs \ V /\ context_len[r] <= context_len'[r]
    BY <1>3 DEF LetsGo
  <2>2. i \in DOMAIN block_table[r] /\ block_table'[r][i] = block_table[r][i]
    BY <1>2, <2>1 DEF LetsGo
  <2>3. i * BlockSize <= context_len[r]
    BY <1>2, <2>2 DEF WInv, FullWhenRegistered
  <2>4. /\ i \in Nat /\ BlockSize \in Nat /\ context_len[r] \in Nat /\ context_len'[r] \in Nat
    <3>1. block_table[r] \in Seq(Blocks) /\ context_len[r] \in Nat /\ context_len'[r] \in Nat
      BY DEF TypeOK
    <3> QED
      BY <2>2, <3>1, SizesAssumption
  <2>5. i * BlockSize \in Nat
    BY <2>4
  <2> QED
    BY <2>1, <2>3, <2>4, <2>5
<1>5. SharedThroughIndex'
  <2> SUFFICES ASSUME NEW q \in Seqs, NEW r \in Seqs,
                      NEW i \in DOMAIN block_table'[q], NEW j \in DOMAIN block_table'[r],
                      q # r, block_table'[q][i] = block_table'[r][j]
               PROVE  block_table'[q][i] \in DOMAIN block_hash_info'
    BY DEF SharedThroughIndex
  <2>1. q \in Seqs \ V /\ r \in Seqs \ V
    BY <1>3
  <2>2. block_table'[q][i] \in Elems(block_table'[q]) /\ block_table'[q][i] \in Elems(block_table'[r])
    BY DEF Elems
  <2>3. i \in DOMAIN block_table[q] /\ block_table'[q][i] = block_table[q][i]
    BY <2>1, <2>2 DEF LetsGo
  <2>4. j \in DOMAIN block_table[r] /\ block_table'[r][j] = block_table[r][j]
    BY <2>1, <2>2 DEF LetsGo
  <2>5. block_table[q][i] \in DOMAIN block_hash_info
    BY <2>3, <2>4 DEF WInv, SharedThroughIndex
  <2>6. block_table[q][i] \in BlocksOf(q)
    BY <2>3 DEF BlocksOf
  <2> QED
    BY <1>2, <2>1, <2>3, <2>5, <2>6
<1>6. TablesCover'
  <2> SUFFICES ASSUME NEW r \in Seqs PROVE context_len'[r] <= Len(block_table'[r]) * BlockSize
    BY DEF TablesCover
  <2>1. CASE r \in V
    BY <2>1, SizesAssumption DEF LetsGo
  <2> QED
    BY <2>1 DEF LetsGo
<1> QED
  BY <1>4, <1>5, <1>6 DEF WInv

\* A registered block that stays registered keeps its cells.
LEMMA ReleaseKeepsIndexed ==
    ASSUME TypeOK, OwnershipExact, IndexConsistent, RegisteredCells, NEW V, LetsGo(V),
           \A b \in DOMAIN block_hash_info' : kv'[b] = kv[b]
    PROVE  RegisteredCells'
<1>1. /\ DOMAIN block_hash_info' = DOMAIN block_hash_info \ Dropped(V)
      /\ \A b \in DOMAIN block_hash_info' : block_hash_info'[b] = block_hash_info[b]
  BY SurvivorsKeep DEF LetsGo
<1> SUFFICES ASSUME NEW b \in DOMAIN block_hash_info', NEW k \in Slots
             PROVE  kv'[b][k].prefix =
                       SubSeq(block_hash_info'[b], 1, Len(block_hash_info'[b]) - BlockSize + k + 1)
  BY DEF RegisteredCells, Slots
<1>2. kv'[b] = kv[b] /\ block_hash_info'[b] = block_hash_info[b]
  BY <1>1
<1>3. kv[b][k].prefix = SubSeq(block_hash_info[b], 1, Len(block_hash_info[b]) - BlockSize + k + 1)
  BY <1>1 DEF RegisteredCells
<1> QED
  BY ONLY <1>2, <1>3, Zenon

\* Letting go of everything: what is left of the pool is what the others read.
LEMMA PoolWithoutKeeps ==
    ASSUME TypeOK, TypeOK', OwnershipExact, IndexConsistent, NEW V, LetsGo(V), kv' = PoolWithout(V),
           \A r \in V : context_len'[r] = 0,
           \A r \in Seqs \ V : /\ block_table'[r] = block_table[r] /\ context_len'[r] = context_len[r]
                               /\ adapter'[r] = adapter[r] /\ Hist(r)' = Hist(r)
    PROVE  /\ WritesExclusively
           /\ RegisteredCells => RegisteredCells'
           /\ LiveCells => LiveCells'
<1>1. /\ lost = {} /\ V \in SUBSET Seqs /\ Unindex(V) /\ \A r \in V : block_table'[r] = <<>>
  BY DEF LetsGo
<1>2. /\ \A r \in Seqs \ V : \A b \in BlocksOf(r) : b \notin Available(V) /\ b \notin Dropped(V)
      /\ DOMAIN block_hash_info' = DOMAIN block_hash_info \ Dropped(V)
  BY <1>1, SurvivorsKeep
<1>3. \A b \in Blocks : kv'[b] = IF b \in Dropped(V) THEN StaleBlock ELSE kv[b]
  BY DEF PoolWithout
<1>4. WritesExclusively
  BY <1>3 DEF WritesExclusively
<1>5. ASSUME RegisteredCells PROVE RegisteredCells'
  <2>1. \A b \in DOMAIN block_hash_info' : kv'[b] = kv[b]
    BY <1>2, <1>3 DEF TypeOK
  <2> QED
    BY <1>5, <2>1, ReleaseKeepsIndexed
<1>6. ASSUME LiveCells PROVE LiveCells'
  <2> SUFFICES ASSUME NEW r \in Seqs
               PROVE  Coherent(Snapshot(block_table[r])', adapter'[r], Hist(r)', context_len'[r])
    BY DEF LiveCells
  <2>1. CASE r \in V
    <3>1. Len(Snapshot(block_table[r])') = 0 /\ context_len'[r] = 0
      BY <1>1, <2>1 DEF Snapshot
    <3>2. Len(Hist(r)') \in Nat
      BY DEF TypeOK, Hist
    <3> DEFINE x == Snapshot(block_table[r])'
               h == Hist(r)'
    <3> HIDE DEF x, h
    <3>3. Coherent(x, adapter'[r], h, 0)
      BY <3>1, <3>2, NothingToRead DEF x, h
    <3> QED
      BY <3>1, <3>3 DEF x, h
  <2>2. CASE r \notin V
    <3>1. \A b \in BlocksOf(r) : b \in Blocks => kv'[b] = kv[b]
      BY <1>2, <1>3, <2>2
    <3> QED
      BY <1>6, <2>2, <3>1, UntouchedReads
  <2> QED
    BY <2>1, <2>2
<1> QED
  BY <1>4, <1>5, <1>6

\* A copy keeps its positions when stale blocks are put behind it.
LEMMA CoherentExtra ==
    ASSUME NEW S, NEW x \in Seq(S), NEW y \in Seq(S), NEW a, NEW h, NEW n \in Nat, Coherent(x, a, h, n)
    PROVE  Coherent(x \o y, a, h, n)
<1> DEFINE z == x \o y
<1>1. /\ z \in Seq(S) /\ Len(z) = Len(x) + Len(y) /\ Len(x) \in Nat /\ Len(y) \in Nat
      /\ \A i \in 1 .. Len(x) : z[i] = x[i]
  OBVIOUS
<1>2. n <= Len(h) /\ n <= Len(x) * BlockSize /\ \A p \in 1 .. n : BlockAt(x, p)[SlotAt(p)] = Cell(a, h, p)
  BY DEF Coherent
<1> HIDE DEF z
<1>3. /\ Len(x) * BlockSize \in Nat /\ Len(z) * BlockSize \in Nat
      /\ Len(x) * BlockSize <= Len(z) * BlockSize
  <2>1. \A k, l \in Nat : /\ k * BlockSize <= (k + l) * BlockSize
                          /\ k * BlockSize \in Nat /\ (k + l) * BlockSize \in Nat
    BY SizesAssumption, SMTT(30)
  <2> QED
    BY <1>1, <2>1
<1>4. n <= Len(z) * BlockSize
  BY <1>2, <1>3
<1>5. ASSUME NEW p \in 1 .. n PROVE BlockAt(z, p) = BlockAt(x, p)
  <2>1. p \in Nat /\ p >= 1 /\ p <= Len(x) * BlockSize
    BY <1>2, <1>3
  <2>2. IndexOf(p) \in 1 .. Len(x) /\ BlockAt(z, p) = z[IndexOf(p)] /\ BlockAt(x, p) = x[IndexOf(p)]
    BY <1>1, <2>1, PositionWithin, PositionSplits
  <2> QED
    BY <1>1, <2>2
<1> QED
  BY <1>2, <1>4, <1>5 DEF Coherent, z

\* The sequences of V are preempted; the others go on with a whole prompt, or
\* stay as they are.
Preempts(V, extra) ==
    /\ V \in SUBSET Seqs /\ extra \in Nat /\ Evict(V, extra)
    /\ \A r \in V : /\ place[r] = "live" /\ context_len[r] >= Len(prompt[r])
                    /\ context_len'[r] = 0 /\ output'[r] = KeptOutput(r, V)
    /\ \A r \in Seqs \ V :
          \/ /\ place[r] = "live" /\ context_len[r] >= Len(prompt[r])
             /\ context_len[r] <= context_len'[r]
          \/ output'[r] = output[r] /\ context_len'[r] = context_len[r]

LEMMA PreemptsKeeps ==
    ASSUME TypeOK, TypeOK', LiveCells, SavedCells, Phases, NEW V, NEW extra, Preempts(V, extra)
    PROVE  SavedCells' /\ Phases'
<1>1. /\ V \in SUBSET Seqs /\ extra \in Nat
      /\ \A r \in V : place[r] = "live" /\ context_len[r] >= Len(prompt[r])
                      /\ context_len'[r] = 0 /\ output'[r] = KeptOutput(r, V)
  BY DEF Preempts
<1>2. \A r \in Seqs \ V : /\ place'[r] = place[r] /\ prompt'[r] = prompt[r] /\ adapter'[r] = adapter[r]
                          /\ swapped_kv'[r] = swapped_kv[r]
                          /\ swapped_context_len'[r] = swapped_context_len[r]
  BY <1>1 DEF Preempts, Evict, TypeOK, swapVars
<1>3. \A r \in Seqs \ V : /\ place[r] # "live" => output'[r] = output[r] /\ context_len'[r] = context_len[r]
                          /\ context_len[r] <= context_len'[r]
  BY DEF Preempts, TypeOK
<1>4. \A r \in Seqs \ V : Coherent(swapped_kv'[r], adapter'[r], Hist(r)', swapped_context_len'[r])
  <2> SUFFICES ASSUME NEW r \in Seqs \ V
               PROVE  Coherent(swapped_kv'[r], adapter'[r], Hist(r)', swapped_context_len'[r])
    OBVIOUS
  <2>1. CASE place[r] = "live"
    <3>1. swapped_context_len'[r] = 0
      BY <1>2, <2>1 DEF Phases
    <3>2. Len(Hist(r)') \in Nat /\ Len(swapped_kv'[r]) \in Nat
      BY DEF TypeOK, Hist
    <3> DEFINE h == Hist(r)'
    <3> HIDE DEF h
    <3>3. Coherent(swapped_kv'[r], adapter'[r], h, 0)
      BY <3>2, NothingToRead DEF h
    <3> QED
      BY <3>1, <3>3 DEF h
  <2>2. CASE place[r] # "live"
    <3>1. Hist(r)' = Hist(r)
      BY <1>2, <1>3, <2>2 DEF Hist
    <3> QED
      BY <1>2, <3>1 DEF SavedCells
  <2> QED
    BY <2>1, <2>2
<1>5. CASE EnableSwap
  <2>1. \A r \in V : /\ swapped_kv'[r] = Snapshot(block_table[r]) \o [i \in 1 .. extra |-> StaleBlock]
                     /\ swapped_context_len'[r] = context_len[r] /\ place'[r] = "swapped"
                     /\ prompt'[r] = prompt[r] /\ adapter'[r] = adapter[r] /\ output'[r] = output[r]
    BY <1>1, <1>5 DEF Preempts, Evict, KeptOutput
  <2>2. ASSUME NEW r \in V
        PROVE  Coherent(swapped_kv'[r], adapter'[r], Hist(r)', swapped_context_len'[r])
    <3> DEFINE S == [Slots -> Cells]
               x == Snapshot(block_table[r])
               y == [i \in 1 .. extra |-> StaleBlock]
               h == Hist(r)
    <3>1. x \in Seq(S)
      <4>1. /\ block_table[r] \in Seq(Blocks) /\ Len(block_table[r]) \in Nat
            /\ DOMAIN block_table[r] = 1 .. Len(block_table[r]) /\ kv \in [Blocks -> S]
        BY <1>1 DEF TypeOK
      <4> HIDE DEF S
      <4>2. x \in [1 .. Len(block_table[r]) -> S]
        BY <4>1 DEF Snapshot
      <4> QED
        BY <4>1, <4>2, FunctionsAreSequences
    <3>2. y \in Seq(S)
      <4>1. StaleBlock \in S
        BY StaleBlockType
      <4> HIDE DEF S
      <4>2. y \in [1 .. extra -> S]
        BY <4>1
      <4> QED
        BY <1>1, <4>2, FunctionsAreSequences
    <3>3. Coherent(x, adapter[r], h, context_len[r]) /\ context_len[r] \in Nat
      BY <1>1 DEF LiveCells, TypeOK
    <3>4. Hist(r)' = h
      BY <2>1 DEF Hist
    <3> HIDE DEF S, x, y, h
    <3>5. Coherent(x \o y, adapter[r], h, context_len[r])
      BY <3>1, <3>2, <3>3, CoherentExtra
    <3> QED
      BY <2>1, <3>4, <3>5 DEF x, y
  <2>3. SavedCells'
    BY <1>4, <2>2 DEF SavedCells
  <2>4. Phases'
    BY <1>1, <1>2, <1>3, <2>1 DEF Phases, Preempts, TypeOK
  <2> QED
    BY <2>3, <2>4
<1>6. CASE ~EnableSwap
  <2>1. \A r \in V : /\ place'[r] = "absent" /\ prompt'[r] = <<>> /\ output'[r] = <<>>
                     /\ context_len'[r] = 0
    BY <1>1, <1>6 DEF Preempts, Evict, KeptOutput
  <2>2. UNCHANGED swapVars
    BY <1>6 DEF Preempts, Evict
  <2>3. ASSUME NEW r \in V
        PROVE  Coherent(swapped_kv'[r], adapter'[r], Hist(r)', swapped_context_len'[r])
    <3>1. swapped_context_len'[r] = 0
      BY <1>1, <2>2 DEF Phases, swapVars
    <3>2. Len(Hist(r)') \in Nat /\ Len(swapped_kv'[r]) \in Nat
      BY <1>1 DEF TypeOK, Hist
    <3> DEFINE h == Hist(r)'
    <3> HIDE DEF h
    <3>3. Coherent(swapped_kv'[r], adapter'[r], h, 0)
      BY <3>2, NothingToRead DEF h
    <3> QED
      BY <3>1, <3>3 DEF h
  <2>4. SavedCells'
    BY <1>4, <2>3 DEF SavedCells
  <2>5. Phases'
    BY <1>1, <1>2, <1>3, <2>1, <2>2 DEF Phases, Preempts, swapVars, TypeOK
  <2> QED
    BY <2>4, <2>5
<1> QED
  BY <1>5, <1>6

\* A finished or cancelled sequence is freed.
LEMMA FreeSequenceContents ==
    ASSUME IInv, IInv', WInv, NEW s \in Seqs, FreeSequence(s)
    PROVE  WInv' /\ WritesExclusively /\ (CInv => CInv')
<1> DEFINE V == {s}
<1>1. /\ TypeOK /\ TypeOK' /\ OwnershipExact /\ IndexConsistent /\ lost = {} /\ place[s] = "live"
  BY IdleTable DEF IInv, FreeSequence
<1>2. /\ Unindex(V) /\ kv' = PoolWithout(V)
      /\ block_table' = [block_table EXCEPT ![s] = <<>>]
      /\ context_len' = [context_len EXCEPT ![s] = 0]
      /\ place' = [place EXCEPT ![s] = "absent"]
      /\ prompt' = [prompt EXCEPT ![s] = <<>>]
      /\ output' = [output EXCEPT ![s] = <<>>]
      /\ adapter' = [adapter EXCEPT ![s] = BaseModel]
      /\ UNCHANGED swapVars
  BY DEF FreeSequence
<1>3. V \in SUBSET Seqs /\ s \in V /\ \A r \in Seqs : r \notin V <=> r # s
  OBVIOUS
<1> HIDE DEF V
<1>4. /\ \A r \in V : r = s /\ block_table'[r] = <<>> /\ context_len'[r] = 0
      /\ \A r \in Seqs \ V : /\ block_table'[r] = block_table[r] /\ context_len'[r] = context_len[r]
                             /\ adapter'[r] = adapter[r] /\ Hist(r)' = Hist(r)
                             /\ output'[r] = output[r] /\ prompt'[r] = prompt[r] /\ place'[r] = place[r]
  BY <1>1, <1>2, <1>3 DEF TypeOK, Hist, V
<1>5. LetsGo(V)
  <2>1. \A r \in Seqs \ V : /\ context_len[r] <= context_len'[r]
                            /\ context_len'[r] <= Len(block_table'[r]) * BlockSize
    BY <1>1, <1>4 DEF TypeOK, WInv, TablesCover
  <2> QED
    BY <1>1, <1>2, <1>3, <1>4, <2>1 DEF LetsGo
<1>6. WInv'
  BY <1>1, <1>5, ReleaseKeepsWInv
<1>7. WritesExclusively /\ (RegisteredCells => RegisteredCells') /\ (LiveCells => LiveCells')
  BY <1>1, <1>2, <1>4, <1>5, PoolWithoutKeeps
<1>8. ASSUME CInv PROVE CInv'
  <2>1. RegisteredCells' /\ LiveCells' /\ SavedCells /\ Phases
    BY <1>7, <1>8 DEF CInv
  <2>2. SavedCells'
    <3>1. swapped_context_len[s] = 0
      BY <1>1, <2>1 DEF Phases
    <3>2. \A r \in Seqs : \/ adapter'[r] = adapter[r] /\ Hist(r)' = Hist(r)
                          \/ swapped_context_len[r] = 0
      BY <1>3, <1>4, <3>1
    <3> QED
      BY <1>1, <1>2, <2>1, <3>2, SavedUntouched
  <2>3. Phases'
    <3>1. place'[s] = "absent" /\ prompt'[s] = <<>> /\ output'[s] = <<>> /\ context_len'[s] = 0
      BY <1>1, <1>2 DEF TypeOK
    <3>2. swapped_context_len' = swapped_context_len
      BY <1>2 DEF swapVars
    <3> QED
      BY <1>1, <1>3, <1>4, <2>1, <3>1, <3>2 DEF Phases
  <2> QED
    BY <2>1, <2>2, <2>3 DEF CInv
<1> QED
  BY <1>6, <1>7, <1>8

\* A speculation that runs out of blocks preempts its own sequence.
LEMMA SpeculateOOMContents ==
    ASSUME IInv, IInv', WInv, NEW s \in Seqs, NEW k \in 1 .. MaxDraft, SpeculateOOM(s, k)
    PROVE  WInv' /\ WritesExclusively /\ (CInv => CInv')
<1> DEFINE V     == {s}
           extra == Cardinality(free_blocks)
<1>1. /\ TypeOK /\ TypeOK' /\ OwnershipExact /\ IndexConsistent /\ lost = {} /\ place[s] = "live"
      /\ context_len[s] >= Len(prompt[s])
  BY IdleTable DEF IInv, SpeculateOOM, Decodable
<1>2. /\ Unindex(V) /\ kv' = PoolWithout(V) /\ Evict(V, extra)
      /\ block_table' = [block_table EXCEPT ![s] = <<>>]
      /\ context_len' = [context_len EXCEPT ![s] = 0]
      /\ output' = [output EXCEPT ![s] = KeptOutput(s, V)]
  BY DEF SpeculateOOM
<1>3. V \in SUBSET Seqs /\ s \in V /\ \A r \in Seqs : r \notin V <=> r # s
  OBVIOUS
<1>4. extra \in Nat
  <2>1. IsFiniteSet(free_blocks)
    BY <1>1, BlocksAssumption, FS_Subset DEF TypeOK
  <2> QED
    BY <2>1, FS_CardinalityType
<1> HIDE DEF V, extra
<1>5. /\ \A r \in V : /\ r = s /\ block_table'[r] = <<>> /\ context_len'[r] = 0
                      /\ output'[r] = KeptOutput(r, V)
      /\ \A r \in Seqs \ V : /\ block_table'[r] = block_table[r] /\ context_len'[r] = context_len[r]
                             /\ output'[r] = output[r]
  <2>1. \A r \in V : r = s
    BY DEF V
  <2> QED
    BY <1>1, <1>2, <1>3, <2>1 DEF TypeOK
<1>6. \A r \in Seqs \ V : adapter'[r] = adapter[r] /\ Hist(r)' = Hist(r)
  BY <1>2, <1>5 DEF Evict, Hist
<1>7. LetsGo(V)
  <2>1. \A r \in Seqs \ V : /\ context_len[r] <= context_len'[r]
                            /\ context_len'[r] <= Len(block_table'[r]) * BlockSize
    BY <1>1, <1>5 DEF TypeOK, WInv, TablesCover
  <2> QED
    BY <1>1, <1>2, <1>3, <1>5, <2>1 DEF LetsGo
<1>8. WInv'
  BY <1>1, <1>7, ReleaseKeepsWInv
<1>9. WritesExclusively /\ (RegisteredCells => RegisteredCells') /\ (LiveCells => LiveCells')
  BY <1>1, <1>2, <1>5, <1>6, <1>7, PoolWithoutKeeps
<1>10. Preempts(V, extra)
  BY <1>1, <1>2, <1>3, <1>4, <1>5 DEF Preempts
<1>11. ASSUME CInv PROVE CInv'
  <2>1. RegisteredCells' /\ LiveCells' /\ LiveCells /\ SavedCells /\ Phases
    BY <1>9, <1>11 DEF CInv
  <2>2. SavedCells' /\ Phases'
    BY <1>1, <1>10, <2>1, PreemptsKeeps
  <2> QED
    BY <2>1, <2>2 DEF CInv
<1> QED
  BY <1>8, <1>9, <1>11

\* Nothing in the pool or the index moves: only sequence s, which is not live,
\* forgets what was put aside for it.
LEMMA DiscardKeeps ==
    ASSUME TypeOK, TypeOK', WInv, NEW s \in Seqs, place[s] = "swapped",
           place' = [place EXCEPT ![s] = "absent"],
           swapped_context_len' = [swapped_context_len EXCEPT ![s] = 0],
           swapped_kv' = [swapped_kv EXCEPT ![s] = <<>>],
           prompt' = [prompt EXCEPT ![s] = <<>>],
           output' = [output EXCEPT ![s] = <<>>],
           adapter' = [adapter EXCEPT ![s] = BaseModel],
           UNCHANGED <<block_table, context_len, kv, block_hash_info>>
    PROVE  WInv' /\ WritesExclusively /\ (CInv => CInv')
<1>1. WInv' /\ WritesExclusively
  BY DEF WInv, FullWhenRegistered, SharedThroughIndex, TablesCover, WritesExclusively
<1>2. \A r \in Seqs : r # s => /\ adapter'[r] = adapter[r] /\ Hist(r)' = Hist(r) /\ place'[r] = place[r]
                               /\ prompt'[r] = prompt[r] /\ output'[r] = output[r]
                               /\ swapped_kv'[r] = swapped_kv[r]
                               /\ swapped_context_len'[r] = swapped_context_len[r]
  BY DEF TypeOK, Hist
<1>3. /\ place'[s] = "absent" /\ swapped_context_len'[s] = 0 /\ prompt'[s] = <<>> /\ output'[s] = <<>>
  BY DEF TypeOK
<1>4. ASSUME CInv PROVE CInv'
  <2>1. RegisteredCells /\ LiveCells /\ SavedCells /\ Phases
    BY <1>4 DEF CInv
  <2>2. RegisteredCells'
    BY <2>1 DEF RegisteredCells
  <2>3. Phases'
    BY <1>2, <1>3, <2>1 DEF Phases
  <2>4. Len(Hist(s)') \in Nat /\ Len(swapped_kv'[s]) \in Nat /\ Len(Snapshot(block_table[s])') \in Nat
    <3>1. block_table[s] \in Seq(Blocks)
      BY DEF TypeOK
    <3>2. Len(Snapshot(block_table[s])') = Len(block_table[s])
      BY <3>1 DEF Snapshot
    <3> QED
      BY <3>1, <3>2 DEF TypeOK, Hist
  <2> DEFINE h == Hist(s)'
             x == Snapshot(block_table[s])'
  <2>5. LiveCells'
    <3> SUFFICES ASSUME NEW r \in Seqs
                 PROVE  Coherent(Snapshot(block_table[r])', adapter'[r], Hist(r)', context_len'[r])
      BY DEF LiveCells
    <3>1. CASE r = s
      <4>1. context_len'[r] = 0
        BY <2>1, <3>1 DEF Phases
      <4> HIDE DEF h, x
      <4>2. Coherent(x, adapter'[s], h, 0)
        BY <2>4, NothingToRead DEF h, x
      <4> QED
        BY <3>1, <4>1, <4>2 DEF h, x
    <3>2. CASE r # s
      BY <1>2, <2>1, <3>2, UntouchedReads
    <3> QED
      BY <3>1, <3>2
  <2>6. SavedCells'
    <3> SUFFICES ASSUME NEW r \in Seqs
                 PROVE  Coherent(swapped_kv'[r], adapter'[r], Hist(r)', swapped_context_len'[r])
      BY DEF SavedCells
    <3>1. CASE r = s
      <4> HIDE DEF h
      <4>1. Coherent(swapped_kv'[s], adapter'[s], h, 0)
        BY <2>4, NothingToRead DEF h
      <4> QED
        BY <1>3, <3>1, <4>1 DEF h
    <3>2. CASE r # s
      BY <1>2, <2>1, <3>2 DEF SavedCells
    <3> QED
      BY <3>1, <3>2
  <2> QED
    BY <2>1, <2>2, <2>3, <2>5, <2>6 DEF CInv
<1> QED
  BY <1>1, <1>4

\* A copy that does not fit is lost, whatever was allocated for it.
LEMMA SwapInFailsContents ==
    ASSUME IInv, IInv', WInv, NEW s \in Seqs, SwapInFails(s)
    PROVE  WInv' /\ WritesExclusively /\ (CInv => CInv')
BY DiscardKeeps DEF IInv, SwapInFails, indexVars

\* Cancelled while swapped out.
LEMMA DiscardSwappedContents ==
    ASSUME IInv, IInv', WInv, NEW s \in Seqs, DiscardSwapped(s)
    PROVE  WInv' /\ WritesExclusively /\ (CInv => CInv')
BY DiscardKeeps DEF IInv, DiscardSwapped, indexVars

\* Scoring a beam forgets entries of the index, never what a block holds.
LEMMA BeamScoreContents ==
    ASSUME WInv, NEW h \in Prompts, BeamScore(h)
    PROVE  WInv' /\ WritesExclusively /\ (CInv => CInv')
<1>1. UNCHANGED <<block_table, context_len, place, kv, block_hash_info, swapped_kv,
                  swapped_context_len, prompt, output, adapter>>
  BY DEF BeamScore, tableVars, swapVars, seqVars
<1>2. WInv' /\ WritesExclusively
  BY <1>1 DEF WInv, FullWhenRegistered, SharedThroughIndex, TablesCover, WritesExclusively
<1>3. ASSUME CInv PROVE CInv'
  BY <1>1, <1>3 DEF CInv, RegisteredCells, LiveCells, SavedCells, Phases, Hist, Snapshot
<1> QED
  BY <1>2, <1>3

\* A snapshot that fits is copied into fresh blocks.
LEMMA SwapInContents ==
    ASSUME IInv, IInv', WInv, NEW s \in Seqs, SwapIn(s)
    PROVE  WInv' /\ WritesExclusively /\ (CInv => CInv')
<1> DEFINE m    == swapped_context_len[s]
           n    == BlocksNeeded(m)
           copy == swapped_kv[s]
           none == {}
           h    == Hist(s)
<1>1. /\ TypeOK /\ TypeOK' /\ OwnershipExact /\ IndexConsistent /\ lost = {} /\ lost' = {}
      /\ block_table[s] = <<>> /\ place[s] = "swapped"
  BY IdleTable DEF IInv, SwapIn
<1>2. m \in Nat /\ n \in Nat
  BY <1>1, BlocksNeededBounds DEF TypeOK
<1>3. /\ Len(copy) = n
      /\ context_len' = [context_len EXCEPT ![s] = m]
      /\ place' = [place EXCEPT ![s] = "live"]
      /\ swapped_kv' = [swapped_kv EXCEPT ![s] = <<>>]
      /\ swapped_context_len' = [swapped_context_len EXCEPT ![s] = 0]
      /\ UNCHANGED <<indexVars, prompt, output, adapter>>
  BY DEF SwapIn, seqVars
<1>4. PICK new \in Fresh(n) :
         /\ Account({}, {}, Elems(new))
         /\ block_table' = [block_table EXCEPT ![s] = new]
         /\ kv' = [b \in Blocks |-> IF \E i \in DOMAIN new : new[i] = b
                                    THEN copy[CHOOSE i \in DOMAIN new : new[i] = b]
                                    ELSE kv[b]]
  BY DEF SwapIn
<1> HIDE DEF n, m, copy
<1>5. /\ new \in [1 .. n -> free_blocks] /\ DOMAIN new = 1 .. n /\ free_blocks \subseteq Blocks
      /\ \A i, j \in DOMAIN new : new[i] = new[j] => i = j
  BY <1>1 DEF Fresh, TypeOK
<1>6. new \in Seq(Blocks) /\ Len(new) = n /\ <<>> \o new = new
  <2>1. new \in [1 .. n -> Blocks]
    BY <1>5
  <2>2. new \in Seq(Blocks)
    BY <1>2, <2>1, FunctionsAreSequences
  <2> QED
    BY <1>2, <1>5, <2>2
<1>7. /\ \A i \in 1 .. n : kv'[new[i]] = copy[i]
      /\ \A b \in Blocks : b \notin Elems(new) => kv'[b] = kv[b]
  <2>1. \A i \in 1 .. n : (CHOOSE j \in DOMAIN new : new[j] = new[i]) = i
    BY <1>5
  <2>2. \A i \in 1 .. n : new[i] \in Blocks
    BY <1>5
  <2> QED
    BY <1>4, <1>5, <2>1, <2>2 DEF Elems
<1>8. /\ Elems(new) \subseteq free_blocks
      /\ \A b \in free_blocks : b \notin DOMAIN block_hash_info /\ \A r \in Seqs : b \notin BlocksOf(r)
  <2>1. \A b \in free_blocks : b \notin DOMAIN block_hash_info
    BY <1>1 DEF IndexConsistent
  <2>2. Available({}) = free_blocks
    BY <1>1, NothingDropped
  <2>3. \A b \in free_blocks : Holders(b) \subseteq {}
    BY <1>1, <2>2, AvailableHeldByV
  <2>4. Elems(new) \subseteq free_blocks
    BY <1>5 DEF Elems
  <2> QED
    BY <2>1, <2>3, <2>4 DEF Holders
<1>9. WInv'
  <2> DEFINE pre == <<>>
             f   == 0
  <2>1. Grows(s, pre, n, new, none)
    <3>1. block_table' = [block_table EXCEPT ![s] = pre \o new]
      BY <1>4, <1>6
    <3> QED
      BY <1>1, <1>2, <1>4, <3>1 DEF Grows, Elems
  <2>2. Frontier(s, pre, f)
    BY DEF Frontier
  <2>3. Gains(pre \o new, m, h)
    BY <1>3, GainsNothing DEF indexVars
  <2>4. f \in Nat /\ m \in Nat /\ f <= m /\ none \subseteq DOMAIN block_hash_info
    BY <1>2
  <2>6. m <= Len(pre \o new) * BlockSize
    BY <1>2, <1>6, ReservedRoom DEF n
  <2> HIDE DEF pre, f, none
  <2>5. /\ TypeOK /\ OwnershipExact /\ IndexConsistent /\ WInv
        /\ context_len' = [context_len EXCEPT ![s] = m]
    BY <1>1, <1>3
  <2> QED
    BY <2>1, <2>2, <2>3, <2>4, <2>5, <2>6, GrowthKeepsWInv
<1>10. \A b \in Elems(new) : ref_counts'[b] = 1
  <2> DEFINE Taken == Elems(new)
             V     == {}
  <2>1. /\ TypeOK /\ OwnershipExact /\ lost = {} /\ V \in SUBSET Seqs
        /\ none \in SUBSET (Blocks \ free_blocks) /\ (V = {} \/ none = {})
        /\ Taken \in SUBSET Available(V) /\ Account(V, none, Taken)
    BY <1>1, <1>4, <1>8, NothingDropped
  <2> HIDE DEF V, Taken, none
  <2>2. \A c \in Blocks : ref_counts'[c] =
                 IF c \in Taken THEN 1
                 ELSE IF c \in none THEN Cardinality(Holders(c)) + 1
                 ELSE Cardinality(Holders(c) \ V)
    BY ONLY <2>1, AccountExact
  <2>3. \A b \in Taken : b \in Blocks
    BY <1>5, <1>8 DEF Taken
  <2> QED
    BY <2>2, <2>3 DEF Taken
<1>11. WritesExclusively
  <2> SUFFICES ASSUME NEW b \in Blocks, kv'[b] # kv[b]
               PROVE  ref_counts'[b] = 1 /\ b \notin DOMAIN block_hash_info
    BY DEF WritesExclusively
  <2>1. b \in Elems(new)
    BY <1>7
  <2> QED
    BY <1>8, <1>10, <2>1
<1>12. ASSUME CInv PROVE CInv'
  <2>1. RegisteredCells /\ LiveCells /\ SavedCells /\ Phases
    BY <1>12 DEF CInv
  <2>2. \A r \in Seqs : adapter'[r] = adapter[r] /\ Hist(r)' = Hist(r)
    BY <1>3 DEF Hist
  <2>3. \A r \in Seqs : r # s => /\ block_table'[r] = block_table[r] /\ context_len'[r] = context_len[r]
                                 /\ place'[r] = place[r] /\ swapped_kv'[r] = swapped_kv[r]
                                 /\ swapped_context_len'[r] = swapped_context_len[r]
    BY <1>1, <1>3, <1>4 DEF TypeOK
  <2>4. /\ block_table'[s] = new /\ context_len'[s] = m /\ place'[s] = "live"
        /\ swapped_kv'[s] = <<>> /\ swapped_context_len'[s] = 0
    BY <1>1, <1>3, <1>4 DEF TypeOK
  <2>5. RegisteredCells'
    <3>1. \A b \in DOMAIN block_hash_info : kv'[b] = kv[b]
      BY <1>1, <1>7, <1>8 DEF TypeOK
    <3> QED
      BY <1>3, <2>1, <3>1 DEF RegisteredCells, indexVars
  <2>6. Coherent(Reading(new, kv'), adapter[s], h, m)
    <3>1. Coherent(copy, adapter[s], h, m)
      BY <2>1 DEF SavedCells, copy, m
    <3>2. /\ m <= Len(h) /\ m <= n * BlockSize
          /\ \A p \in 1 .. m : BlockAt(copy, p)[SlotAt(p)] = Cell(adapter[s], h, p)
      BY <1>3, <3>1 DEF Coherent
    <3>3. h \in Seq(Tokens) /\ kv' \in [Blocks -> [Slots -> Cells]]
      BY <1>1 DEF TypeOK, Hist
    <3> HIDE DEF h
    <3>4. n * BlockSize \in Nat
      BY <1>2, SizesAssumption
    <3>5. ASSUME NEW p \in 1 .. m
          PROVE  kv'[new[IndexOf(p)]][SlotAt(p)] = Cell(adapter[s], h, p)
      <4>1. p \in Nat /\ p >= 1 /\ p <= n * BlockSize
        BY <1>2, <3>2, <3>4
      <4>2. IndexOf(p) \in 1 .. n /\ BlockAt(copy, p) = copy[IndexOf(p)]
        BY <1>2, <4>1, PositionWithin, PositionSplits
      <4>3. BlockAt(copy, p)[SlotAt(p)] = Cell(adapter[s], h, p)
        BY <3>2
      <4>4. kv'[new[IndexOf(p)]] = copy[IndexOf(p)]
        BY <1>7, <4>2
      <4> QED
        BY ONLY <4>2, <4>3, <4>4, Zenon
    <3> DEFINE a == adapter[s]
    <3>6. Reads(new, kv', a, h, m)
      BY <1>6, <3>2, <3>5 DEF Reads
    <3>7. /\ new \in Seq(Blocks) /\ kv' \in [Blocks -> [Slots -> Cells]] /\ h \in Seq(Tokens) /\ m \in Nat
      BY <1>2, <1>6, <3>3
    <3> HIDE DEF a
    <3>8. Coherent(Reading(new, kv'), a, h, m)
      BY ONLY <3>6, <3>7, ReadThrough
    <3> QED
      BY <3>8 DEF a
  <2>7. LiveCells'
    <3> SUFFICES ASSUME NEW r \in Seqs
                 PROVE  Coherent(Snapshot(block_table[r])', adapter'[r], Hist(r)', context_len'[r])
      BY DEF LiveCells
    <3>1. CASE r = s
      <4>1. Snapshot(block_table[s])' = Reading(new, kv')
        BY <2>4 DEF Snapshot, Reading
      <4> QED
        BY <2>2, <2>4, <2>6, <3>1, <4>1
    <3>2. CASE r # s
      <4>1. \A b \in BlocksOf(r) : b \in Blocks => kv'[b] = kv[b]
        BY <1>7, <1>8
      <4> QED
        BY <1>1, <2>1, <2>2, <2>3, <3>2, <4>1, UntouchedReads
    <3> QED
      BY <3>1, <3>2
  <2>8. SavedCells'
    <3> SUFFICES ASSUME NEW r \in Seqs
                 PROVE  Coherent(swapped_kv'[r], adapter'[r], Hist(r)', swapped_context_len'[r])
      BY DEF SavedCells
    <3>1. CASE r = s
      <4> DEFINE g == Hist(s)'
                 x == <<>>
      <4>1. Len(g) \in Nat /\ Len(x) \in Nat
        BY <1>1 DEF TypeOK, Hist
      <4> HIDE DEF g, x
      <4>2. Coherent(x, adapter'[s], g, 0)
        BY <4>1, NothingToRead
      <4> QED
        BY <2>4, <3>1, <4>2 DEF g, x
    <3>2. CASE r # s
      BY <2>1, <2>2, <2>3, <3>2 DEF SavedCells
    <3> QED
      BY <3>1, <3>2
  <2>9. Phases'
    <3>1. m >= Len(prompt[s])
      BY <1>1, <2>1 DEF Phases, m
    <3>2. m < Len(prompt[s]) => output[s] = <<>>
      BY <1>1, <1>2, <3>1 DEF TypeOK
    <3>3. prompt' = prompt /\ output' = output
      BY <1>3
    <3> QED
      BY <2>1, <2>3, <2>4, <3>2, <3>3 DEF Phases
  <2> QED
    BY <2>5, <2>7, <2>8, <2>9 DEF CInv
<1> QED
  BY <1>9, <1>11, <1>12

\* A decode step as the proof needs it: V is preempted, every sequence of K
\* writes position context_len + 1 into the slot it has in its table of then.
Decodes(K, V, g) ==
    LET c(s) == context_len[s] + 1
        Target(s) == <<BlockAt(block_table'[s], c(s)), SlotAt(c(s))>> IN
    /\ K \in SUBSET Seqs /\ V \in SUBSET (Seqs \ K) /\ lost = {} /\ lost' = {}
    /\ \A s \in K \cup V : Decodable(s)
    /\ g \in Grants(NeedBlock(K), Available(V))
    /\ Unindex(V)
    /\ block_table' = [s \in Seqs |-> IF s \in V THEN <<>>
                                      ELSE IF s \in DOMAIN g THEN Append(block_table[s], g[s])
                                      ELSE block_table[s]]
    /\ kv' = [b \in Blocks |-> [k \in Slots |->
                IF \E s \in K : Target(s) = <<b, k>>
                THEN LET s == CHOOSE s \in K : Target(s) = <<b, k>>
                     IN  Cell(adapter[s], Hist(s), context_len[s] + 1)
                ELSE PoolWithout(V)[b][k]]]
    /\ context_len' = [s \in Seqs |-> IF s \in V THEN 0
                                      ELSE IF s \in K THEN context_len[s] + 1
                                      ELSE context_len[s]]

\* Its tables.
LEMMA DecodeTables ==
    ASSUME TypeOK, OwnershipExact, WInv, NEW K, NEW V, NEW g, Decodes(K, V, g)
    PROVE  /\ \A r \in V : block_table'[r] = <<>>
           /\ \A r \in Seqs \ V : block_table[r] \in Seq(Blocks) /\ Len(block_table[r]) \in Nat
                                  /\ DOMAIN block_table[r] = 1 .. Len(block_table[r])
           /\ \A r \in Seqs \ V : \A i \in DOMAIN block_table[r] :
                 i \in DOMAIN block_table'[r] /\ block_table'[r][i] = block_table[r][i]
           /\ \A r \in Seqs \ V : r \notin K => block_table'[r] = block_table[r]
           /\ \A r \in Seqs \ V : \A i \in DOMAIN block_table'[r] : i \notin DOMAIN block_table[r] =>
                 /\ block_table'[r][i] \in Available(V)
                 /\ \A q \in Seqs : q # r => block_table'[r][i] \notin Elems(block_table'[q])
           /\ \A r \in K : r \in Seqs \ V /\ IndexOf(context_len[r] + 1) \in DOMAIN block_table'[r]
<1> DEFINE N == NeedBlock(K)
<1>1. /\ K \in SUBSET Seqs /\ V \in SUBSET (Seqs \ K) /\ V \in SUBSET Seqs /\ lost = {}
      /\ \A s \in K \cup V : Decodable(s)
      /\ N \subseteq K /\ DOMAIN g = N /\ \A s \in N : g[s] \in Available(V)
      /\ \A s, t \in N : g[s] = g[t] => s = t
      /\ block_table' = [s \in Seqs |-> IF s \in V THEN <<>>
                                        ELSE IF s \in DOMAIN g THEN Append(block_table[s], g[s])
                                        ELSE block_table[s]]
  BY DEF Decodes, Grants, NeedBlock
<1>2. \A b \in Available(V) : b \in Blocks /\ \A r \in Seqs \ V : b \notin BlocksOf(r)
  BY <1>1, AvailableHeldByV DEF Holders
<1>3. ASSUME NEW r \in Seqs
      PROVE  block_table[r] \in Seq(Blocks) /\ Len(block_table[r]) \in Nat
             /\ DOMAIN block_table[r] = 1 .. Len(block_table[r])
  BY DEF TypeOK
<1>4. /\ \A r \in V : block_table'[r] = <<>>
      /\ \A r \in Seqs \ V : r \notin N => block_table'[r] = block_table[r]
      /\ \A r \in Seqs \ V : r \in N => block_table'[r] = Append(block_table[r], g[r])
  BY <1>1
<1>5. ASSUME NEW r \in N
      PROVE  /\ r \in Seqs \ V /\ DOMAIN block_table'[r] = 1 .. Len(block_table[r]) + 1
             /\ \A i \in 1 .. Len(block_table[r]) : block_table'[r][i] = block_table[r][i]
             /\ block_table'[r][Len(block_table[r]) + 1] = g[r]
  <2> DEFINE t == block_table[r]
             u == block_table'[r]
  <2>1. r \in Seqs \ V /\ t \in Seq(Blocks) /\ u = Append(t, g[r]) /\ g[r] \in Blocks
    BY <1>1, <1>2, <1>3, <1>4
  <2> HIDE DEF t, u
  <2>2. /\ DOMAIN u = 1 .. Len(t) + 1 /\ \A i \in 1 .. Len(t) : u[i] = t[i]
        /\ u[Len(t) + 1] = g[r]
    BY <2>1
  <2> QED
    BY <2>1, <2>2 DEF t, u
<1>6. ASSUME NEW r \in Seqs \ V, NEW i \in DOMAIN block_table[r]
      PROVE  i \in DOMAIN block_table'[r] /\ block_table'[r][i] = block_table[r][i]
  <2>1. CASE r \in N
    <3>1. i \in 1 .. Len(block_table[r]) /\ Len(block_table[r]) \in Nat
      BY <1>3
    <3> QED
      BY <1>5, <2>1, <3>1
  <2>2. CASE r \notin N
    BY <1>4, <2>2
  <2> QED
    BY <2>1, <2>2
<1>7. ASSUME NEW r \in Seqs \ V, NEW i \in DOMAIN block_table'[r], i \notin DOMAIN block_table[r]
      PROVE  r \in N /\ i = Len(block_table[r]) + 1 /\ block_table'[r][i] = g[r]
  <2>1. r \in N
    BY <1>4, <1>7
  <2>2. i \in 1 .. Len(block_table[r]) + 1 /\ i \notin 1 .. Len(block_table[r]) /\ Len(block_table[r]) \in Nat
    BY <1>3, <1>5, <1>7, <2>1
  <2>3. i = Len(block_table[r]) + 1
    BY <2>2
  <2> QED
    BY <1>5, <2>1, <2>3
<1>8. ASSUME NEW r \in Seqs \ V, NEW i \in DOMAIN block_table'[r], i \notin DOMAIN block_table[r],
             NEW q \in Seqs, q # r
      PROVE  block_table'[r][i] \notin Elems(block_table'[q])
  <2> SUFFICES ASSUME NEW j \in DOMAIN block_table'[q], block_table'[q][j] = block_table'[r][i]
               PROVE  FALSE
    BY DEF Elems
  <2>1. r \in N /\ block_table'[r][i] = g[r] /\ g[r] \in Available(V)
    BY <1>1, <1>7, <1>8
  <2>2. q \in Seqs \ V
    BY <1>4
  <2>3. CASE j \in DOMAIN block_table[q]
    <3>1. block_table[q][j] = g[r]
      BY <1>6, <2>1, <2>2, <2>3
    <3> QED
      BY <1>2, <2>1, <2>2, <2>3, <3>1 DEF BlocksOf
  <2>4. CASE j \notin DOMAIN block_table[q]
    BY <1>1, <1>7, <1>8, <2>1, <2>2, <2>4
  <2> QED
    BY <2>3, <2>4
<1>9. ASSUME NEW r \in K PROVE r \in Seqs \ V /\ IndexOf(context_len[r] + 1) \in DOMAIN block_table'[r]
  <2> DEFINE c == context_len[r] + 1
             l == Len(block_table[r])
  <2>1. r \in Seqs \ V
    BY <1>1
  <2>2. c \in Nat /\ c >= 1 /\ l \in Nat /\ block_table[r] \in Seq(Blocks)
    BY <1>3, <2>1 DEF TypeOK
  <2> HIDE DEF c
  <2>3. /\ c <= (l + Missing(block_table[r], c)) * BlockSize
        /\ Missing(block_table[r], c) \in Nat
        /\ Missing(block_table[r], c) = IF BlocksNeeded(c) > l THEN BlocksNeeded(c) - l ELSE 0
    BY <2>2, ReservedRoom, MissingBounds DEF Missing
  <2> HIDE DEF l
  <2>4. CASE r \in N
    <3>1. \A x \in Nat : /\ (x + 1) * BlockSize \in Nat /\ x * BlockSize \in Nat
                          /\ (x + 1) * BlockSize >= x * BlockSize + 1
      BY SizesAssumption, SMTT(30)
    <3>2. context_len[r] <= l * BlockSize /\ context_len[r] \in Nat
      BY <2>1 DEF WInv, TablesCover, TypeOK, l
    <3>3. /\ (l + 1) * BlockSize \in Nat /\ l * BlockSize \in Nat
          /\ (l + 1) * BlockSize >= l * BlockSize + 1
      BY <2>2, <3>1
    <3>4. c <= (l + 1) * BlockSize /\ l + 1 \in Nat
      BY <2>2, <3>2, <3>3 DEF c
    <3>5. IndexOf(c) \in 1 .. l + 1
      BY <2>2, <3>4, PositionWithin
    <3> QED
      BY <1>5, <2>1, <2>4, <3>5 DEF c, l
  <2>5. CASE r \notin N
    <3>1. Missing(block_table[r], c) = 0
      BY <2>3, <2>5 DEF NeedBlock, c
    <3>2. c <= l * BlockSize
      BY <2>2, <2>3, <3>1
    <3>3. IndexOf(c) \in 1 .. l
      BY <2>2, <3>2, PositionWithin
    <3>4. block_table'[r] = block_table[r]
      BY <1>4, <2>1, <2>5
    <3> QED
      BY <1>3, <2>1, <3>3, <3>4 DEF c, l
  <2> QED
    BY <2>1, <2>4, <2>5 DEF c
<1>10. \A r \in Seqs \ V : \A i \in DOMAIN block_table'[r] : i \notin DOMAIN block_table[r] =>
          /\ block_table'[r][i] \in Available(V)
          /\ \A q \in Seqs : q # r => block_table'[r][i] \notin Elems(block_table'[q])
  BY <1>1, <1>7, <1>8
<1>11. \A r \in Seqs \ V : r \notin K => block_table'[r] = block_table[r]
  BY <1>1, <1>4
<1>12. \A r \in Seqs \ V : \A i \in DOMAIN block_table[r] :
          i \in DOMAIN block_table'[r] /\ block_table'[r][i] = block_table[r][i]
  BY <1>6
<1>13. \A r \in Seqs \ V : block_table[r] \in Seq(Blocks) /\ Len(block_table[r]) \in Nat
                           /\ DOMAIN block_table[r] = 1 .. Len(block_table[r])
  BY <1>3
<1>14. /\ \A r \in V : block_table'[r] = <<>>
       /\ \A r \in K : r \in Seqs \ V /\ IndexOf(context_len[r] + 1) \in DOMAIN block_table'[r]
  BY <1>4, <1>9
<1> QED
  BY ONLY <1>10, <1>11, <1>12, <1>13, <1>14, Zenon

\* Where a sequence of the batch writes.
WriteBlock(s) == block_table'[s][IndexOf(context_len[s] + 1)]
WriteSlot(s)  == SlotAt(context_len[s] + 1)

\* The tables keep the invariant: what a victim gave back may be granted at
\* once, to one sequence, and is registered no more.
LEMMA DecodeLetsGo ==
    ASSUME TypeOK, TypeOK', OwnershipExact, WInv, NEW K, NEW V, NEW g, Decodes(K, V, g)
    PROVE  LetsGo(V)
<1>1. /\ K \in SUBSET Seqs /\ V \in SUBSET Seqs /\ lost = {} /\ Unindex(V)
      /\ context_len' = [s \in Seqs |-> IF s \in V THEN 0
                                        ELSE IF s \in K THEN context_len[s] + 1
                                        ELSE context_len[s]]
  BY DEF Decodes
<1>2. /\ \A r \in V : block_table'[r] = <<>>
      /\ \A r \in Seqs \ V : r \notin K => block_table'[r] = block_table[r]
      /\ \A r \in Seqs \ V : \A i \in DOMAIN block_table[r] :
            i \in DOMAIN block_table'[r] /\ block_table'[r][i] = block_table[r][i]
      /\ \A r \in Seqs \ V : \A i \in DOMAIN block_table'[r] : i \notin DOMAIN block_table[r] =>
            /\ block_table'[r][i] \in Available(V)
            /\ \A q \in Seqs : q # r => block_table'[r][i] \notin Elems(block_table'[q])
      /\ \A r \in K : r \in Seqs \ V /\ IndexOf(context_len[r] + 1) \in DOMAIN block_table'[r]
  BY DecodeTables
<1>3. \A r \in Seqs \ V : context_len[r] <= context_len'[r] /\ context_len[r] \in Nat
  BY <1>1 DEF TypeOK
<1>4. ASSUME NEW r \in Seqs \ V PROVE context_len'[r] <= Len(block_table'[r]) * BlockSize
  <2>1. CASE r \notin K
    BY <1>1, <1>2, <2>1 DEF WInv, TablesCover
  <2>2. CASE r \in K
    <3> DEFINE c == context_len[r] + 1
               l == Len(block_table'[r])
    <3>1. c \in Nat /\ c >= 1
      BY <1>3
    <3>2. IndexOf(c) \in DOMAIN block_table'[r] /\ context_len'[r] = c
      BY <1>1, <1>2, <2>2
    <3>3. l \in Nat /\ DOMAIN block_table'[r] = 1 .. l
      <4>1. block_table'[r] \in Seq(Blocks)
        BY DEF TypeOK
      <4> QED
        BY <4>1
    <3> HIDE DEF c, l
    <3>4. IndexOf(c) \in 1 .. l
      BY <3>2, <3>3
    <3>5. ~(l * BlockSize < c)
      <4> SUFFICES ASSUME l * BlockSize < c PROVE FALSE
        OBVIOUS
      <4>1. IndexOf(c) > l
        BY <3>1, <3>3, PositionWithin
      <4> QED
        BY <3>3, <3>4, <4>1
    <3>6. l * BlockSize \in Nat
      BY <3>3, SizesAssumption
    <3>7. c <= l * BlockSize
      BY <3>1, <3>5, <3>6
    <3> QED
      BY <3>2, <3>7 DEF l
  <2> QED
    BY <2>1, <2>2
<1>5. \A r \in V : block_table'[r] = <<>> /\ context_len'[r] = 0
  BY <1>1, <1>2
<1> QED
  BY <1>1, <1>2, <1>3, <1>4, <1>5 DEF LetsGo

\* RefCountsExact, of the tables a step leaves.
LEMMA CountedAfter ==
    ASSUME OwnershipExact', NEW b \in Blocks
    PROVE  ref_counts'[b] = Cardinality({r \in Seqs : b \in Elems(block_table'[r])})
                               + (IF b \in lost' THEN 1 ELSE 0)
<1>1. ref_counts'[b] = Cardinality(Holders(b)') + (IF b \in lost' THEN 1 ELSE 0)
  BY DEF OwnershipExact, RefCountsExact
<1>2. Holders(b)' = {r \in Seqs : b \in Elems(block_table'[r])}
  BY DEF Holders, BlocksOf, Elems
<1> QED
  BY <1>1, <1>2

\* The block a sequence writes into is its alone and unregistered.
LEMMA DecodeTargets ==
    ASSUME IInv, IInv', ~raised, WInv, NEW K, NEW V, NEW g, Decodes(K, V, g), NEW s \in K
    PROVE  /\ s \in Seqs \ V
           /\ WriteBlock(s) \in Blocks /\ WriteSlot(s) \in Slots
           /\ WriteBlock(s) = BlockAt(block_table'[s], context_len[s] + 1)
           /\ WriteBlock(s) \notin DOMAIN block_hash_info'
           /\ WriteBlock(s) \in Elems(block_table'[s])
           /\ \A r \in Seqs : r # s => WriteBlock(s) \notin Elems(block_table'[r])
           /\ ref_counts'[WriteBlock(s)] = 1
<1> DEFINE c == context_len[s] + 1
           i == IndexOf(c)
           b == WriteBlock(s)
<1>1. TypeOK /\ TypeOK' /\ OwnershipExact /\ OwnershipExact' /\ IndexConsistent
  BY DEF IInv
<1>2. /\ lost = {} /\ lost' = {} /\ V \in SUBSET Seqs /\ Unindex(V)
  BY DEF Decodes
<1>3. /\ \A r \in Seqs \ V : \A j \in DOMAIN block_table'[r] : j \notin DOMAIN block_table[r] =>
            /\ block_table'[r][j] \in Available(V)
            /\ \A q \in Seqs : q # r => block_table'[r][j] \notin Elems(block_table'[q])
      /\ s \in Seqs \ V /\ i \in DOMAIN block_table'[s]
      /\ \A r \in Seqs \ V : \A j \in DOMAIN block_table[r] :
            j \in DOMAIN block_table'[r] /\ block_table'[r][j] = block_table[r][j]
      /\ \A r \in V : block_table'[r] = <<>>
  BY <1>1, DecodeTables
<1>4. c \in Nat /\ c >= 1 /\ context_len[s] \in Nat
  <2>1. context_len[s] \in Nat
    BY <1>1, <1>3 DEF TypeOK
  <2> QED
    BY <2>1
<1> HIDE DEF c
<1>5. /\ i \in Nat /\ i >= 1 /\ SlotAt(c) \in Slots
      /\ BlockAt(block_table'[s], c) = block_table'[s][i]
      /\ c <= i * BlockSize /\ i * BlockSize \in Nat
  <2>1. i \in Nat /\ i >= 1 /\ SlotAt(c) \in Slots /\ BlockAt(block_table'[s], c) = block_table'[s][i]
    BY <1>4, PositionSplits
  <2>2. c <= i * BlockSize
    BY <1>4, PositionWithin
  <2> HIDE DEF i
  <2> QED
    BY <2>1, <2>2, SizesAssumption
<1>6. b = block_table'[s][i]
  BY DEF WriteBlock, c
<1> HIDE DEF b, i
<1>7. b \in Blocks /\ b \in Elems(block_table'[s])
  <2>1. block_table'[s] \in Seq(Blocks)
    BY <1>1, <1>3 DEF TypeOK
  <2> QED
    BY <1>3, <1>6, <2>1 DEF Elems
<1>8. /\ \A r \in Seqs \ V : \A x \in BlocksOf(r) : x \notin Available(V) /\ x \notin Dropped(V)
      /\ \A x \in Available(V) : x \notin DOMAIN block_hash_info'
      /\ DOMAIN block_hash_info' = DOMAIN block_hash_info \ Dropped(V)
  BY <1>1, <1>2, SurvivorsKeep
<1>9. b \notin DOMAIN block_hash_info' /\ \A r \in Seqs : r # s => b \notin Elems(block_table'[r])
  <2>1. CASE i \in DOMAIN block_table[s]
    <3>1. b = block_table[s][i]
      BY <1>3, <1>6, <2>1
    <3>2. ~(i * BlockSize <= context_len[s])
      BY <1>4, <1>5 DEF c
    <3>3. b \notin DOMAIN block_hash_info
      BY <1>3, <2>1, <3>1, <3>2 DEF WInv, FullWhenRegistered
    <3>4. b \in BlocksOf(s)
      BY <2>1, <3>1 DEF BlocksOf
    <3>5. ASSUME NEW r \in Seqs, r # s, NEW j \in DOMAIN block_table'[r], block_table'[r][j] = b PROVE FALSE
      <4>1. r \in Seqs \ V
        BY <1>3, <3>5
      <4>2. CASE j \in DOMAIN block_table[r]
        BY <1>3, <2>1, <3>1, <3>3, <3>5, <4>1, <4>2 DEF WInv, SharedThroughIndex
      <4>3. CASE j \notin DOMAIN block_table[r]
        BY <1>3, <1>8, <3>4, <3>5, <4>1, <4>3
      <4> QED
        BY <4>2, <4>3
    <3> QED
      BY <1>8, <3>3, <3>5 DEF Elems
  <2>2. CASE i \notin DOMAIN block_table[s]
    BY <1>3, <1>6, <1>8, <2>2
  <2> QED
    BY <2>1, <2>2
<1>10. ref_counts'[b] = 1
  <2> DEFINE H == {r \in Seqs : b \in Elems(block_table'[r])}
  <2>1. ref_counts'[b] = Cardinality(H) + (IF b \in lost' THEN 1 ELSE 0)
    BY <1>1, <1>7, CountedAfter
  <2>2. H = {s}
    BY <1>3, <1>7, <1>9
  <2>3. Cardinality(H) = 1
    BY <2>2, FS_Singleton
  <2> HIDE DEF H
  <2> QED
    BY <1>2, <2>1, <2>3
<1>11. WriteSlot(s) \in Slots /\ b = BlockAt(block_table'[s], context_len[s] + 1)
  BY <1>5, <1>6 DEF WriteSlot, c
<1> QED
  BY <1>3, <1>7, <1>9, <1>10, <1>11 DEF b

\* What the pool holds after it.
LEMMA DecodePool ==
    ASSUME IInv, IInv', ~raised, WInv, NEW K, NEW V, NEW g, Decodes(K, V, g)
    PROVE  /\ \A s \in K : kv'[WriteBlock(s)][WriteSlot(s)] = Cell(adapter[s], Hist(s), context_len[s] + 1)
           /\ \A b \in Blocks : \A k \in Slots :
                 (\A s \in K : ~(WriteBlock(s) = b /\ WriteSlot(s) = k)) => kv'[b][k] = PoolWithout(V)[b][k]
           /\ \A b \in Blocks : (\A s \in K : WriteBlock(s) # b) => kv'[b] = PoolWithout(V)[b]
<1> DEFINE Target(s) == <<BlockAt(block_table'[s], context_len[s] + 1), SlotAt(context_len[s] + 1)>>
           New(s)    == Cell(adapter[s], Hist(s), context_len[s] + 1)
           Value(b, k) == IF \E s \in K : Target(s) = <<b, k>>
                          THEN New(CHOOSE s \in K : Target(s) = <<b, k>>)
                          ELSE PoolWithout(V)[b][k]
<1>1. kv' = [b \in Blocks |-> [k \in Slots |-> Value(b, k)]]
  BY DEF Decodes
<1>2. \A s \in K : \A b, k : Target(s) = <<b, k>> <=> WriteBlock(s) = b /\ WriteSlot(s) = k
  BY DecodeTargets DEF WriteSlot
<1>3. \A s \in K : WriteBlock(s) \in Blocks /\ WriteSlot(s) \in Slots
  BY DecodeTargets
<1>4. ASSUME NEW s \in K, NEW r \in K, WriteBlock(s) = WriteBlock(r) PROVE r = s
  <2> SUFFICES ASSUME r # s PROVE FALSE
    OBVIOUS
  <2>1. r \in Seqs /\ WriteBlock(r) \in Elems(block_table'[r])
    BY DecodeTargets
  <2>2. WriteBlock(s) \notin Elems(block_table'[r])
    BY <2>1, DecodeTargets
  <2> QED
    BY <1>4, <2>1, <2>2
<1> HIDE DEF Target, New
<1>5. ASSUME NEW s \in K PROVE kv'[WriteBlock(s)][WriteSlot(s)] = New(s)
  <2> DEFINE b == WriteBlock(s)
             k == WriteSlot(s)
  <2>1. Target(s) = <<b, k>> /\ b \in Blocks /\ k \in Slots
    BY <1>2, <1>3
  <2>2. \A r \in K : Target(r) = <<b, k>> => r = s
    BY <1>2, <1>4
  <2> HIDE DEF b, k
  <2>3. (CHOOSE r \in K : Target(r) = <<b, k>>) = s
    BY <2>1, <2>2
  <2>4. Value(b, k) = New(s)
    BY <2>1, <2>3
  <2> HIDE DEF Value
  <2> QED
    BY <1>1, <2>1, <2>4 DEF b, k
<1>6. ASSUME NEW b \in Blocks, NEW k \in Slots, \A s \in K : ~(WriteBlock(s) = b /\ WriteSlot(s) = k)
      PROVE  kv'[b][k] = PoolWithout(V)[b][k]
  <2>1. Value(b, k) = PoolWithout(V)[b][k]
    BY <1>2, <1>6
  <2> HIDE DEF Value
  <2> QED
    BY <1>1, <2>1
<1>7. ASSUME NEW b \in Blocks, \A s \in K : WriteBlock(s) # b PROVE kv'[b] = PoolWithout(V)[b]
  <2>1. \A k \in Slots : kv'[b][k] = PoolWithout(V)[b][k]
    BY <1>6, <1>7
  <2>2. kv'[b] \in [Slots -> Cells] /\ PoolWithout(V)[b] \in [Slots -> Cells]
    <3>1. kv' \in [Blocks -> [Slots -> Cells]] /\ TypeOK
      BY DEF IInv, TypeOK
    <3>2. PoolWithout(V) \in [Blocks -> [Slots -> Cells]]
      BY <3>1, PoolWithoutType
    <3> QED
      BY <3>1, <3>2
  <2> QED
    BY <2>1, <2>2
<1> QED
  BY <1>5, <1>6, <1>7 DEF New

\* A batch of decode steps, with the preemptions it takes.
LEMMA DecodeActiveContents ==
    ASSUME IInv, IInv', WInv, NEW K \in SUBSET Seqs, NEW V \in SUBSET (Seqs \ K), DecodeActive(K, V)
    PROVE  WInv' /\ WritesExclusively /\ (CInv => CInv')
<1>1. /\ TypeOK /\ TypeOK' /\ OwnershipExact /\ IndexConsistent /\ lost = {} /\ lost' = {} /\ ~raised
      /\ \A s \in K \cup V : Decodable(s)
  BY IdleTable DEF IInv, DecodeActive
<1>2. PICK g \in Grants(NeedBlock(K), Available(V)) : Decodes(K, V, g)
  BY <1>1 DEF DecodeActive, Decodes
<1>3. LetsGo(V)
  BY <1>1, <1>2, DecodeLetsGo
<1>4. WInv'
  BY <1>1, <1>3, ReleaseKeepsWInv
<1>5. /\ \A s \in K : kv'[WriteBlock(s)][WriteSlot(s)] = Cell(adapter[s], Hist(s), context_len[s] + 1)
      /\ \A b \in Blocks : \A k \in Slots :
            (\A s \in K : ~(WriteBlock(s) = b /\ WriteSlot(s) = k)) => kv'[b][k] = PoolWithout(V)[b][k]
      /\ \A b \in Blocks : (\A s \in K : WriteBlock(s) # b) => kv'[b] = PoolWithout(V)[b]
  BY <1>1, <1>2, DecodePool
<1>6. \A s \in K : /\ s \in Seqs \ V /\ WriteBlock(s) \in Blocks /\ WriteSlot(s) \in Slots
                   /\ WriteBlock(s) \notin DOMAIN block_hash_info'
                   /\ WriteBlock(s) \in Elems(block_table'[s])
                   /\ \A r \in Seqs : r # s => WriteBlock(s) \notin Elems(block_table'[r])
                   /\ ref_counts'[WriteBlock(s)] = 1
  BY <1>1, <1>2, DecodeTargets
<1>7. \A b \in Blocks : PoolWithout(V)[b] = IF b \in Dropped(V) THEN StaleBlock ELSE kv[b]
  BY DEF PoolWithout
<1>8. WritesExclusively
  <2> SUFFICES ASSUME NEW b \in Blocks, kv'[b] # kv[b], kv'[b] # StaleBlock
               PROVE  ref_counts'[b] = 1 /\ b \notin DOMAIN block_hash_info'
    BY DEF WritesExclusively
  <2>1. PICK s \in K : WriteBlock(s) = b
    BY <1>5, <1>7
  <2> QED
    BY <1>6, <2>1
<1>9. V \in SUBSET Seqs /\ Unindex(V) /\ Evict(V, 0) /\ 0 \in Nat
  BY DEF DecodeActive
<1>10. /\ \A r \in Seqs \ V : \A b \in BlocksOf(r) : b \notin Available(V) /\ b \notin Dropped(V)
       /\ DOMAIN block_hash_info' = DOMAIN block_hash_info \ Dropped(V)
  BY <1>1, <1>9, SurvivorsKeep
<1>11. /\ \A r \in V : block_table'[r] = <<>>
       /\ \A r \in Seqs \ V : /\ block_table[r] \in Seq(Blocks) /\ Len(block_table[r]) \in Nat
                              /\ DOMAIN block_table[r] = 1 .. Len(block_table[r])
       /\ \A r \in Seqs \ V : \A i \in DOMAIN block_table[r] :
             i \in DOMAIN block_table'[r] /\ block_table'[r][i] = block_table[r][i]
       /\ \A r \in Seqs \ V : r \notin K => block_table'[r] = block_table[r]
  BY <1>1, <1>2, DecodeTables
<1>12. context_len' = [s \in Seqs |-> IF s \in V THEN 0
                                      ELSE IF s \in K THEN context_len[s] + 1
                                      ELSE context_len[s]]
  BY DEF DecodeActive
<1>13. PICK t \in [K -> Tokens] :
          output' = [s \in Seqs |-> IF s \in K THEN Append(output[s], t[s]) ELSE KeptOutput(s, V)]
  BY DEF DecodeActive
<1>14. \A r \in Seqs \ V : prompt'[r] = prompt[r] /\ adapter'[r] = adapter[r]
  BY <1>9 DEF Evict
<1>15. \A r \in Seqs \ V : r \notin K => output'[r] = output[r]
  BY <1>13 DEF KeptOutput
<1>16. Preempts(V, 0)
  <2>1. \A r \in K \cup V : /\ place[r] = "live" /\ context_len[r] >= Len(prompt[r])
                            /\ context_len[r] \in Nat
    BY <1>1 DEF Decodable, TypeOK
  <2>2. \A r \in V : context_len'[r] = 0 /\ output'[r] = KeptOutput(r, V)
    BY <1>12, <1>13
  <2>3. \A r \in K : context_len'[r] = context_len[r] + 1
    BY <1>12
  <2>4. \A r \in Seqs \ V : r \notin K => context_len'[r] = context_len[r]
    BY <1>12
  <2>5. \A r \in K : context_len[r] <= context_len'[r]
    BY <2>1, <2>3
  <2> QED
    BY <1>9, <1>15, <2>1, <2>2, <2>4, <2>5 DEF Preempts
<1>17. ASSUME CInv PROVE CInv'
  <2>1. RegisteredCells /\ LiveCells /\ SavedCells /\ Phases
    BY <1>17 DEF CInv
  <2>2. SavedCells' /\ Phases'
    BY <1>1, <1>16, <2>1, PreemptsKeeps
  <2>3. RegisteredCells'
    <3>1. \A b \in DOMAIN block_hash_info' : b \in Blocks /\ b \notin Dropped(V)
      BY <1>1, <1>10 DEF TypeOK
    <3>2. \A b \in DOMAIN block_hash_info' : kv'[b] = kv[b]
      BY <1>5, <1>6, <1>7, <3>1
    <3> QED
      BY <1>1, <1>3, <2>1, <3>2, ReleaseKeepsIndexed
  <2>4. ASSUME NEW r \in K
        PROVE  Coherent(Snapshot(block_table[r])', adapter'[r], Hist(r)', context_len'[r])
    <3> DEFINE c   == context_len[r] + 1
               h   == Hist(r)
               g1  == Hist(r)'
               tab == block_table'[r]
               a   == adapter[r]
    <3>1. r \in Seqs \ V /\ Decodable(r)
      BY <1>1, <1>6
    <3>2. /\ c \in Nat /\ c = Len(h) /\ context_len[r] \in Nat /\ h \in Seq(Tokens)
          /\ kv' \in [Blocks -> [Slots -> Cells]] /\ tab \in Seq(Blocks) /\ g1 \in Seq(Tokens)
      <4>1. context_len[r] \in Nat /\ context_len[r] + 1 = Len(Hist(r))
        BY <1>1, <3>1 DEF TypeOK, Decodable
      <4>2. /\ h \in Seq(Tokens) /\ kv' \in [Blocks -> [Slots -> Cells]]
            /\ tab \in Seq(Blocks) /\ g1 \in Seq(Tokens)
        BY <1>1, <3>1 DEF TypeOK, Hist
      <4> QED
        BY <4>1, <4>2
    <3>3. Len(g1) \in Nat /\ c <= Len(g1) /\ \A p \in 1 .. c : SubSeq(g1, 1, p) = SubSeq(h, 1, p)
      <4> DEFINE y == <<t[r]>>
      <4>1. prompt[r] \in Seq(Tokens) /\ output[r] \in Seq(Tokens) /\ y \in Seq(Tokens) /\ Len(y) = 1
        BY <1>1, <3>1 DEF TypeOK
      <4>2. output'[r] = output[r] \o y /\ prompt'[r] = prompt[r]
        BY <1>13, <1>14, <3>1, <4>1
      <4> HIDE DEF y
      <4>3. g1 = h \o y
        <5>1. prompt[r] \o (output[r] \o y) = (prompt[r] \o output[r]) \o y
          BY <4>1, ConcatAssociates
        <5>2. h = prompt[r] \o output[r] /\ g1 = prompt'[r] \o output'[r]
          BY DEF Hist
        <5> QED
          BY <4>2, <5>1, <5>2
      <4> HIDE DEF h, g1, c
      <4>4. \A p \in 1 .. c : p \in Nat /\ p <= Len(h)
        BY <3>2
      <4>5. /\ \A p \in 1 .. c : SubSeq(h \o y, 1, p) = SubSeq(h, 1, p)
            /\ Len(h \o y) = Len(h) + Len(y)
        <5>1. h \in Seq(Tokens) /\ y \in Seq(Tokens)
          BY <3>2, <4>1
        <5>2. Len(h \o y) = Len(h) + Len(y)
          BY <5>1, ConcatParts
        <5>3. \A p \in 1 .. c : SubSeq(h \o y, 1, p) = SubSeq(h, 1, p)
          BY ONLY <4>4, <5>1, PrefixOfConcat
        <5> QED
          BY <5>2, <5>3
      <4>6. Len(g1) \in Nat /\ c <= Len(g1)
        BY <3>2, <4>1, <4>3, <4>5
      <4> QED
        BY <4>3, <4>5, <4>6
    <3>4. /\ context_len[r] <= Len(block_table[r]) * BlockSize
          /\ \A p \in 1 .. context_len[r] :
                kv[block_table[r][IndexOf(p)]][SlotAt(p)] = Cell(a, h, p)
      BY <1>1, <2>1, <3>1, LiveReads
    <3>5. context_len'[r] = c /\ adapter'[r] = a
      BY <1>12, <1>14, <3>1
    <3>6. c <= Len(tab) * BlockSize
      BY <1>3, <3>1, <3>5 DEF LetsGo
    <3>7. kv'[tab[IndexOf(c)]][SlotAt(c)] = Cell(a, h, c)
      BY <1>5 DEF WriteBlock, WriteSlot
    <3> HIDE DEF h, g1, a
    <3>8. ASSUME NEW p \in 1 .. context_len[r]
          PROVE  kv'[tab[IndexOf(p)]][SlotAt(p)] = Cell(a, h, p)
      <4> DEFINE i == IndexOf(p)
                 b == block_table[r][i]
                 k == SlotAt(p)
      <4>1. p \in Nat /\ p >= 1 /\ p # c /\ p <= Len(block_table[r]) * BlockSize
        <5>1. Len(block_table[r]) * BlockSize \in Nat
          BY <1>11, <3>1, SizesAssumption
        <5> QED
          BY <3>2, <3>4, <5>1
      <4>2. i \in DOMAIN block_table[r] /\ k \in Slots
        BY <1>11, <3>1, <4>1, PositionWithin, PositionSplits
      <4>3. tab[i] = b /\ i \in DOMAIN tab /\ b \in Blocks /\ b \in BlocksOf(r)
        BY <1>11, <3>1, <4>2 DEF BlocksOf
      <4>4. \A s \in K : ~(WriteBlock(s) = b /\ WriteSlot(s) = k)
        <5> SUFFICES ASSUME NEW s \in K, WriteBlock(s) = b, WriteSlot(s) = k PROVE FALSE
          OBVIOUS
        <5>1. b \in Elems(tab)
          BY <4>3 DEF Elems
        <5>2. s = r
          BY <1>6, <3>1, <5>1
        <5>3. IndexOf(c) \in DOMAIN tab /\ tab[IndexOf(c)] = b /\ SlotAt(c) = k
          BY <1>1, <1>2, <5>2, DecodeTables DEF WriteBlock, WriteSlot
        <5>4. IndexOf(c) = i
          <6>1. \A x, y \in DOMAIN tab : tab[x] = tab[y] => x = y
            BY <3>1 DEF IInv, OwnershipExact, TablesInjective
          <6> QED
            BY <4>3, <5>3, <6>1
        <5>5. c >= 1
          BY <3>2
        <5> HIDE DEF c
        <5>6. p = c
          BY <3>2, <4>1, <5>3, <5>4, <5>5, PositionsMeet
        <5> QED
          BY <4>1, <5>6
      <4>5. kv'[b][k] = PoolWithout(V)[b][k]
        BY <1>5, <4>2, <4>3, <4>4
      <4>6. PoolWithout(V)[b] = kv[b]
        BY <1>7, <1>10, <3>1, <4>3
      <4>7. kv[b][k] = Cell(a, h, p)
        BY <3>4
      <4> QED
        BY ONLY <4>3, <4>5, <4>6, <4>7, Zenon
    <3> HIDE DEF tab
    <3>9. ASSUME NEW p \in 1 .. c PROVE kv'[tab[IndexOf(p)]][SlotAt(p)] = Cell(a, g1, p)
      <4>1. kv'[tab[IndexOf(p)]][SlotAt(p)] = Cell(a, h, p)
        <5>1. p \in 1 .. context_len[r] \/ p = c
          BY <3>2
        <5> HIDE DEF c
        <5> QED
          BY <3>7, <3>8, <5>1
      <4>2. Cell(a, h, p) = Cell(a, g1, p)
        BY <3>3 DEF Cell
      <4> QED
        BY <4>1, <4>2
    <3> DEFINE pool == kv'
    <3>10. /\ Reads(tab, pool, a, g1, c)
           /\ tab \in Seq(Blocks) /\ pool \in [Blocks -> [Slots -> Cells]]
           /\ g1 \in Seq(Tokens) /\ c \in Nat
      BY <3>2, <3>3, <3>6, <3>9 DEF Reads
    <3> HIDE DEF pool, c
    <3>11. Coherent(Reading(tab, pool), a, g1, c)
      BY ONLY <3>10, ReadThrough
    <3>12. Snapshot(block_table[r])' = Reading(tab, pool)
      BY DEF Snapshot, Reading, tab, pool
    <3> QED
      BY <3>5, <3>11, <3>12 DEF g1
  <2>5. LiveCells'
    <3> SUFFICES ASSUME NEW r \in Seqs
                 PROVE  Coherent(Snapshot(block_table[r])', adapter'[r], Hist(r)', context_len'[r])
      BY DEF LiveCells
    <3>1. CASE r \in V
      <4>1. Len(Snapshot(block_table[r])') = 0 /\ context_len'[r] = 0
        BY <1>11, <1>12, <3>1 DEF Snapshot
      <4>2. Len(Hist(r)') \in Nat
        BY <1>1 DEF TypeOK, Hist
      <4> DEFINE x == Snapshot(block_table[r])'
                 h == Hist(r)'
      <4> HIDE DEF x, h
      <4>3. Coherent(x, adapter'[r], h, 0)
        BY <4>1, <4>2, NothingToRead DEF x, h
      <4> QED
        BY <4>1, <4>3 DEF x, h
    <3>2. CASE r \notin V /\ r \notin K
      <4>1. /\ block_table'[r] = block_table[r] /\ context_len'[r] = context_len[r]
            /\ adapter'[r] = adapter[r] /\ Hist(r)' = Hist(r)
        BY <1>11, <1>12, <1>14, <1>15, <3>2 DEF Hist
      <4>2. \A b \in BlocksOf(r) : b \in Blocks => kv'[b] = kv[b]
        <5>1. \A b \in BlocksOf(r) : b \in Elems(block_table'[r]) /\ b \notin Dropped(V)
          BY <1>10, <3>2, <4>1 DEF BlocksOf, Elems
        <5>2. \A b \in BlocksOf(r) : \A s \in K : WriteBlock(s) # b
          BY <1>6, <3>2, <5>1
        <5> QED
          BY <1>5, <1>7, <5>1, <5>2
      <4> QED
        BY <1>1, <2>1, <4>1, <4>2, UntouchedReads
    <3> QED
      BY <2>4, <3>1, <3>2
  <2> QED
    BY <2>2, <2>3, <2>5 DEF CInv
<1> QED
  BY <1>4, <1>8, <1>17

-----------------------------------------------------------------------------
(* The invariant holds throughout *)

LEMMA InitContents == Init => WInv /\ CInv
<1> SUFFICES ASSUME Init PROVE WInv /\ CInv
  OBVIOUS
<1>1. \A s \in Seqs : /\ block_table[s] = <<>> /\ context_len[s] = 0 /\ swapped_kv[s] = <<>>
                      /\ swapped_context_len[s] = 0 /\ prompt[s] = <<>> /\ output[s] = <<>>
                      /\ place[s] = "absent"
  BY DEF Init
<1>2. DOMAIN block_hash_info = {}
  BY DEF Init
<1>3. FullWhenRegistered /\ SharedThroughIndex
  BY <1>1 DEF FullWhenRegistered, SharedThroughIndex
<1>4. TablesCover
  BY <1>1, SizesAssumption DEF TablesCover
<1>5. RegisteredCells /\ Phases
  BY <1>1, <1>2 DEF RegisteredCells, Phases
<1>6. ASSUME NEW s \in Seqs
      PROVE  /\ Coherent(Snapshot(block_table[s]), adapter[s], Hist(s), context_len[s])
             /\ Coherent(swapped_kv[s], adapter[s], Hist(s), swapped_context_len[s])
  <2> DEFINE x == Snapshot(block_table[s])
             y == swapped_kv[s]
             h == Hist(s)
  <2>1. Len(x) \in Nat /\ Len(y) \in Nat /\ Len(h) \in Nat
    <3>1. x = <<>> /\ y = <<>>
      BY <1>1 DEF Snapshot
    <3>2. h \in Seq(Tokens)
      BY InitIInv DEF IInv, TypeOK, Hist
    <3> HIDE DEF x, y, h
    <3> QED
      BY <3>1, <3>2
  <2> HIDE DEF x, y, h
  <2>2. Coherent(x, adapter[s], h, 0) /\ Coherent(y, adapter[s], h, 0)
    BY <2>1, NothingToRead
  <2> QED
    BY <1>1, <2>2 DEF x, y, h
<1>7. LiveCells /\ SavedCells
  BY <1>6 DEF LiveCells, SavedCells
<1> QED
  BY <1>3, <1>4, <1>5, <1>7 DEF WInv, CInv

\* Every step writes where it may and keeps the contents right.
LEMMA NextContents ==
    ASSUME IInv, WInv, [Next]_vars
    PROVE  WInv' /\ WritesExclusively /\ (OneAdapter /\ CInv => CInv')
<1>0. IInv'
  BY NextIInv
<1>1. CASE UNCHANGED vars
  <2> USE <1>1 DEF vars, allocVars, tableVars, indexVars, swapVars, seqVars
  <2>1. WInv' /\ WritesExclusively
    BY DEF WInv, FullWhenRegistered, SharedThroughIndex, TablesCover, WritesExclusively
  <2>2. CInv => CInv'
    BY DEF CInv, RegisteredCells, LiveCells, SavedCells, Phases, Hist, Snapshot
  <2> QED
    BY <2>1, <2>2
<1>2. CASE \E s \in Seqs, p \in Prompts, a \in Adapters, n \in 1 .. MaxLen : StartPrefill(s, p, a, n)
  BY <1>0, <1>2, StartPrefillContents
<1>3. CASE \E s \in Seqs, n \in 1 .. MaxLen : ContinuePrefill(s, n)
  BY <1>0, <1>3, ContinuePrefillContents
<1>4. CASE \E s \in Seqs, p \in Prompts, a \in Adapters : PrefillOOM(s, p, a)
  BY <1>0, <1>4, PrefillOOMContents
<1>5. CASE \E s \in Seqs, n \in 1 .. MaxLen : ContinuePrefillOOM(s, n)
  BY <1>0, <1>5, ContinuePrefillOOMContents
<1>6. CASE \E K \in SUBSET Seqs : \E V \in SUBSET (Seqs \ K) : DecodeActive(K, V)
  BY <1>0, <1>6, DecodeActiveContents
<1>7. CASE \E s \in Seqs, draft \in Drafts, t \in Tokens :
             \E matched \in 0 .. Len(draft) : \E kept \in 1 .. matched + 1 :
                 Speculate(s, draft, matched, t, kept)
  BY <1>0, <1>7, SpeculateContents
<1>8. CASE \E s \in Seqs, k \in 1 .. MaxDraft : SpeculateOOM(s, k)
  BY <1>0, <1>8, SpeculateOOMContents
<1>9. CASE \E s \in Seqs : FreeSequence(s)
  BY <1>0, <1>9, FreeSequenceContents
<1>10. CASE \E s \in Seqs : SwapIn(s)
  BY <1>0, <1>10, SwapInContents
<1>11. CASE \E s \in Seqs : SwapInFails(s)
  BY <1>0, <1>11, SwapInFailsContents
<1>12. CASE \E s \in Seqs : DiscardSwapped(s)
  BY <1>0, <1>12, DiscardSwappedContents
<1>13. CASE \E h \in Prompts : BeamScore(h)
  BY <1>0, <1>13, BeamScoreContents
<1> QED
  BY <1>1, <1>2, <1>3, <1>4, <1>5, <1>6, <1>7, <1>8, <1>9, <1>10, <1>11, <1>12, <1>13 DEF Next

LEMMA WInvHolds == Spec => [](IInv /\ WInv)
<1>1. Init => IInv /\ WInv
  BY InitIInv, InitContents
<1>2. IInv /\ WInv /\ [Next]_vars => (IInv /\ WInv)'
  BY NextIInv, NextContents
<1> QED
  BY <1>1, <1>2, PTL DEF Spec

\* K/V is only written into a block that one sequence holds alone and that no
\* prefix leads to, for any pool, prompts and adapters: nothing here needs
\* copy-on-write (kv_cache.py:11-14).
THEOREM WritesAreSafe == Spec => ExclusiveWrites
<1>1. IInv /\ WInv /\ [Next]_vars => [WritesExclusively]_vars
  BY NextContents
<1> QED
  BY <1>1, WInvHolds, PTL DEF Spec, ExclusiveWrites, WritesExclusively

LEMMA CInvHolds ==
    ASSUME OneAdapter
    PROVE  Spec => []CInv
<1>1. Init => CInv
  BY InitContents
<1>2. CInv /\ IInv /\ WInv /\ [Next]_vars => CInv'
  BY NextContents
<1> QED
  BY <1>1, <1>2, WInvHolds, PTL DEF Spec

\* What a sequence reads through its table is what it would have computed alone.
LEMMA ViewsAreOwn ==
    ASSUME IInv, CInv, NEW s \in Seqs
    PROVE  /\ View(s) = OwnCells(s, context_len[s])
           /\ context_len[s] \in Nat /\ context_len[s] <= Len(Hist(s))
           /\ context_len[s] <= Len(block_table[s]) * BlockSize
<1>1. TypeOK /\ LiveCells
  BY DEF IInv, CInv
<1>2. /\ context_len[s] <= Len(Hist(s)) /\ context_len[s] <= Len(block_table[s]) * BlockSize
      /\ \A p \in 1 .. context_len[s] :
            kv[block_table[s][IndexOf(p)]][SlotAt(p)] = Cell(adapter[s], Hist(s), p)
  BY <1>1, LiveReads
<1>3. context_len[s] \in Nat
  BY <1>1 DEF TypeOK
<1>4. \A p \in 1 .. context_len[s] : BlockAt(block_table[s], p) = block_table[s][IndexOf(p)]
  BY <1>3, PositionSplits
<1>5. View(s) = OwnCells(s, context_len[s])
  BY <1>2, <1>4 DEF View, OwnCells
<1> QED
  BY <1>2, <1>3, <1>5

\* Every cached position of every sequence holds the K/V of its own tokens under
\* its own adapter, and every entry of the index leads to the tokens it stands
\* for: after any sequence of prefix hits, evictions, rollbacks and swaps
\* (kv_cache.py:110-119, 190-243), where one adapter fills an index.
THEOREM ContentsSound ==
    ASSUME OneAdapter
    PROVE  Spec => []CacheSound
<1>1. IInv /\ CInv => CacheSound
  <2> SUFFICES ASSUME IInv, CInv PROVE CacheSound
    OBVIOUS
  <2>1. HashIndexLive
    BY DEF HashIndexLive, IInv, CInv, RegisteredCells
  <2>2. CacheCoherent
    BY ViewsAreOwn DEF CacheCoherent
  <2> QED
    BY <2>1, <2>2 DEF CacheSound
<1> QED
  BY <1>1, WInvHolds, CInvHolds, PTL

-----------------------------------------------------------------------------
(* The cache implements one private store per sequence *)

\* The abstract store, read off the cache.
StoreView ==
    \A s \in Seqs :
        /\ View(s) = OwnCells(s, context_len[s])
        /\ SavedView(s) = OwnCells(s, swapped_context_len[s])
        /\ context_len[s] \in Nat /\ context_len[s] <= Len(Hist(s))
        /\ swapped_context_len[s] \in Nat /\ swapped_context_len[s] <= Len(Hist(s))
        /\ Hist(s) \in Seq(Tokens)
        /\ place[s] # "live" => context_len[s] = 0
        /\ place[s] # "swapped" => swapped_context_len[s] = 0
        /\ place[s] = "absent" => Hist(s) = <<>>

LEMMA StoreViewHolds == IInv /\ CInv => StoreView
<1> SUFFICES ASSUME IInv, CInv, NEW s \in Seqs
             PROVE  /\ View(s) = OwnCells(s, context_len[s])
                    /\ SavedView(s) = OwnCells(s, swapped_context_len[s])
                    /\ context_len[s] \in Nat /\ context_len[s] <= Len(Hist(s))
                    /\ swapped_context_len[s] \in Nat /\ swapped_context_len[s] <= Len(Hist(s))
                    /\ Hist(s) \in Seq(Tokens)
                    /\ place[s] # "live" => context_len[s] = 0
                    /\ place[s] # "swapped" => swapped_context_len[s] = 0
                    /\ place[s] = "absent" => Hist(s) = <<>>
  BY DEF StoreView
<1>1. /\ View(s) = OwnCells(s, context_len[s])
      /\ context_len[s] \in Nat /\ context_len[s] <= Len(Hist(s))
  BY ViewsAreOwn
<1>2. Hist(s) \in Seq(Tokens) /\ swapped_context_len[s] \in Nat
  BY DEF IInv, TypeOK, Hist
<1>3. /\ place[s] # "live" => context_len[s] = 0
      /\ place[s] # "swapped" => swapped_context_len[s] = 0
      /\ place[s] = "absent" => prompt[s] = <<>> /\ output[s] = <<>>
  BY DEF CInv, Phases
<1>4. place[s] = "absent" => Hist(s) = <<>>
  BY <1>3 DEF Hist
<1>5. /\ swapped_context_len[s] <= Len(Hist(s))
      /\ \A p \in 1 .. swapped_context_len[s] :
            BlockAt(swapped_kv[s], p)[SlotAt(p)] = Cell(adapter[s], Hist(s), p)
  BY DEF CInv, SavedCells, Coherent
<1>6. SavedView(s) = OwnCells(s, swapped_context_len[s])
  BY <1>5 DEF SavedView, OwnCells, BlockAt
<1> QED
  BY <1>1, <1>2, <1>3, <1>4, <1>5, <1>6

LEMMA StoreViewAfter == IInv' /\ CInv' => StoreView'
BY StoreViewHolds, PTL

\* What an action may do to one sequence, in terms of its history and of how
\* much of it is cached or put aside.
Stays(s) ==
    /\ place'[s] = place[s] /\ Hist(s)' = Hist(s) /\ adapter'[s] = adapter[s]
    /\ context_len'[s] = context_len[s] /\ swapped_context_len'[s] = swapped_context_len[s]
Begins(s) == place[s] = "absent" /\ place'[s] = "live"
Extends(s) ==
    /\ place[s] = "live" /\ place'[s] = "live" /\ adapter'[s] = adapter[s]
    /\ \E y \in Seq(Tokens) : Hist(s)' = Hist(s) \o y
    /\ context_len[s] <= context_len'[s]
Drops(s) == place[s] # "absent" /\ place'[s] = "absent"
Saves(s) ==
    /\ place[s] = "live" /\ place'[s] = "swapped" /\ Hist(s)' = Hist(s) /\ adapter'[s] = adapter[s]
    /\ swapped_context_len'[s] = context_len[s]
Restores(s) ==
    /\ place[s] = "swapped" /\ place'[s] = "live" /\ Hist(s)' = Hist(s) /\ adapter'[s] = adapter[s]
    /\ context_len'[s] = swapped_context_len[s]

StoreSteps ==
    \A s \in Seqs : Stays(s) \/ Begins(s) \/ Extends(s) \/ Drops(s) \/ Saves(s) \/ Restores(s)

\* A concatenation, position by position.
LEMMA ConcatAt ==
    ASSUME NEW S, NEW u \in Seq(S), NEW w \in Seq(S)
    PROVE  /\ u \o w \in Seq(S) /\ Len(u \o w) = Len(u) + Len(w)
           /\ \A i \in 1 .. Len(u) + Len(w) :
                 (u \o w)[i] = IF i <= Len(u) THEN u[i] ELSE w[i - Len(u)]
OBVIOUS

\* The cells of the first n tokens of a history.
CellRun(a, h, n) == [p \in 1 .. n |-> Cell(a, h, p)]

\* A run of m cells of g goes on where one of n cells of h ends.
RunGoesOn(a, h, g, n, m) ==
    /\ CellRun(a, g, m) = CellRun(a, h, n) \o SubSeq(CellRun(a, g, m), n + 1, m)
    /\ Len(h) <= Len(g) /\ SubSeq(g, 1, Len(h)) = h

\* The cells of a longer history behind those of a shorter one.
LEMMA OwnCellsExtend ==
    ASSUME NEW a, NEW h \in Seq(Tokens), NEW y \in Seq(Tokens), NEW n \in Nat, n <= Len(h),
           NEW m \in Nat, n <= m, m <= Len(h \o y)
    PROVE  RunGoesOn(a, h, h \o y, n, m)
<1> DEFINE g == h \o y
           S == {Cell(a, z, p) : z \in {h, g}, p \in Nat}
           u == [p \in 1 .. n |-> Cell(a, h, p)]
           v == [p \in 1 .. m |-> Cell(a, g, p)]
<1>1. /\ \A p \in 1 .. n : SubSeq(g, 1, p) = SubSeq(h, 1, p)
      /\ SubSeq(g, 1, Len(h)) = SubSeq(h, 1, Len(h))
      /\ Len(g) = Len(h) + Len(y) /\ Len(h) \in Nat /\ Len(y) \in Nat
  <2>1. \A p \in 1 .. n : p \in Nat /\ p <= Len(h)
    OBVIOUS
  <2>2. Len(h) \in Nat /\ Len(y) \in Nat
    OBVIOUS
  <2> QED
    BY <2>1, <2>2, PrefixOfConcat
<1>2. SubSeq(h, 1, Len(h)) = h
  <2>1. SubSeq(h, 1, Len(h)) = [i \in 1 .. Len(h) |-> h[i]]
    OBVIOUS
  <2> QED
    BY <2>1
<1>3. \A p \in 1 .. n : Cell(a, g, p) = Cell(a, h, p)
  BY <1>1 DEF Cell
<1> HIDE DEF g
<1>4. u \in [1 .. n -> S] /\ v \in [1 .. m -> S]
  OBVIOUS
<1>5. \A p \in 1 .. n : p \in 1 .. m /\ u[p] = v[p]
  BY <1>3
<1> HIDE DEF u, v, S
<1>6. u \in Seq(S) /\ v \in Seq(S) /\ Len(u) = n /\ Len(v) = m
  BY <1>4, FunctionsAreSequences
<1>7. v = u \o SubSeq(v, n + 1, m)
  <2> DEFINE w == SubSeq(v, n + 1, m)
  <2>1. /\ w \in Seq(S) /\ Len(w) = m - n
        /\ \A i \in 1 .. m - n : w[i] = v[n + i]
    BY <1>6
  <2> HIDE DEF w
  <2> DEFINE z == u \o w
  <2>2. /\ z \in Seq(S) /\ Len(z) = m
        /\ \A i \in 1 .. m : z[i] = IF i <= n THEN u[i] ELSE w[i - n]
    <3>1. u \in Seq(S) /\ w \in Seq(S) /\ Len(u) = n /\ Len(w) = m - n
      BY <1>6, <2>1
    <3>2. n + (m - n) = m
      OBVIOUS
    <3>3. /\ z \in Seq(S) /\ Len(z) = Len(u) + Len(w)
          /\ \A i \in 1 .. Len(u) + Len(w) : z[i] = IF i <= Len(u) THEN u[i] ELSE w[i - Len(u)]
      BY ONLY <3>1, ConcatAt DEF z
    <3> HIDE DEF z
    <3> QED
      BY ONLY <3>1, <3>2, <3>3, Zenon
  <2> HIDE DEF z
  <2>3. \A i \in 1 .. m : z[i] = v[i]
    <3> SUFFICES ASSUME NEW i \in 1 .. m PROVE z[i] = v[i]
      OBVIOUS
    <3>1. CASE i <= n
      <4>1. i \in 1 .. n
        BY <3>1
      <4> QED
        BY <1>5, <2>2, <3>1, <4>1
    <3>2. CASE ~(i <= n)
      <4>1. i - n \in 1 .. m - n /\ n + (i - n) = i
        BY <3>2
      <4>2. w[i - n] = v[i]
        BY <2>1, <4>1
      <4> QED
        BY <2>2, <3>2, <4>2
    <3> QED
      BY <3>1, <3>2
  <2>4. z = v
    BY <1>6, <2>2, <2>3
  <2> QED
    BY <2>4 DEF z, w
<1>8. Len(h) <= Len(g)
  BY <1>1
<1> QED
  BY <1>1, <1>2, <1>7, <1>8 DEF u, v, g, CellRun, RunGoesOn

\* The same cells, named as the abstract store names them.
LEMMA StoreCells ==
    ASSUME NEW a, NEW h, NEW n
    PROVE  Store!OwnCells(a, h, n) = CellRun(a, h, n)
BY DEF Store!OwnCells, CellRun, Cell

\* Each of these is one step of the abstract store.
LEMMA StoreStep ==
    ASSUME StoreView, StoreView', StoreSteps
    PROVE  Store!Next
<1> SUFFICES ASSUME NEW s \in Seqs
             PROVE  \/ Store!Unchanged(s) \/ Store!Begin(s) \/ Store!Extend(s)
                    \/ Store!Drop(s) \/ Store!Save(s) \/ Store!Restore(s)
  BY DEF Store!Next
<1> DEFINE h == Hist(s)
           g == Hist(s)'
           n == context_len[s]
           m == context_len'[s]
           k == swapped_context_len[s]
           j == swapped_context_len'[s]
<1>1. /\ View(s) = CellRun(adapter[s], h, n) /\ SavedView(s) = CellRun(adapter[s], h, k)
      /\ n \in Nat /\ n <= Len(h) /\ k \in Nat /\ h \in Seq(Tokens)
      /\ place[s] # "live" => n = 0
      /\ place[s] # "swapped" => k = 0
  BY DEF StoreView, OwnCells, CellRun
<1>2. /\ View(s)' = CellRun(adapter'[s], g, m) /\ SavedView(s)' = CellRun(adapter'[s], g, j)
      /\ m \in Nat /\ m <= Len(g) /\ j \in Nat /\ g \in Seq(Tokens)
      /\ place'[s] # "live" => m = 0
      /\ place'[s] # "swapped" => j = 0
      /\ place'[s] = "absent" => g = <<>>
  BY DEF StoreView, OwnCells, CellRun
<1>3. \A a, f : CellRun(a, f, 0) = <<>>
  BY DEF CellRun
<1>4. Len(View(s)) = n /\ Len(View(s)') = m
  BY <1>1, <1>2 DEF CellRun
<1> HIDE DEF h, g
<1>5. CASE Stays(s)
  <2>1. View(s)' = View(s) /\ SavedView(s)' = SavedView(s)
    BY <1>1, <1>2, <1>5 DEF Stays, h, g
  <2> QED
    BY <1>5, <2>1 DEF Stays, Store!Unchanged
<1>6. CASE Begins(s)
  <2>1. SavedView(s)' = SavedView(s)
    BY <1>1, <1>2, <1>3, <1>6 DEF Begins
  <2>2. View(s)' = Store!OwnCells(adapter'[s], Hist(s)', Len(View(s)'))
    BY <1>2, <1>4, StoreCells DEF g
  <2> QED
    BY <1>2, <1>4, <1>6, <2>1, <2>2 DEF Begins, Store!Begin, g
<1>7. CASE Extends(s)
  <2>1. SavedView(s)' = SavedView(s)
    BY <1>1, <1>2, <1>3, <1>7 DEF Extends
  <2>2. PICK y \in Seq(Tokens) : g = h \o y
    BY <1>7 DEF Extends, g, h
  <2>3. /\ CellRun(adapter[s], g, m)
               = CellRun(adapter[s], h, n) \o SubSeq(CellRun(adapter[s], g, m), n + 1, m)
        /\ Len(h) <= Len(g) /\ SubSeq(g, 1, Len(h)) = h
    <3>1. /\ n \in Nat /\ m \in Nat /\ n <= m /\ n <= Len(h) /\ m <= Len(h \o y)
          /\ h \in Seq(Tokens) /\ y \in Seq(Tokens)
      BY <1>1, <1>2, <1>7, <2>2 DEF Extends
    <3> HIDE DEF n, m
    <3>2. RunGoesOn(adapter[s], h, h \o y, n, m)
      BY ONLY <3>1, OwnCellsExtend
    <3> QED
      BY ONLY <2>2, <3>2, Zenon DEF RunGoesOn
  <2>4. place[s] = "live" /\ place'[s] = "live" /\ adapter'[s] = adapter[s] /\ n <= m
    BY <1>7 DEF Extends
  <2>5. View(s)' = View(s) \o SubSeq(Store!OwnCells(adapter[s], g, Len(View(s)')),
                                     Len(View(s)) + 1, Len(View(s)'))
    BY <1>1, <1>2, <1>4, <2>3, <2>4, StoreCells, Zenon
  <2>6. Len(View(s)) <= Len(View(s)') /\ Len(View(s)') <= Len(g)
    BY <1>2, <1>4, <2>4
  <2> HIDE DEF n, m
  <2> QED
    BY <2>1, <2>3, <2>4, <2>5, <2>6 DEF Store!Extend, Store!IsPrefixOf, g, h
<1>8. CASE Drops(s)
  <2>1. View(s)' = <<>> /\ SavedView(s)' = <<>> /\ g = <<>>
    BY <1>2, <1>3, <1>8 DEF Drops
  <2> QED
    BY <1>8, <2>1 DEF Drops, Store!Drop, g
<1>9. CASE Saves(s)
  <2>1. View(s)' = <<>> /\ SavedView(s)' = View(s)
    BY <1>1, <1>2, <1>3, <1>9 DEF Saves, h, g
  <2> QED
    BY <1>9, <2>1 DEF Saves, Store!Save
<1>10. CASE Restores(s)
  <2>1. SavedView(s)' = <<>> /\ View(s)' = SavedView(s)
    BY <1>1, <1>2, <1>3, <1>10 DEF Restores, h, g
  <2> QED
    BY <1>10, <2>1 DEF Restores, Store!Restore
<1> QED
  BY <1>5, <1>6, <1>7, <1>8, <1>9, <1>10 DEF StoreSteps

\* What leaves a sequence as it is.
LEMMA UntouchedStays ==
    ASSUME NEW s \in Seqs, place'[s] = place[s], prompt'[s] = prompt[s], output'[s] = output[s],
           adapter'[s] = adapter[s], context_len'[s] = context_len[s],
           swapped_context_len'[s] = swapped_context_len[s]
    PROVE  Stays(s)
BY DEF Stays, Hist

\* A sequence that starts, whether or not the pool is large enough.
LEMMA StartStores ==
    ASSUME IInv, NEW s \in Seqs, NEW p \in Prompts, NEW a \in Adapters,
           PrefillOOM(s, p, a) \/ \E n \in 1 .. MaxLen : StartPrefill(s, p, a, n)
    PROVE  StoreSteps
<1> SUFFICES ASSUME NEW r \in Seqs PROVE r = s \/ Stays(r)
  <2>1. place \in [Seqs -> {"absent", "live", "swapped"}]
    BY DEF IInv, TypeOK
  <2>2. Begins(s)
    BY <2>1 DEF StartPrefill, PrefillOOM, Begins
  <2> QED
    BY <2>2 DEF StoreSteps
<1>1. /\ place' = [place EXCEPT ![s] = "live"]
      /\ \E c : context_len' = [context_len EXCEPT ![s] = c]
      /\ prompt' = [prompt EXCEPT ![s] = p] /\ adapter' = [adapter EXCEPT ![s] = a]
      /\ UNCHANGED swapVars
      /\ UNCHANGED output \/ \E t : output' = [output EXCEPT ![s] = t]
  BY Zenon DEF StartPrefill, PrefillOOM, FinishPrefill
<1>2. TypeOK
  BY DEF IInv
<1> QED
  BY <1>1, <1>2, UntouchedStays DEF TypeOK, swapVars

LEMMA ContinueStores ==
    ASSUME IInv, CInv, NEW s \in Seqs, NEW n \in 1 .. MaxLen, ContinuePrefill(s, n)
    PROVE  StoreSteps
<1>1. /\ UNCHANGED <<place, swapVars, prompt, adapter>> /\ place[s] = "live"
      /\ context_len' = [context_len EXCEPT ![s] = context_len[s] + n]
      /\ context_len[s] + n <= Len(prompt[s])
      /\ UNCHANGED output \/ \E t \in Tokens : output' = [output EXCEPT ![s] = <<t>>]
  BY Zenon DEF ContinuePrefill, FinishPrefill
<1>2. TypeOK
  BY DEF IInv
<1>3. \A r \in Seqs : r # s => Stays(r)
  BY <1>1, <1>2, UntouchedStays DEF TypeOK, swapVars
<1>4. output[s] = <<>> /\ Hist(s) = prompt[s] \o <<>>
  BY <1>1, <1>2 DEF CInv, Phases, TypeOK, Hist
<1>5. \E y \in Seq(Tokens) : Hist(s)' = Hist(s) \o y
  <2>1. /\ prompt[s] \in Seq(Tokens) /\ prompt'[s] = prompt[s]
        /\ output'[s] \in Seq(Tokens)
    <3>1. output' \in [Seqs -> Seq(Tokens)]
      <4>1. \A t \in Tokens : <<t>> \in Seq(Tokens)
        OBVIOUS
      <4> QED
        BY <1>1, <1>2, <4>1 DEF TypeOK
    <3> QED
      BY <1>1, <1>2, <3>1 DEF TypeOK
  <2>2. Hist(s) = prompt[s]
    BY <1>4, <2>1
  <2> QED
    BY <2>1, <2>2 DEF Hist
<1>6. context_len[s] <= context_len'[s]
  BY <1>1, <1>2 DEF TypeOK
<1>7. Extends(s)
  <2>1. /\ place[s] = "live" /\ place'[s] = "live" /\ adapter'[s] = adapter[s]
    BY <1>1
  <2> QED
    BY ONLY <1>5, <1>6, <2>1, Zenon DEF Extends
<1> QED
  BY <1>3, <1>7 DEF StoreSteps

LEMMA SpeculateStores ==
    ASSUME IInv, NEW s \in Seqs, NEW draft \in Drafts, NEW t \in Tokens,
           NEW matched \in 0 .. Len(draft), NEW kept \in 1 .. matched + 1,
           Speculate(s, draft, matched, t, kept)
    PROVE  StoreSteps
<1> DEFINE x == SubSeq(Append(SubSeq(draft, 1, matched), t), 1, kept)
           c == context_len[s] + 1 + Len(draft) - Rollback(Len(draft), matched, kept)
<1>1. /\ UNCHANGED <<place, swapVars, prompt, adapter>> /\ place[s] = "live"
      /\ context_len' = [context_len EXCEPT ![s] = c]
      /\ output' = [output EXCEPT ![s] = output[s] \o x]
  BY DEF Speculate, Decodable
<1>2. TypeOK
  BY DEF IInv
<1>3. \A r \in Seqs : r # s => Stays(r)
  BY <1>1, <1>2, UntouchedStays DEF TypeOK, swapVars
<1>4. draft \in Seq(Tokens) /\ Len(draft) \in Nat
  BY FunctionsAreSequences, SizesAssumption DEF Drafts
<1>5. x \in Seq(Tokens)
  BY <1>4
<1>6. context_len[s] \in Nat /\ context_len[s] <= c
  <2>1. context_len[s] \in Nat
    BY <1>2 DEF TypeOK
  <2>2. Rollback(Len(draft), matched, kept) \in Int /\ Rollback(Len(draft), matched, kept) <= Len(draft)
    BY <1>4 DEF Rollback
  <2> QED
    BY <1>4, <2>1, <2>2
<1> HIDE DEF x, c
<1>7. Hist(s)' = Hist(s) \o x
  <2>1. prompt[s] \in Seq(Tokens) /\ output[s] \in Seq(Tokens)
    BY <1>2 DEF TypeOK
  <2>2. Hist(s)' = prompt[s] \o (output[s] \o x)
    BY <1>1, <1>2 DEF Hist, TypeOK
  <2> QED
    BY <1>5, <2>1, <2>2, ConcatAssociates DEF Hist
<1>8. Extends(s)
  BY <1>1, <1>2, <1>5, <1>6, <1>7 DEF Extends, TypeOK
<1> QED
  BY <1>3, <1>8 DEF StoreSteps

LEMMA SpeculateOOMStores ==
    ASSUME IInv, NEW s \in Seqs, NEW k \in 1 .. MaxDraft, SpeculateOOM(s, k)
    PROVE  StoreSteps
<1>1. TypeOK
  BY DEF IInv
<1>2. /\ place[s] = "live" /\ Evict({s}, Cardinality(free_blocks))
      /\ context_len' = [context_len EXCEPT ![s] = 0]
      /\ output' = [output EXCEPT ![s] = KeptOutput(s, {s})]
  BY DEF SpeculateOOM, Decodable
<1>3. Saves(s) \/ Drops(s)
  BY <1>1, <1>2 DEF Evict, Saves, Drops, Hist, KeptOutput, TypeOK
<1>4. \A r \in Seqs : r # s => Stays(r)
  BY <1>1, <1>2, UntouchedStays DEF Evict, TypeOK, swapVars
<1> QED
  BY <1>3, <1>4 DEF StoreSteps

LEMMA DecodeStores ==
    ASSUME IInv, NEW K \in SUBSET Seqs, NEW V \in SUBSET (Seqs \ K), DecodeActive(K, V)
    PROVE  StoreSteps
<1>1. TypeOK
  BY DEF IInv
<1>2. /\ \A s \in K \cup V : place[s] = "live"
      /\ Evict(V, 0)
      /\ context_len' = [s \in Seqs |-> IF s \in V THEN 0
                                        ELSE IF s \in K THEN context_len[s] + 1
                                        ELSE context_len[s]]
      /\ \E t \in [K -> Tokens] :
           output' = [s \in Seqs |-> IF s \in K THEN Append(output[s], t[s]) ELSE KeptOutput(s, V)]
  BY Zenon DEF DecodeActive, Decodable
<1>3. ASSUME NEW s \in V PROVE Saves(s) \/ Drops(s)
  <2>1. s \in Seqs /\ s \notin K /\ place[s] = "live"
    BY <1>2
  <2>2. output'[s] = KeptOutput(s, V)
    BY <1>2, <2>1
  <2> QED
    BY <1>1, <1>2, <2>1, <2>2 DEF Evict, Saves, Drops, Hist, KeptOutput, TypeOK
<1>4. ASSUME NEW s \in K PROVE Extends(s)
  <2>1. s \in Seqs /\ s \notin V /\ place[s] = "live"
    BY <1>2
  <2>2. PICK u \in Tokens : output'[s] = Append(output[s], u)
    BY <1>2, <2>1
  <2>3. /\ place'[s] = "live" /\ adapter'[s] = adapter[s] /\ prompt'[s] = prompt[s]
    BY <1>1, <1>2, <2>1 DEF Evict, TypeOK
  <2>4. context_len[s] <= context_len'[s]
    BY <1>1, <1>2, <2>1 DEF TypeOK
  <2>5. Hist(s)' = Hist(s) \o <<u>>
    <3>1. prompt[s] \in Seq(Tokens) /\ output[s] \in Seq(Tokens) /\ <<u>> \in Seq(Tokens)
      BY <1>1, <2>1 DEF TypeOK
    <3>2. Append(output[s], u) = output[s] \o <<u>>
      BY <3>1
    <3>3. Hist(s)' = prompt[s] \o (output[s] \o <<u>>)
      BY <2>2, <2>3, <3>2 DEF Hist
    <3> QED
      BY <3>1, <3>3, ConcatAssociates DEF Hist
  <2>6. <<u>> \in Seq(Tokens)
    OBVIOUS
  <2>7. \E y \in Seq(Tokens) : Hist(s)' = Hist(s) \o y
    BY ONLY <2>5, <2>6, Zenon
  <2> QED
    BY ONLY <2>1, <2>3, <2>4, <2>7, Zenon DEF Extends
<1>5. ASSUME NEW s \in Seqs, s \notin K, s \notin V PROVE Stays(s)
  <2>1. output'[s] = output[s] /\ context_len'[s] = context_len[s]
    BY <1>2, <1>5 DEF KeptOutput
  <2>2. /\ place'[s] = place[s] /\ prompt'[s] = prompt[s] /\ adapter'[s] = adapter[s]
        /\ swapped_context_len'[s] = swapped_context_len[s]
    BY <1>1, <1>2, <1>5 DEF Evict, TypeOK, swapVars
  <2> QED
    BY <2>1, <2>2, UntouchedStays
<1> QED
  BY <1>3, <1>4, <1>5 DEF StoreSteps

\* A sequence that goes for good.
LEMMA LeavingStores ==
    ASSUME IInv, NEW s \in Seqs, FreeSequence(s) \/ SwapInFails(s) \/ DiscardSwapped(s)
    PROVE  StoreSteps
<1>1. TypeOK
  BY DEF IInv
<1>2. /\ place[s] # "absent" /\ place' = [place EXCEPT ![s] = "absent"]
      /\ prompt' = [prompt EXCEPT ![s] = <<>>] /\ output' = [output EXCEPT ![s] = <<>>]
      /\ adapter' = [adapter EXCEPT ![s] = BaseModel]
      /\ UNCHANGED context_len \/ context_len' = [context_len EXCEPT ![s] = 0]
      /\ UNCHANGED swapVars \/ swapped_context_len' = [swapped_context_len EXCEPT ![s] = 0]
  BY DEF FreeSequence, SwapInFails, DiscardSwapped
<1>3. Drops(s)
  BY <1>1, <1>2 DEF Drops, TypeOK
<1>4. \A r \in Seqs : r # s => Stays(r)
  BY <1>1, <1>2, UntouchedStays DEF TypeOK, swapVars
<1> QED
  BY <1>3, <1>4 DEF StoreSteps

LEMMA SwapInStores ==
    ASSUME IInv, NEW s \in Seqs, SwapIn(s)
    PROVE  StoreSteps
<1>1. TypeOK
  BY DEF IInv
<1>2. /\ place[s] = "swapped" /\ place' = [place EXCEPT ![s] = "live"]
      /\ UNCHANGED seqVars
      /\ context_len' = [context_len EXCEPT ![s] = swapped_context_len[s]]
      /\ swapped_context_len' = [swapped_context_len EXCEPT ![s] = 0]
  BY DEF SwapIn
<1>3. Restores(s)
  BY <1>1, <1>2 DEF Restores, Hist, seqVars, TypeOK
<1>4. \A r \in Seqs : r # s => Stays(r)
  BY <1>1, <1>2, UntouchedStays DEF seqVars, TypeOK
<1> QED
  BY <1>3, <1>4 DEF StoreSteps

\* What only takes blocks, or only touches the index.
LEMMA QuietStores ==
    ASSUME UNCHANGED <<place, context_len, swapVars, seqVars>>
    PROVE  StoreSteps
BY UntouchedStays DEF StoreSteps, swapVars, seqVars

\* Every step of the cache does to each sequence what the store may do to it.
LEMMA NextStores ==
    ASSUME IInv, CInv, [Next]_vars
    PROVE  StoreSteps
<1>1. CASE UNCHANGED vars
  BY <1>1, QuietStores DEF vars, tableVars
<1>2. CASE \E s \in Seqs, p \in Prompts, a \in Adapters, n \in 1 .. MaxLen : StartPrefill(s, p, a, n)
  BY <1>2, StartStores
<1>3. CASE \E s \in Seqs, n \in 1 .. MaxLen : ContinuePrefill(s, n)
  BY <1>3, ContinueStores
<1>4. CASE \E s \in Seqs, p \in Prompts, a \in Adapters : PrefillOOM(s, p, a)
  BY <1>4, StartStores
<1>5. CASE \E s \in Seqs, n \in 1 .. MaxLen : ContinuePrefillOOM(s, n)
  BY <1>5, QuietStores DEF ContinuePrefillOOM
<1>6. CASE \E K \in SUBSET Seqs : \E V \in SUBSET (Seqs \ K) : DecodeActive(K, V)
  BY <1>6, DecodeStores
<1>7. CASE \E s \in Seqs, draft \in Drafts, t \in Tokens :
             \E matched \in 0 .. Len(draft) : \E kept \in 1 .. matched + 1 :
                 Speculate(s, draft, matched, t, kept)
  BY <1>7, SpeculateStores
<1>8. CASE \E s \in Seqs, k \in 1 .. MaxDraft : SpeculateOOM(s, k)
  BY <1>8, SpeculateOOMStores
<1>9. CASE \E s \in Seqs : FreeSequence(s)
  BY <1>9, LeavingStores
<1>10. CASE \E s \in Seqs : SwapIn(s)
  BY <1>10, SwapInStores
<1>11. CASE \E s \in Seqs : SwapInFails(s)
  BY <1>11, LeavingStores
<1>12. CASE \E s \in Seqs : DiscardSwapped(s)
  BY <1>12, LeavingStores
<1>13. CASE \E h \in Prompts : BeamScore(h)
  BY <1>13, QuietStores DEF BeamScore, tableVars
<1> QED
  BY <1>1, <1>2, <1>3, <1>4, <1>5, <1>6, <1>7, <1>8, <1>9, <1>10, <1>11, <1>12, <1>13 DEF Next

LEMMA StoreInit == Init => Store!Init
<1> SUFFICES ASSUME Init PROVE Store!Init
  OBVIOUS
<1>1. \A s \in Seqs : Hist(s) = <<>> /\ View(s) = <<>> /\ SavedView(s) = <<>>
  BY DEF Init, Hist, View, SavedView
<1>2. adapter \in [Seqs -> Adapters]
  BY AdaptersAssumption DEF Init
<1> QED
  BY <1>1, <1>2 DEF Store!Init, Init

\* Sharing, the index, preemption, swapping, rollback and the reuse of blocks
\* are invisible: the cache implements one private store per sequence, whatever
\* the pool and the prompts, where one adapter fills an index.
THEOREM ImplementsStore ==
    ASSUME OneAdapter
    PROVE  Spec => StoreSpec
<1>1. Init => Store!Init
  BY StoreInit
<1>2. IInv /\ CInv /\ IInv' /\ CInv' /\ [Next]_vars => [Store!Next]_(Store!vars)
  BY StoreViewHolds, StoreViewAfter, NextStores, StoreStep
<1> QED
  BY <1>1, <1>2, WInvHolds, CInvHolds, PTL DEF Spec, StoreSpec, Store!Spec
=============================================================================
