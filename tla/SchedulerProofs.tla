--------------------------- MODULE SchedulerProofs ---------------------------
(***************************************************************************)
(* Proofs about Scheduler, for every set of requests and every setting of  *)
(* the scheduler: no request is lost or listed twice, every block has one  *)
(* owner, what is cached follows what was generated, a step serves every   *)
(* decodable sequence.                                                     *)
(***************************************************************************)
EXTENDS Scheduler, Foundations

-----------------------------------------------------------------------------
(* The inductive invariant *)

\* The three lists and the statuses say the same of every request.  Only a
\* swap-in that raised has left a status behind.
ListsMatch ==
    /\ IsInjective(waiting) /\ IsInjective(running) /\ IsInjective(swapped)
    /\ \A r \in Reqs :
         /\ r \in Elems(waiting) <=> status[r] = "WAITING"
         /\ r \in Elems(swapped) => status[r] = "SWAPPED"
         /\ status[r] = "SWAPPED" /\ phase # "dead" => r \in Elems(swapped)
         /\ r \in Elems(running) => status[r] \in {"PREFILLING", "RUNNING", "FINISHED"}
         /\ status[r] \in {"PREFILLING", "RUNNING"} => r \in Elems(running)
         /\ status[r] = "FINISHED" /\ phase \in {"idle", "swap_in", "beam"} => r \notin Elems(running)

\* How many tokens a request has, by its status.
TokensByStatus ==
    \A r \in Reqs :
        /\ out[r] <= MaxNew[r]
        /\ status[r] \in {"NEW", "WAITING", "PREFILLING"} => out[r] = 0
        /\ status[r] \in {"RUNNING", "SWAPPED"} => out[r] >= 1 /\ out[r] < MaxNew[r]

\* How much of a request is cached or saved, by its status: a table covers
\* what is cached, and a decodable sequence has its whole prompt there.
CachedByStatus ==
    \A r \in Reqs :
        /\ ctx[r] <= blocks[r] * BlockSize
        /\ status[r] = "PREFILLING" => ctx[r] < PromptLen[r]
        /\ status[r] = "RUNNING" => ctx[r] >= PromptLen[r]
        /\ r \in Elems(swapped) =>
              swap_ctx[r] >= PromptLen[r] /\ swap_ctx[r] <= swap_blocks[r] * BlockSize

\* The sequences that still get a token in this step.
Unserved == {r \in Reqs : status[r] = "RUNNING" /\ gained[r] = 0}

\* What the loops of a step have before them.
LoopsInOrder ==
    /\ phase = "prefill" =>
         /\ IsInjective(todo)
         /\ Elems(todo) \subseteq {r \in Reqs : status[r] = "PREFILLING"}
    /\ phase = "draft" =>
         /\ IsInjective(todo) /\ IsInjective(batch)
         /\ Elems(todo) \cap Elems(batch) = {} /\ Elems(todo) \cup Elems(batch) = Unserved
    /\ phase = "decode" => IsInjective(batch) /\ batch # <<>> /\ Elems(batch) = Unserved
    /\ phase = "finish" => Unserved = {}
    /\ phase = "beam" => todo # <<>> /\ Elems(todo) \subseteq Groups

\* What a step has sampled so far.  Without speculation that is one token at most.
GainsInOrder ==
    \A r \in Reqs :
        /\ phase \in {"prefill", "draft", "decode", "finish"} =>
              (r \in Elems(running) /\ status[r] = "FINISHED" => gained[r] >= 1)
        /\ phase \in {"swap_in", "prefill"} =>
              (status[r] \in {"WAITING", "SWAPPED", "PREFILLING"} => gained[r] = 0)
        /\ phase \in {"swap_in", "prefill", "draft", "decode", "finish"} =>
              (MaxDraft = 0 => gained[r] <= 1)

PlanFits == plan \in [Greedy -> [1 .. Max({MaxNew[r] : r \in Reqs}) - 1 -> Outlook]]

IInv ==
    /\ TypeOK /\ PlanFits /\ ListsMatch /\ BlocksAccounted
    /\ TokensByStatus /\ CachedByStatus /\ LoopsInOrder /\ GainsInOrder

\* All sequences of a batch are decoded in one lane.
OneLane == UseGraph => Lora \in {{}, Reqs}

\* What is cached or saved of a sequence that has all its prompt, exactly.
ExactlyCached ==
    \A r \in Reqs :
        /\ status[r] = "RUNNING" => ctx[r] = PromptLen[r] + out[r] - 1
        /\ r \in Elems(swapped) => swap_ctx[r] = PromptLen[r] + out[r] - 1

-----------------------------------------------------------------------------
(* Lists of requests *)

LEMMA HeadAndTail ==
    ASSUME NEW R, NEW q \in Seq(R), q # <<>>
    PROVE  /\ Head(q) \in R /\ Head(q) \in Elems(q)
           /\ Tail(q) \in Seq(R) /\ Elems(q) = Elems(Tail(q)) \cup {Head(q)}
           /\ IsInjective(q) =>
                 IsInjective(Tail(q)) /\ Elems(Tail(q)) = Elems(q) \ {Head(q)}
<1>1. /\ Tail(q) \in Seq(R) /\ Len(Tail(q)) = Len(q) - 1 /\ Head(q) = q[1]
      /\ \A i \in 1 .. Len(q) - 1 : Tail(q)[i] = q[i + 1]
      /\ Len(q) \in Nat /\ Len(q) >= 1
  OBVIOUS
<1>2. /\ \A i \in 2 .. Len(q) : i - 1 \in 1 .. Len(q) - 1 /\ Tail(q)[i - 1] = q[i]
      /\ \A i \in 1 .. Len(q) - 1 : i + 1 \in 2 .. Len(q)
  BY <1>1
<1> DEFINE t == Tail(q)
<1> HIDE DEF t
<1>3. Elems(q) = Elems(t) \cup {q[1]}
  <2>1. \A r \in Elems(q) : r = q[1] \/ \E i \in 2 .. Len(q) : r = q[i]
    BY <1>1 DEF Elems
  <2>2. \A i \in 2 .. Len(q) : q[i] \in Elems(t)
    <3>1. DOMAIN t = 1 .. Len(q) - 1 /\ \A i \in 2 .. Len(q) : t[i - 1] = q[i] /\ i - 1 \in 1 .. Len(q) - 1
      BY <1>1, <1>2 DEF t
    <3> QED
      BY ONLY <3>1 DEF Elems
  <2>3. \A r \in Elems(t) : r \in Elems(q)
    BY <1>1, <1>2 DEF Elems, t
  <2>4. q[1] \in Elems(q)
    BY <1>1 DEF Elems
  <2> QED
    BY <2>1, <2>2, <2>3, <2>4
<1>4. ASSUME IsInjective(q) PROVE IsInjective(t) /\ q[1] \notin Elems(t)
  BY <1>1, <1>2, <1>4 DEF IsInjective, Elems, t
<1>5. q[1] \in R
  BY <1>1
<1> QED
  BY <1>1, <1>3, <1>4, <1>5 DEF t

LEMMA ConsList ==
    ASSUME NEW R, NEW q \in Seq(R), NEW x \in R
    PROVE  /\ <<x>> \o q \in Seq(R) /\ Elems(<<x>> \o q) = Elems(q) \cup {x}
           /\ IsInjective(q) /\ x \notin Elems(q) => IsInjective(<<x>> \o q)
<1>1. <<x>> \in Seq(R) /\ Elems(<<x>>) = {x} /\ IsInjective(<<x>>)
  BY DEF Elems, IsInjective
<1>2. /\ <<x>> \o q \in Seq(R) /\ Elems(<<x>> \o q) = Elems(<<x>>) \cup Elems(q)
      /\ IsInjective(<<x>>) /\ IsInjective(q) /\ Elems(<<x>>) \cap Elems(q) = {} =>
            IsInjective(<<x>> \o q)
  BY ONLY <1>1, ConcatList, q \in Seq(R)
<1> QED
  BY <1>1, <1>2

LEMMA AllButLast ==
    ASSUME NEW R, NEW q \in Seq(R), q # <<>>, IsInjective(q)
    PROVE  LET p == SubSeq(q, 1, Len(q) - 1) IN
           /\ p \in Seq(R) /\ IsInjective(p)
           /\ Elems(p) = Elems(q) \ {Last(q)} /\ Last(q) \in Elems(q) /\ Last(q) \in R
           /\ Len(q) # 1 => p # <<>>
           /\ Len(q) = 1 => Elems(p) = {}
<1> DEFINE p == SubSeq(q, 1, Len(q) - 1)
<1>1. /\ p \in Seq(R) /\ Len(p) = Len(q) - 1
      /\ \A i \in 1 .. Len(q) - 1 : p[i] = q[i]
      /\ Len(q) \in Nat /\ Len(q) >= 1
  <2>1. Len(q) \in Nat /\ Len(q) >= 1
    OBVIOUS
  <2> DEFINE n == Len(q) - 1
  <2>2. n \in Nat /\ n <= Len(q)
    BY <2>1
  <2> HIDE DEF n
  <2>3. SubSeq(q, 1, n) = [i \in 1 .. n |-> q[i]]
    BY <2>1, <2>2
  <2>4. \A i \in 1 .. n : q[i] \in R
    BY <2>1, <2>2
  <2>5. SubSeq(q, 1, n) \in Seq(R) /\ Len(SubSeq(q, 1, n)) = n
    BY <2>2, <2>3, <2>4
  <2>6. \A i \in 1 .. n : SubSeq(q, 1, n)[i] = q[i]
    BY <2>3
  <2> QED
    BY <2>1, <2>5, <2>6 DEF n
<1> HIDE DEF p
<1>2. DOMAIN p = 1 .. Len(q) - 1 /\ DOMAIN q = 1 .. Len(q)
  BY <1>1
<1>3. \A i \in 1 .. Len(q) : i = Len(q) \/ i \in 1 .. Len(q) - 1
  BY <1>1
<1>4. IsInjective(p)
  BY <1>1, <1>2 DEF IsInjective
<1>5. Elems(p) = Elems(q) \ {q[Len(q)]} /\ q[Len(q)] \in Elems(q)
  BY <1>1, <1>2, <1>3 DEF IsInjective, Elems
<1>6. Len(q) # 1 => p # <<>>
  BY <1>1
<1>7. Len(q) = 1 => Elems(p) = {}
  BY <1>2 DEF Elems
<1>8. q[Len(q)] \in R
  BY <1>1
<1> QED
  BY <1>1, <1>4, <1>5, <1>6, <1>7, <1>8 DEF p, Last

\* A prefix of a list that repeats nothing has as many elements as it is long.
LEMMA PrefixCounts ==
    ASSUME NEW R, NEW q \in Seq(R), IsInjective(q), NEW n \in Nat, n <= Len(q)
    PROVE  Cardinality({q[i] : i \in 1 .. n}) = n /\ IsFiniteSet({q[i] : i \in 1 .. n})
<1> DEFINE T == {q[i] : i \in 1 .. n}
           f == [i \in 1 .. n |-> q[i]]
<1>1. DOMAIN q = 1 .. Len(q) /\ Len(q) \in Nat
  OBVIOUS
<1>2. \A i \in 1 .. n : i \in DOMAIN q
  BY <1>1
<1>3. f \in Bijection(1 .. n, T)
  BY <1>2 DEF IsInjective, Bijection, Injection, Surjection
<1>4. IsFiniteSet(1 .. n) /\ Cardinality(1 .. n) = n
  BY FS_Interval
<1> HIDE DEF T, f
<1>5. IsFiniteSet(T) /\ Cardinality(T) = Cardinality(1 .. n)
  BY <1>3, <1>4, FS_Bijection DEF ExistsBijection
<1> QED
  BY <1>4, <1>5 DEF T

LEMMA ListCounts ==
    ASSUME NEW R, NEW q \in Seq(R), IsInjective(q)
    PROVE  Cardinality(Elems(q)) = Len(q) /\ IsFiniteSet(Elems(q))
<1>1. Len(q) \in Nat /\ Len(q) <= Len(q) /\ DOMAIN q = 1 .. Len(q)
  OBVIOUS
<1>2. Elems(q) = {q[i] : i \in 1 .. Len(q)}
  BY <1>1 DEF Elems
<1> QED
  BY <1>1, <1>2, PrefixCounts

\* How often OneHome finds a request in a list.
LEMMA OccursOnce ==
    ASSUME NEW R, NEW q \in Seq(R), IsInjective(q), NEW r
    PROVE  Times(q, r) = IF r \in Elems(q) THEN 1 ELSE 0
<1>1. CASE r \in Elems(q)
  <2>1. PICK i \in DOMAIN q : q[i] = r
    BY <1>1 DEF Elems
  <2>2. {j \in DOMAIN q : q[j] = r} = {i}
    BY <2>1 DEF IsInjective
  <2> QED
    BY <1>1, <2>2, FS_Singleton DEF Times
<1>2. CASE r \notin Elems(q)
  <2>1. {j \in DOMAIN q : q[j] = r} = {}
    BY <1>2 DEF Elems
  <2> QED
    BY <1>2, <2>1, FS_EmptySet DEF Times
<1> QED
  BY <1>1, <1>2

LEMMA WithoutOne ==
    ASSUME NEW R, NEW q \in Seq(R), NEW r
    PROVE  /\ Without(q, r) \in Seq(R) /\ Elems(Without(q, r)) = Elems(q) \ {r}
           /\ IsInjective(q) => IsInjective(Without(q, r))
BY OnlyOf DEF Without

-----------------------------------------------------------------------------
(* Blocks and tokens *)

LEMMA BlocksEnough ==
    ASSUME NEW n \in Nat
    PROVE  /\ BlocksNeeded(n) \in Nat
           /\ n <= BlocksNeeded(n) * BlockSize
           /\ \A k \in Nat : n <= k * BlockSize <=> BlocksNeeded(n) <= k
<1> DEFINE B == BlockSize
           q == (n + B - 1) \div B
           r == (n + B - 1) % B
<1>1. B \in Nat /\ B >= 1 /\ n + B - 1 \in Nat
  BY SizesAssumption
<1>2. q \in Nat /\ r \in Nat /\ r < B /\ n + B - 1 = B * q + r
  BY <1>1, SMTT(30)
<1>3. BlocksNeeded(n) = q
  BY DEF BlocksNeeded
<1> HIDE DEF B, q, r
<1>4. \A x, y \in Nat : x <= y => x * B <= y * B
  BY <1>1, SMTT(30)
<1>5. /\ \A x \in Nat : x * B \in Nat /\ (x + 1) * B = x * B + B
      /\ B * q = q * B
  BY <1>1, <1>2, SMTT(30)
<1>6. n <= q * B /\ q * B < n + B
  BY <1>1, <1>2, <1>5
<1>7. ASSUME NEW k \in Nat PROVE n <= k * B <=> q <= k
  <2>1. CASE q <= k
    BY <1>2, <1>4, <1>5, <1>6, <2>1
  <2>2. CASE ~(q <= k)
    <3>1. (k + 1) * B <= q * B
      BY <1>2, <1>4, <2>2
    <3>2. k * B + B <= q * B /\ k * B \in Nat /\ q * B \in Nat
      BY <1>2, <1>5, <3>1
    <3> QED
      BY <1>1, <1>6, <2>2, <3>2
  <2> QED
    BY <2>1, <2>2
<1> QED
  BY <1>2, <1>3, <1>6, <1>7 DEF B

\* A table that reserve() has grown covers what it was grown for.
LEMMA TableCovers ==
    ASSUME NEW b \in Nat, NEW c \in Nat
    PROVE  /\ Excess(BlocksNeeded(c), b) \in Nat
           /\ c <= (b + Excess(BlocksNeeded(c), b)) * BlockSize
           /\ Excess(BlocksNeeded(c), b) = 0 => c <= b * BlockSize
           /\ \A k \in Nat : c <= k * BlockSize /\ b <= k => Excess(BlocksNeeded(c), b) <= k - b
<1>1. /\ BlocksNeeded(c) \in Nat
      /\ \A k \in Nat : c <= k * BlockSize <=> BlocksNeeded(c) <= k
  BY BlocksEnough
<1> DEFINE d == BlocksNeeded(c)
           e == Excess(d, b)
<1> HIDE DEF d
<1>2. e \in Nat /\ b + e \in Nat /\ d <= b + e /\ (e = 0 => d <= b)
      /\ \A k \in Nat : d <= k /\ b <= k => e <= k - b
  BY <1>1 DEF Excess, d
<1> HIDE DEF e
<1>3. c <= (b + e) * BlockSize
  BY <1>1, <1>2 DEF d
<1>4. e = 0 => c <= b * BlockSize
  BY <1>1, <1>2 DEF d
<1>5. \A k \in Nat : c <= k * BlockSize /\ b <= k => e <= k - b
  BY <1>1, <1>2 DEF d
<1> QED
  BY <1>2, <1>3, <1>4, <1>5 DEF e, d

LEMMA MissingCovers ==
    ASSUME NEW r \in Reqs, ctx[r] \in Nat, blocks[r] \in Nat, NEW n \in Nat
    PROVE  /\ Missing(r, n) \in Nat
           /\ ctx[r] + n <= (blocks[r] + Missing(r, n)) * BlockSize
           /\ Missing(r, n) = 0 => ctx[r] + n <= blocks[r] * BlockSize
<1>1. ctx[r] + n \in Nat
  OBVIOUS
<1> QED
  BY <1>1, TableCovers DEF Missing

\* More blocks cover no less.
LEMMA MoreCovers ==
    ASSUME NEW a \in Nat, NEW b \in Nat, a <= b, NEW c \in Nat, c <= a * BlockSize
    PROVE  c <= b * BlockSize
<1>1. BlockSize \in Nat
  BY SizesAssumption
<1>2. a * BlockSize <= b * BlockSize
  BY <1>1, SMTT(30)
<1>3. a * BlockSize \in Nat /\ b * BlockSize \in Nat
  BY <1>1
<1> QED
  BY <1>2, <1>3

\* A table that covers something is not empty.
LEMMA CoversNeedsBlocks ==
    ASSUME NEW b \in Nat, NEW c \in Nat, c >= 1, c <= b * BlockSize
    PROVE  b >= 1
<1>1. b = 0 => b * BlockSize = 0
  BY SizesAssumption
<1> QED
  BY <1>1

-----------------------------------------------------------------------------
(* Facts every action needs *)

LEMMA SeqWiden ==
    ASSUME NEW R, NEW T, NEW q \in Seq(R)
    PROVE  q \in Seq(R \cup T) /\ q \in Seq(T \cup R)
OBVIOUS

LEMMA Numbers ==
    ASSUME IInv, NEW r \in Reqs
    PROVE  /\ ctx[r] \in Nat /\ blocks[r] \in Nat /\ out[r] \in Nat /\ gained[r] \in Nat
           /\ swap_ctx[r] \in Nat /\ swap_blocks[r] \in Nat /\ swap_blocks[r] <= NumBlocks
           /\ num_free \in Nat /\ leaked \in Nat /\ budget \in Nat
           /\ PromptLen[r] \in Nat /\ PromptLen[r] >= 1
           /\ MaxNew[r] \in Nat /\ MaxNew[r] >= 1
           /\ NumBlocks \in Nat /\ BlockSize \in Nat /\ BlockSize >= 1
           /\ ChunkBudget \in Nat
<1>1. /\ ctx[r] \in Nat /\ blocks[r] \in 0 .. NumBlocks /\ out[r] \in Nat /\ gained[r] \in Nat
      /\ swap_ctx[r] \in Nat /\ swap_blocks[r] \in 0 .. NumBlocks
      /\ num_free \in 0 .. NumBlocks /\ leaked \in 0 .. NumBlocks /\ budget \in 0 .. ChunkBudget
  BY DEF IInv, TypeOK
<1> QED
  BY <1>1, SizesAssumption, RequestsAssumption

\* Where the books balance, nothing in them is larger than the pool.
LEMMA BooksBound ==
    ASSUME NEW g \in [Reqs -> Nat], NEW n \in Nat, NEW l \in Nat,
           n + SumFunctionOnSet(g, Reqs) + l = NumBlocks
    PROVE  n \in 0 .. NumBlocks /\ l \in 0 .. NumBlocks /\ g \in [Reqs -> 0 .. NumBlocks]
<1>1. IsFiniteSet(Reqs) /\ \A r \in Reqs : g[r] \in Nat
  BY RequestsAssumption
<1>2. SumFunctionOnSet(g, Reqs) \in Nat
  BY <1>1, SumInNat
<1>3. n <= NumBlocks /\ l <= NumBlocks
  BY <1>2
<1>4. ASSUME NEW r \in Reqs PROVE g[r] <= NumBlocks
  <2>1. g[r] <= SumFunctionOnSet(g, Reqs)
    BY <1>1, SumAtOne
  <2> QED
    BY <1>1, <1>2, <2>1
<1> QED
  BY <1>1, <1>3, <1>4, SizesAssumption

\* One table that grows, shrinks or goes.
LEMMA BooksAtOne ==
    ASSUME NEW g \in [Reqs -> Nat], NEW r \in Reqs, NEW n \in Nat
    PROVE  /\ SumFunctionOnSet([g EXCEPT ![r] = n], Reqs) = SumFunctionOnSet(g, Reqs) - g[r] + n
           /\ SumFunctionOnSet(g, Reqs) \in Nat /\ g[r] <= SumFunctionOnSet(g, Reqs)
<1> DEFINE h == [g EXCEPT ![r] = n]
<1>1. /\ IsFiniteSet(Reqs) /\ \A x \in Reqs : g[x] \in Nat
      /\ h[r] = n /\ h[r] \in Nat /\ \A x \in Reqs \ {r} : h[x] = g[x]
  BY RequestsAssumption
<1> HIDE DEF h
<1>2. /\ SumFunctionOnSet(h, Reqs) - h[r] = SumFunctionOnSet(g, Reqs) - g[r]
      /\ g[r] <= SumFunctionOnSet(g, Reqs)
      /\ SumFunctionOnSet(g, Reqs) \in Nat /\ SumFunctionOnSet(h, Reqs) \in Nat
  BY ONLY <1>1, r \in Reqs, SumAtOne
<1>3. g[r] \in Nat
  BY <1>1
<1>4. SumFunctionOnSet(h, Reqs) = SumFunctionOnSet(g, Reqs) - g[r] + n
  BY ONLY <1>1, <1>2, <1>3, n \in Nat
<1> QED
  BY <1>2, <1>4 DEF h

\* No request outside the running list has blocks or a context.
LEMMA OnlyRunningHold ==
    ASSUME IInv, NEW r \in Reqs, r \notin Elems(running)
    PROVE  blocks[r] = 0 /\ ctx[r] = 0
<1>1. ctx[r] \in Nat /\ blocks[r] \in Nat
  BY Numbers
<1>2. blocks[r] = 0
  BY <1>1 DEF IInv, BlocksAccounted
<1>3. ctx[r] <= 0 * BlockSize
  BY <1>2 DEF IInv, CachedByStatus
<1> QED
  BY <1>1, <1>2, <1>3, SizesAssumption

\* What is pledged is a number of blocks.
LEMMA PledgedIsNat == IInv => Pledged \in Nat
<1> SUFFICES ASSUME IInv PROVE Pledged \in Nat
  OBVIOUS
<1> DEFINE f == [r \in Reqs |-> Pledge(r)]
<1>1. ASSUME NEW r \in Reqs PROVE Pledge(r) \in Nat
  <2>1. TotalLen(r) \in Nat /\ PromptLen[r] + out[r] \in Nat
    BY Numbers DEF TotalLen
  <2>2. BlocksNeeded(TotalLen(r)) \in Nat /\ BlocksNeeded(PromptLen[r] + out[r]) \in Nat
    BY <2>1, BlocksEnough
  <2> QED
    BY <2>2 DEF Pledge, Excess
<1>2. Elems(running) \subseteq Reqs /\ IsFiniteSet(Elems(running))
  <2>1. running \in Seq(Reqs)
    BY DEF IInv, TypeOK
  <2> QED
    BY <2>1, ElemsOf, RequestsAssumption, FS_Subset
<1>3. \A r \in Elems(running) : f[r] \in Nat
  BY <1>1, <1>2
<1> HIDE DEF f
<1>4. SumFunctionOnSet(f, Elems(running)) \in Nat
  BY <1>2, <1>3, SumInNat
<1> QED
  BY <1>4 DEF Pledged, f

-----------------------------------------------------------------------------
(* Between steps *)

LEMMA AddRequestKeeps ==
    ASSUME IInv, NEW r \in Reqs, AddRequest(r)
    PROVE  IInv'
<1> USE DEF cacheVars, stepVars, beamVars
<1>1. TypeOK /\ PlanFits /\ ListsMatch /\ BlocksAccounted /\ TokensByStatus /\ CachedByStatus
      /\ LoopsInOrder /\ GainsInOrder
  BY DEF IInv
<1>2. waiting \in Seq(Reqs) /\ r \notin Elems(waiting) /\ IsInjective(waiting)
  BY <1>1 DEF TypeOK, ListsMatch, AddRequest
<1>3. /\ waiting' \in Seq(Reqs) /\ Elems(waiting') = Elems(waiting) \cup {r}
      /\ IsInjective(waiting')
  BY <1>2, AppendList DEF AddRequest
<1>4. /\ status' = [status EXCEPT ![r] = "WAITING"] /\ status[r] = "NEW" /\ phase = "idle"
      /\ UNCHANGED <<running, swapped, out, cacheVars, stepVars, beamVars, plan>>
  BY DEF AddRequest
<1>5. TypeOK'
  BY <1>1, <1>3, <1>4 DEF TypeOK
<1>6. ListsMatch'
  BY <1>1, <1>3, <1>4 DEF TypeOK, ListsMatch
<1>7. BlocksAccounted'
  BY <1>1, <1>4 DEF BlocksAccounted
<1>8. TokensByStatus'
  BY <1>1, <1>4 DEF TypeOK, TokensByStatus
<1>9. CachedByStatus'
  BY <1>1, <1>4 DEF TypeOK, CachedByStatus
<1>10. LoopsInOrder' /\ GainsInOrder'
  BY <1>4 DEF LoopsInOrder, GainsInOrder
<1> QED
  BY <1>1, <1>4, <1>5, <1>6, <1>7, <1>8, <1>9, <1>10 DEF IInv, PlanFits

LEMMA CancelKeeps ==
    ASSUME IInv, NEW r \in Reqs, Cancel(r)
    PROVE  IInv'
<1> USE DEF stepVars, beamVars
<1>1. TypeOK /\ PlanFits /\ ListsMatch /\ BlocksAccounted /\ TokensByStatus /\ CachedByStatus
      /\ LoopsInOrder /\ GainsInOrder
  BY DEF IInv
<1>2. waiting \in Seq(Reqs) /\ running \in Seq(Reqs) /\ swapped \in Seq(Reqs)
  BY <1>1 DEF TypeOK
<1>3. /\ waiting' \in Seq(Reqs) /\ Elems(waiting') = Elems(waiting) \ {r}
      /\ running' \in Seq(Reqs) /\ Elems(running') = Elems(running) \ {r}
      /\ swapped' \in Seq(Reqs) /\ Elems(swapped') = Elems(swapped) \ {r}
      /\ IsInjective(waiting') /\ IsInjective(running') /\ IsInjective(swapped')
  BY <1>1, <1>2, WithoutOne DEF Cancel, ListsMatch
<1>4. /\ status' = [status EXCEPT ![r] = "CANCELLED"] /\ phase = "idle"
      /\ num_free' = num_free + blocks[r] /\ blocks' = [blocks EXCEPT ![r] = 0]
      /\ ctx' = [ctx EXCEPT ![r] = 0] /\ swap_blocks' = [swap_blocks EXCEPT ![r] = 0]
      /\ swap_ctx' = [swap_ctx EXCEPT ![r] = 0]
      /\ UNCHANGED <<out, stepVars, beamVars, plan, leaked>>
  BY DEF Cancel
<1>5. \A x \in Reqs : ctx[x] \in Nat /\ blocks[x] \in Nat
  BY Numbers
<1>6. num_free' + SumFunctionOnSet(blocks', Reqs) + leaked' = NumBlocks
  <2>1. blocks \in [Reqs -> Nat] /\ blocks[r] \in Nat /\ num_free \in Nat /\ leaked \in Nat
    BY <1>1, Numbers DEF TypeOK
  <2>2. /\ SumFunctionOnSet(blocks', Reqs) = SumFunctionOnSet(blocks, Reqs) - blocks[r] + 0
        /\ SumFunctionOnSet(blocks, Reqs) \in Nat
    BY <1>4, <2>1, BooksAtOne
  <2>3. num_free + SumFunctionOnSet(blocks, Reqs) + leaked = NumBlocks
    BY <1>1 DEF BlocksAccounted
  <2> QED
    BY ONLY <1>4, <2>1, <2>2, <2>3
<1>7. num_free' \in 0 .. NumBlocks /\ blocks' \in [Reqs -> 0 .. NumBlocks]
  <2>1. blocks \in [Reqs -> Nat]
    BY <1>1 DEF TypeOK
  <2>2. blocks' \in [Reqs -> Nat]
    BY <1>4, <2>1
  <2>3. num_free \in Nat /\ leaked \in Nat /\ blocks[r] \in Nat
    BY Numbers
  <2>4. num_free' \in Nat /\ leaked' \in Nat
    BY <1>4, <2>3
  <2> QED
    BY ONLY <1>6, <2>2, <2>4, BooksBound
<1>8. TypeOK'
  <2>1. 0 \in 0 .. NumBlocks
    BY SizesAssumption
  <2> QED
    BY <1>1, <1>3, <1>4, <1>7, <2>1 DEF TypeOK
<1>9. ListsMatch'
  BY <1>1, <1>3, <1>4 DEF TypeOK, ListsMatch
<1>10. BlocksAccounted'
  <2>1. ASSUME NEW x \in Reqs
        PROVE  /\ blocks'[x] > 0 => x \in Elems(running')
               /\ swap_blocks'[x] > 0 <=> x \in Elems(swapped')
    <3>1. /\ blocks[x] > 0 => x \in Elems(running)
          /\ swap_blocks[x] > 0 <=> x \in Elems(swapped)
      BY <1>1 DEF BlocksAccounted
    <3>2. /\ blocks'[x] = IF x = r THEN 0 ELSE blocks[x]
          /\ swap_blocks'[x] = IF x = r THEN 0 ELSE swap_blocks[x]
      BY <1>1, <1>4 DEF TypeOK
    <3> QED
      BY <1>3, <3>1, <3>2
  <2> QED
    BY <1>6, <2>1 DEF BlocksAccounted
<1>11. TokensByStatus'
  BY <1>1, <1>4 DEF TypeOK, TokensByStatus
<1>12. CachedByStatus'
  <2>1. 0 <= 0 * BlockSize
    BY SizesAssumption
  <2> QED
    BY <1>1, <1>3, <1>4, <2>1 DEF TypeOK, CachedByStatus
<1>13. LoopsInOrder' /\ GainsInOrder'
  BY <1>4 DEF LoopsInOrder, GainsInOrder
<1> QED
  BY <1>1, <1>4, <1>8, <1>9, <1>10, <1>11, <1>12, <1>13 DEF IInv, PlanFits

\* A beam group that comes or goes concerns no request.
LEMMA BeamRequestsKeep ==
    ASSUME IInv, NEW g \in Groups, AddBeamRequest(g) \/ CancelBeam(g)
    PROVE  IInv'
<1> USE DEF queueVars, seqVars, cacheVars, stepVars, beamVars
<1>1. TypeOK /\ PlanFits /\ ListsMatch /\ BlocksAccounted /\ TokensByStatus /\ CachedByStatus
  BY DEF IInv
<1>2. beam_groups' \in Seq(Groups)
  <2>1. beam_groups \in Seq(Groups)
    BY <1>1 DEF TypeOK
  <2> QED
    BY <2>1, AppendList, WithoutOne DEF AddBeamRequest, CancelBeam
<1>3. UNCHANGED <<queueVars, seqVars, cacheVars, stepVars, beam_out, plan>> /\ phase = "idle"
  BY DEF AddBeamRequest, CancelBeam
<1>4. TypeOK'
  BY <1>1, <1>2, <1>3 DEF TypeOK
<1>5. ListsMatch' /\ BlocksAccounted' /\ TokensByStatus' /\ CachedByStatus'
  BY <1>1, <1>3 DEF ListsMatch, BlocksAccounted, TokensByStatus, CachedByStatus
<1>6. LoopsInOrder' /\ GainsInOrder'
  BY <1>3 DEF LoopsInOrder, GainsInOrder
<1> QED
  BY <1>1, <1>3, <1>4, <1>5, <1>6 DEF IInv, PlanFits

LEMMA BeginStepKeeps ==
    ASSUME IInv, BeginStep
    PROVE  IInv'
<1> USE DEF queueVars, seqVars, cacheVars, beamVars
<1>1. TypeOK /\ PlanFits /\ ListsMatch /\ BlocksAccounted /\ TokensByStatus /\ CachedByStatus
  BY DEF IInv
<1>2. /\ phase = "idle" /\ phase' = "swap_in" /\ gained' = [r \in Reqs |-> 0]
      /\ UNCHANGED <<queueVars, seqVars, cacheVars, todo, batch, budget, beamVars, plan>>
  BY DEF BeginStep
<1>3. TypeOK'
  BY <1>1, <1>2 DEF TypeOK
<1>4. ListsMatch' /\ BlocksAccounted' /\ TokensByStatus' /\ CachedByStatus'
  BY <1>1, <1>2 DEF ListsMatch, BlocksAccounted, TokensByStatus, CachedByStatus
<1>5. LoopsInOrder' /\ GainsInOrder'
  BY <1>2 DEF LoopsInOrder, GainsInOrder
<1> QED
  BY <1>1, <1>2, <1>3, <1>4, <1>5 DEF IInv, PlanFits

-----------------------------------------------------------------------------
(* The loops of a step that move no token *)

LEMMA SwapInHeadKeeps ==
    ASSUME IInv, SwapInHead
    PROVE  IInv'
<1> USE DEF beamVars
<1>1. TypeOK /\ PlanFits /\ ListsMatch /\ BlocksAccounted /\ TokensByStatus /\ CachedByStatus
      /\ LoopsInOrder /\ GainsInOrder
  BY DEF IInv
<1> DEFINE r == Head(swapped)
           need == BlocksNeeded(swap_ctx[r])
<1>2. swapped \in Seq(Reqs) /\ swapped # <<>> /\ IsInjective(swapped) /\ running \in Seq(Reqs)
      /\ IsInjective(running)
  BY <1>1 DEF TypeOK, ListsMatch, SwapInHead
<1>3. /\ r \in Reqs /\ r \in Elems(swapped) /\ Tail(swapped) \in Seq(Reqs)
      /\ IsInjective(Tail(swapped)) /\ Elems(Tail(swapped)) = Elems(swapped) \ {r}
  BY <1>2, HeadAndTail
<1>4. /\ phase = "swap_in" /\ need <= Headroom /\ swapped' = Tail(swapped)
      /\ swap_blocks' = [swap_blocks EXCEPT ![r] = 0] /\ swap_ctx' = [swap_ctx EXCEPT ![r] = 0]
      /\ num_free' = num_free - need
      /\ UNCHANGED <<waiting, out, todo, batch, budget, gained, beamVars, plan>>
      /\ \/ /\ swap_blocks[r] = need
            /\ blocks' = [blocks EXCEPT ![r] = need]
            /\ ctx' = [ctx EXCEPT ![r] = swap_ctx[r]]
            /\ status' = [status EXCEPT ![r] = "RUNNING"]
            /\ running' = Append(running, r)
            /\ UNCHANGED <<phase, leaked>>
         \/ /\ phase' = "dead" /\ leaked' = leaked + need
            /\ UNCHANGED <<blocks, ctx, status, running>>
  BY DEF SwapInHead
<1>5. Pledged \in Nat
  BY PledgedIsNat
<1> HIDE DEF r
<1>6. /\ status[r] = "SWAPPED" /\ r \notin Elems(running)
      /\ swap_ctx[r] >= PromptLen[r] /\ swap_ctx[r] <= swap_blocks[r] * BlockSize
      /\ out[r] >= 1 /\ out[r] < MaxNew[r]
  BY <1>1, <1>3 DEF ListsMatch, CachedByStatus, TokensByStatus
<1>7. blocks[r] = 0 /\ ctx[r] = 0
  BY <1>3, <1>6, OnlyRunningHold
<1>8. /\ swap_ctx[r] \in Nat /\ num_free \in Nat /\ leaked \in Nat
      /\ NumBlocks \in Nat
  BY <1>3, Numbers
<1>9. need \in Nat /\ swap_ctx[r] <= need * BlockSize
  BY <1>8, BlocksEnough
<1> HIDE DEF need
<1>10. num_free - need \in Nat
  BY <1>4, <1>5, <1>8, <1>9 DEF Headroom
<1>11. blocks \in [Reqs -> Nat] /\ ctx \in [Reqs -> Nat]
  BY <1>1 DEF TypeOK
<1>12. num_free + SumFunctionOnSet(blocks, Reqs) + leaked = NumBlocks
  BY <1>1 DEF BlocksAccounted
<1>13. SumFunctionOnSet(blocks, Reqs) \in Nat
  BY <1>3, <1>9, <1>11, BooksAtOne
<1>14. 0 \in 0 .. NumBlocks /\ 0 <= 0 * BlockSize
  BY SizesAssumption
<1>15. /\ swap_blocks' \in [Reqs -> 0 .. NumBlocks] /\ swap_ctx' \in [Reqs -> Nat]
       /\ swap_blocks'[r] = 0
       /\ \A x \in Reqs \ {r} : swap_blocks'[x] = swap_blocks[x] /\ swap_ctx'[x] = swap_ctx[x]
  BY <1>1, <1>3, <1>4, <1>14 DEF TypeOK
<1>16. CASE /\ swap_blocks[r] = need
            /\ blocks' = [blocks EXCEPT ![r] = need]
            /\ ctx' = [ctx EXCEPT ![r] = swap_ctx[r]]
            /\ status' = [status EXCEPT ![r] = "RUNNING"]
            /\ running' = Append(running, r)
            /\ UNCHANGED <<phase, leaked>>
  <2>1. /\ running' \in Seq(Reqs) /\ Elems(running') = Elems(running) \cup {r}
        /\ IsInjective(running')
    BY <1>2, <1>3, <1>6, <1>16, AppendList
  <2>2. SumFunctionOnSet(blocks', Reqs) = SumFunctionOnSet(blocks, Reqs) - blocks[r] + need
    BY <1>3, <1>9, <1>11, <1>16, BooksAtOne
  <2>3. num_free' + SumFunctionOnSet(blocks', Reqs) + leaked' = NumBlocks
    BY ONLY <1>4, <1>7, <1>8, <1>9, <1>12, <1>13, <1>16, <2>2
  <2>4. blocks' \in [Reqs -> Nat] /\ num_free' \in Nat /\ leaked' \in Nat
    BY <1>4, <1>8, <1>9, <1>10, <1>11, <1>16
  <2>5. num_free' \in 0 .. NumBlocks /\ blocks' \in [Reqs -> 0 .. NumBlocks]
    BY ONLY <2>3, <2>4, BooksBound
  <2>6. /\ ctx' \in [Reqs -> Nat] /\ ctx'[r] = swap_ctx[r] /\ blocks'[r] = need
        /\ \A x \in Reqs \ {r} : ctx'[x] = ctx[x] /\ blocks'[x] = blocks[x]
    BY <1>3, <1>8, <1>11, <1>16
  <2>7. /\ status' \in [Reqs -> {"NEW", "WAITING", "PREFILLING", "RUNNING", "SWAPPED", "FINISHED", "CANCELLED"}]
        /\ status'[r] = "RUNNING" /\ \A x \in Reqs \ {r} : status'[x] = status[x]
    BY <1>1, <1>3, <1>16 DEF TypeOK
  <2>8. TypeOK'
    BY <1>1, <1>3, <1>4, <1>15, <1>16, <2>1, <2>5, <2>6, <2>7 DEF TypeOK
  <2>9. ListsMatch'
    BY <1>1, <1>3, <1>4, <1>6, <1>16, <2>1, <2>7 DEF ListsMatch
  <2>10. BlocksAccounted'
    <3>1. ASSUME NEW x \in Reqs
          PROVE  /\ blocks'[x] > 0 => x \in Elems(running')
                 /\ swap_blocks'[x] > 0 <=> x \in Elems(swapped')
      BY <1>1, <1>3, <1>4, <1>15, <2>1, <2>6 DEF BlocksAccounted
    <3> QED
      BY <2>3, <3>1 DEF BlocksAccounted
  <2>11. TokensByStatus'
    BY <1>1, <1>4, <1>6, <2>7 DEF TokensByStatus
  <2>12. CachedByStatus'
    BY <1>1, <1>3, <1>4, <1>6, <1>9, <1>15, <2>6, <2>7 DEF CachedByStatus
  <2>13. LoopsInOrder'
    BY <1>4, <1>16 DEF LoopsInOrder
  <2>14. GainsInOrder'
    BY <1>1, <1>4, <1>16, <2>7 DEF GainsInOrder
  <2> QED
    BY <1>1, <1>4, <2>8, <2>9, <2>10, <2>11, <2>12, <2>13, <2>14 DEF IInv, PlanFits
<1>17. CASE phase' = "dead" /\ leaked' = leaked + need /\ UNCHANGED <<blocks, ctx, status, running>>
  <2>1. num_free' + SumFunctionOnSet(blocks', Reqs) + leaked' = NumBlocks
    BY ONLY <1>4, <1>8, <1>9, <1>12, <1>13, <1>17
  <2>2. blocks' \in [Reqs -> Nat] /\ num_free' \in Nat /\ leaked' \in Nat
    BY <1>4, <1>8, <1>9, <1>10, <1>11, <1>17
  <2>3. num_free' \in 0 .. NumBlocks /\ leaked' \in 0 .. NumBlocks
    BY ONLY <2>1, <2>2, BooksBound
  <2>4. TypeOK'
    BY <1>1, <1>3, <1>4, <1>15, <1>17, <2>3 DEF TypeOK
  <2>5. ListsMatch'
    BY <1>1, <1>3, <1>4, <1>17 DEF ListsMatch
  <2>6. BlocksAccounted'
    <3>1. ASSUME NEW x \in Reqs
          PROVE  /\ blocks'[x] > 0 => x \in Elems(running')
                 /\ swap_blocks'[x] > 0 <=> x \in Elems(swapped')
      BY <1>1, <1>3, <1>4, <1>15, <1>17 DEF BlocksAccounted
    <3> QED
      BY <2>1, <3>1 DEF BlocksAccounted
  <2>7. TokensByStatus' /\ CachedByStatus'
    BY <1>1, <1>3, <1>4, <1>15, <1>17 DEF TokensByStatus, CachedByStatus
  <2>8. LoopsInOrder' /\ GainsInOrder'
    BY <1>17 DEF LoopsInOrder, GainsInOrder
  <2> QED
    BY <1>1, <1>4, <2>4, <2>5, <2>6, <2>7, <2>8 DEF IInv, PlanFits
<1> QED
  BY <1>4, <1>16, <1>17

LEMMA EmptyList == Elems(<<>>) = {} /\ IsInjective(<<>>) /\ \A R : <<>> \in Seq(R)
BY DEF Elems, IsInjective

LEMMA SwapInDoneKeeps ==
    ASSUME IInv, SwapInDone
    PROVE  IInv'
<1> USE DEF queueVars, seqVars, cacheVars, beamVars
<1>1. TypeOK /\ PlanFits /\ ListsMatch /\ BlocksAccounted /\ TokensByStatus /\ CachedByStatus
      /\ LoopsInOrder /\ GainsInOrder
  BY DEF IInv
<1> DEFINE P == {r \in Reqs : status[r] = "PREFILLING"}
<1>2. /\ phase = "swap_in" /\ phase' = "prefill" /\ budget' = ChunkBudget
      /\ todo' = Only(running, P) \/ todo' = <<>>
      /\ UNCHANGED <<queueVars, seqVars, cacheVars, batch, gained, beamVars, plan>>
  BY DEF SwapInDone
<1>3. running \in Seq(Reqs) /\ IsInjective(running)
  BY <1>1 DEF TypeOK, ListsMatch
<1> HIDE DEF P
<1>4. todo' \in Seq(Reqs) /\ IsInjective(todo') /\ Elems(todo') \subseteq P
  <2>1. /\ Only(running, P) \in Seq(Reqs) /\ IsInjective(Only(running, P))
        /\ Elems(Only(running, P)) = Elems(running) \cap P
    BY ONLY <1>3, OnlyOf
  <2>2. CASE todo' = <<>>
    BY <2>2, EmptyList
  <2> QED
    BY <1>2, <2>1, <2>2
<1>5. todo' \in Seq(Reqs \cup Groups)
  BY <1>4, SeqWiden
<1>6. ChunkBudget \in 0 .. ChunkBudget
  BY SizesAssumption
<1>7. TypeOK'
  BY <1>1, <1>2, <1>5, <1>6 DEF TypeOK
<1>8. ListsMatch' /\ BlocksAccounted' /\ TokensByStatus' /\ CachedByStatus'
  BY <1>1, <1>2 DEF ListsMatch, BlocksAccounted, TokensByStatus, CachedByStatus
<1>9. LoopsInOrder'
  BY <1>2, <1>4 DEF LoopsInOrder, P
<1>10. GainsInOrder'
  BY <1>1, <1>2 DEF GainsInOrder, ListsMatch
<1> QED
  BY <1>1, <1>2, <1>7, <1>8, <1>9, <1>10 DEF IInv, PlanFits

LEMMA PrefillDoneKeeps ==
    ASSUME IInv, PrefillDone
    PROVE  IInv'
<1> USE DEF queueVars, seqVars, cacheVars, beamVars
<1>1. TypeOK /\ PlanFits /\ ListsMatch /\ BlocksAccounted /\ TokensByStatus /\ CachedByStatus
      /\ LoopsInOrder /\ GainsInOrder
  BY DEF IInv
<1>2. /\ phase = "prefill" /\ phase' = "draft" /\ todo' = Only(running, Unserved) /\ batch' = <<>>
      /\ UNCHANGED <<queueVars, seqVars, cacheVars, budget, gained, beamVars, plan>>
  BY DEF PrefillDone, Unserved
<1>3. running \in Seq(Reqs) /\ IsInjective(running)
  BY <1>1 DEF TypeOK, ListsMatch
<1>4. todo' \in Seq(Reqs) /\ IsInjective(todo') /\ Elems(todo') = Elems(running) \cap Unserved
  BY <1>2, <1>3, OnlyOf
<1>5. Unserved \subseteq Elems(running) /\ Unserved' = Unserved
  BY <1>1, <1>2 DEF ListsMatch, Unserved
<1>6. todo' \in Seq(Reqs \cup Groups)
  BY <1>4, SeqWiden
<1>7. TypeOK'
  BY <1>1, <1>2, <1>6, EmptyList DEF TypeOK
<1>8. ListsMatch' /\ BlocksAccounted' /\ TokensByStatus' /\ CachedByStatus'
  BY <1>1, <1>2 DEF ListsMatch, BlocksAccounted, TokensByStatus, CachedByStatus
<1>9. LoopsInOrder'
  BY <1>2, <1>4, <1>5, EmptyList DEF LoopsInOrder
<1>10. GainsInOrder'
  BY <1>1, <1>2 DEF GainsInOrder
<1> QED
  BY <1>1, <1>2, <1>7, <1>8, <1>9, <1>10 DEF IInv, PlanFits

LEMMA NoDraftKeeps ==
    ASSUME IInv, NoDraft
    PROVE  IInv'
<1> USE DEF queueVars, seqVars, cacheVars, beamVars
<1>1. TypeOK /\ PlanFits /\ ListsMatch /\ BlocksAccounted /\ TokensByStatus /\ CachedByStatus
      /\ LoopsInOrder /\ GainsInOrder
  BY DEF IInv
<1> DEFINE r == Head(todo)
<1>2. /\ phase = "draft" /\ todo # <<>> /\ batch' = Append(batch, r) /\ todo' = Tail(todo)
      /\ UNCHANGED <<queueVars, seqVars, cacheVars, phase, budget, gained, beamVars, plan>>
  BY DEF NoDraft
<1>3. /\ todo \in Seq(Reqs \cup Groups) /\ batch \in Seq(Reqs)
      /\ IsInjective(todo) /\ IsInjective(batch)
      /\ Elems(todo) \cap Elems(batch) = {} /\ Elems(todo) \cup Elems(batch) = Unserved
  BY <1>1, <1>2 DEF TypeOK, LoopsInOrder
<1>4. /\ r \in Elems(todo) /\ Tail(todo) \in Seq(Reqs \cup Groups)
      /\ IsInjective(Tail(todo)) /\ Elems(Tail(todo)) = Elems(todo) \ {r}
  BY <1>2, <1>3, HeadAndTail
<1> HIDE DEF r
<1>5. r \in Reqs /\ r \notin Elems(batch)
  BY <1>3, <1>4 DEF Unserved
<1>6. /\ batch' \in Seq(Reqs) /\ IsInjective(batch') /\ Elems(batch') = Elems(batch) \cup {r}
  BY <1>2, <1>3, <1>5, AppendList
<1>7. TypeOK'
  BY <1>1, <1>2, <1>4, <1>6 DEF TypeOK
<1>8. ListsMatch' /\ BlocksAccounted' /\ TokensByStatus' /\ CachedByStatus'
  BY <1>1, <1>2 DEF ListsMatch, BlocksAccounted, TokensByStatus, CachedByStatus
<1>9. Unserved' = Unserved
  BY <1>2 DEF Unserved
<1>10. LoopsInOrder'
  <2>1. Elems(todo') \cap Elems(batch') = {} /\ Elems(todo') \cup Elems(batch') = Unserved
    BY <1>2, <1>3, <1>4, <1>6
  <2> QED
    BY <1>2, <1>4, <1>6, <1>9, <2>1 DEF LoopsInOrder
<1>11. GainsInOrder'
  BY <1>1, <1>2 DEF GainsInOrder
<1> QED
  BY <1>1, <1>2, <1>7, <1>8, <1>10, <1>11 DEF IInv, PlanFits

LEMMA DraftsDoneKeeps ==
    ASSUME IInv, DraftsDone
    PROVE  IInv'
<1> USE DEF queueVars, seqVars, cacheVars, beamVars
<1>1. TypeOK /\ PlanFits /\ ListsMatch /\ BlocksAccounted /\ TokensByStatus /\ CachedByStatus
      /\ LoopsInOrder /\ GainsInOrder
  BY DEF IInv
<1>2. /\ phase = "draft" /\ todo = <<>> /\ phase' = IF batch = <<>> THEN "finish" ELSE "decode"
      /\ UNCHANGED <<queueVars, seqVars, cacheVars, todo, batch, budget, gained, beamVars, plan>>
  BY DEF DraftsDone
<1>3. IsInjective(batch) /\ Elems(batch) = Unserved /\ Unserved' = Unserved
  BY <1>1, <1>2, EmptyList DEF LoopsInOrder, Unserved
<1>4. TypeOK'
  BY <1>1, <1>2 DEF TypeOK
<1>5. ListsMatch' /\ BlocksAccounted' /\ TokensByStatus' /\ CachedByStatus'
  BY <1>1, <1>2 DEF ListsMatch, BlocksAccounted, TokensByStatus, CachedByStatus
<1>6. LoopsInOrder'
  BY <1>2, <1>3, EmptyList DEF LoopsInOrder
<1>7. GainsInOrder'
  BY <1>1, <1>2 DEF GainsInOrder
<1> QED
  BY <1>1, <1>2, <1>4, <1>5, <1>6, <1>7 DEF IInv, PlanFits

LEMMA StepBeamGroupKeeps ==
    ASSUME IInv, StepBeamGroup
    PROVE  IInv'
<1> USE DEF queueVars, seqVars, swapVars, beamVars
<1>1. TypeOK /\ PlanFits /\ ListsMatch /\ BlocksAccounted /\ TokensByStatus /\ CachedByStatus
      /\ LoopsInOrder /\ GainsInOrder
  BY DEF IInv
<1> DEFINE g == Head(todo)
<1>2. /\ phase = "beam"
      /\ \/ /\ phase' = "dead" /\ leaked' = leaked + num_free /\ num_free' = 0
            /\ UNCHANGED <<beamVars, todo>>
         \/ /\ beam_out' = [beam_out EXCEPT ![g] = @ + 1]
            /\ beam_groups' \in {Without(beam_groups, g), beam_groups}
            /\ todo' = Tail(todo)
            /\ phase' = IF Len(todo) = 1 THEN "idle" ELSE "beam"
            /\ UNCHANGED <<num_free, leaked>>
      /\ UNCHANGED <<queueVars, seqVars, blocks, ctx, swapVars, batch, budget, gained, plan>>
  BY DEF StepBeamGroup
<1>3. /\ todo \in Seq(Reqs \cup Groups) /\ todo # <<>> /\ Elems(todo) \subseteq Groups
      /\ beam_groups \in Seq(Groups) /\ beam_out \in [Groups -> Nat]
  BY <1>1, <1>2 DEF TypeOK, LoopsInOrder
<1>4. /\ g \in Groups /\ Tail(todo) \in Seq(Reqs \cup Groups)
      /\ Elems(Tail(todo)) \subseteq Groups
  BY <1>3, HeadAndTail
<1>5. Len(todo) # 1 => Tail(todo) # <<>>
  <2>1. Len(todo) \in Nat /\ Len(todo) >= 1 /\ Len(Tail(todo)) = Len(todo) - 1
    BY <1>3
  <2>2. Len(<<>>) = 0
    OBVIOUS
  <2>3. Tail(todo) = <<>> => Len(Tail(todo)) = 0
    BY <2>2, Zenon
  <2> QED
    BY <2>1, <2>3
<1> HIDE DEF g
<1>6. /\ num_free \in Nat /\ leaked \in Nat /\ blocks \in [Reqs -> Nat]
      /\ num_free + SumFunctionOnSet(blocks, Reqs) + leaked = NumBlocks
  BY <1>1 DEF TypeOK, BlocksAccounted
<1>7. SumFunctionOnSet(blocks, Reqs) \in Nat
  BY <1>6, SumInNat, RequestsAssumption
<1>8. num_free' \in 0 .. NumBlocks /\ leaked' \in 0 .. NumBlocks
      /\ num_free' + SumFunctionOnSet(blocks', Reqs) + leaked' = NumBlocks
  <2>1. /\ num_free' \in Nat /\ leaked' \in Nat /\ blocks' = blocks
        /\ num_free' + SumFunctionOnSet(blocks, Reqs) + leaked' = NumBlocks
    BY <1>2, <1>6, <1>7
  <2> QED
    BY <1>6, <2>1, BooksBound
<1>9. TypeOK'
  <2>1. Without(beam_groups, g) \in Seq(Groups)
    BY <1>3, WithoutOne
  <2>2. beam_groups' \in Seq(Groups)
    BY <1>2, <1>3, <2>1, Zenon
  <2>3. beam_out[g] + 1 \in Nat
    BY <1>3, <1>4
  <2>4. beam_out' \in [Groups -> Nat]
    BY <1>2, <1>3, <1>4, <2>3
  <2>5. todo' \in Seq(Reqs \cup Groups)
    BY <1>2, <1>3, <1>4
  <2> QED
    BY <1>1, <1>2, <1>8, <2>2, <2>4, <2>5 DEF TypeOK
<1>10. BlocksAccounted'
  BY <1>1, <1>2, <1>8 DEF BlocksAccounted
<1>11. ListsMatch' /\ TokensByStatus' /\ CachedByStatus'
  BY <1>1, <1>2 DEF ListsMatch, TokensByStatus, CachedByStatus
<1>12. LoopsInOrder' /\ GainsInOrder'
  BY <1>2, <1>4, <1>5 DEF LoopsInOrder, GainsInOrder
<1> QED
  BY <1>1, <1>2, <1>9, <1>10, <1>11, <1>12 DEF IInv, PlanFits

-----------------------------------------------------------------------------
(* Prefill *)

LEMMA AfterTokens ==
    ASSUME NEW r \in Reqs, NEW n \in Nat, NEW st \in StatusAfter(r, n)
    PROVE  st \in {"RUNNING", "FINISHED"} /\ (st = "RUNNING" => n < MaxNew[r])
BY RequestsAssumption DEF StatusAfter

\* reserve() takes free blocks into one table.
LEMMA GrowTable ==
    ASSUME IInv, NEW r \in Reqs, NEW need \in Nat, need <= num_free,
           num_free' = num_free - need, leaked' = leaked,
           blocks' = [blocks EXCEPT ![r] = @ + need]
    PROVE  /\ num_free' + SumFunctionOnSet(blocks', Reqs) + leaked' = NumBlocks
           /\ num_free' \in 0 .. NumBlocks /\ leaked' \in 0 .. NumBlocks
           /\ blocks' \in [Reqs -> 0 .. NumBlocks]
           /\ blocks'[r] = blocks[r] + need /\ blocks'[r] \in Nat
           /\ \A x \in Reqs \ {r} : blocks'[x] = blocks[x]
<1>1. blocks \in [Reqs -> Nat] /\ num_free + SumFunctionOnSet(blocks, Reqs) + leaked = NumBlocks
  BY DEF IInv, TypeOK, BlocksAccounted
<1>2. num_free \in Nat /\ leaked \in Nat /\ blocks[r] \in Nat /\ blocks[r] + need \in Nat
  BY Numbers
<1>3. /\ blocks' \in [Reqs -> Nat] /\ blocks'[r] = blocks[r] + need
      /\ \A x \in Reqs \ {r} : blocks'[x] = blocks[x]
  BY <1>1, <1>2
<1>4. /\ SumFunctionOnSet(blocks', Reqs) = SumFunctionOnSet(blocks, Reqs) - blocks[r] + (blocks[r] + need)
      /\ SumFunctionOnSet(blocks, Reqs) \in Nat
  <2>1. blocks' = [blocks EXCEPT ![r] = blocks[r] + need]
    OBVIOUS
  <2>2. blocks \in [Reqs -> Nat] /\ blocks[r] + need \in Nat /\ r \in Reqs
    BY <1>1, <1>2
  <2>3. /\ SumFunctionOnSet([blocks EXCEPT ![r] = blocks[r] + need], Reqs)
              = SumFunctionOnSet(blocks, Reqs) - blocks[r] + (blocks[r] + need)
        /\ SumFunctionOnSet(blocks, Reqs) \in Nat
    BY ONLY <2>2, BooksAtOne
  <2> QED
    BY <2>1, <2>3, Zenon
<1>5. /\ num_free' + SumFunctionOnSet(blocks', Reqs) + leaked' = NumBlocks
      /\ num_free' \in Nat /\ leaked' \in Nat
  BY <1>1, <1>2, <1>4
<1>6. num_free' \in 0 .. NumBlocks /\ leaked' \in 0 .. NumBlocks /\ blocks' \in [Reqs -> 0 .. NumBlocks]
  BY ONLY <1>3, <1>5, BooksBound
<1> QED
  BY <1>2, <1>3, <1>5, <1>6

\* A prompt, or a chunk of it, goes through the model, whatever list the
\* request came from.
LEMMA PrefillTokensKeeps ==
    ASSUME IInv, phase = "prefill",
           NEW r \in Reqs, status[r] \in {"WAITING", "PREFILLING"},
           NEW n \in Nat, n >= 1, ctx[r] + n <= PromptLen[r], PrefillTokens(r, n),
           waiting' \in Seq(Reqs), IsInjective(waiting'), Elems(waiting') = Elems(waiting) \ {r},
           running' \in Seq(Reqs), IsInjective(running'), Elems(running') = Elems(running) \cup {r},
           todo' \in Seq(Reqs \cup Groups), IsInjective(todo'),
           Elems(todo') \subseteq {x \in Reqs : status[x] = "PREFILLING"} \ {r},
           budget' \in 0 .. ChunkBudget,
           UNCHANGED <<swapped, swapVars, leaked, batch, beamVars, plan>>
    PROVE  IInv'
<1> USE DEF swapVars, beamVars
<1>1. TypeOK /\ PlanFits /\ ListsMatch /\ BlocksAccounted /\ TokensByStatus /\ CachedByStatus
      /\ LoopsInOrder /\ GainsInOrder
  BY DEF IInv
<1> DEFINE need == Missing(r, n)
<1>2. /\ ctx[r] \in Nat /\ blocks[r] \in Nat /\ out[r] \in Nat /\ gained[r] \in Nat
      /\ PromptLen[r] \in Nat /\ MaxNew[r] \in Nat /\ MaxNew[r] >= 1
      /\ num_free \in Nat
  BY Numbers
<1>3. need \in Nat /\ ctx[r] + n <= (blocks[r] + need) * BlockSize
  BY <1>2, MissingCovers
<1> HIDE DEF need
<1>4. out[r] = 0 /\ gained[r] = 0 /\ r \notin Elems(swapped) /\ ctx[r] <= blocks[r] * BlockSize
  BY <1>1 DEF TokensByStatus, GainsInOrder, ListsMatch, CachedByStatus
<1>5. CASE need > num_free
  <2>1. /\ phase' = "dead" /\ blocks' = [blocks EXCEPT ![r] = @ + num_free]
        /\ num_free' = 0 /\ status' = [status EXCEPT ![r] = "PREFILLING"]
        /\ UNCHANGED <<ctx, out, gained>>
    BY <1>5 DEF PrefillTokens, need
  <2>2. num_free' = num_free - num_free /\ num_free <= num_free /\ leaked' = leaked
    BY <1>2, <2>1
  <2>3. /\ num_free' + SumFunctionOnSet(blocks', Reqs) + leaked' = NumBlocks
        /\ num_free' \in 0 .. NumBlocks /\ leaked' \in 0 .. NumBlocks
        /\ blocks' \in [Reqs -> 0 .. NumBlocks]
        /\ blocks'[r] = blocks[r] + num_free
        /\ \A x \in Reqs \ {r} : blocks'[x] = blocks[x]
    BY <1>2, <2>1, <2>2, GrowTable
  <2>4. ctx[r] <= blocks'[r] * BlockSize
    <3>1. blocks'[r] \in Nat /\ blocks[r] <= blocks'[r]
      BY <1>2, <2>3
    <3> QED
      BY ONLY <1>2, <1>4, <3>1, MoreCovers
  <2>5. /\ status' \in [Reqs -> {"NEW", "WAITING", "PREFILLING", "RUNNING", "SWAPPED", "FINISHED", "CANCELLED"}]
        /\ status'[r] = "PREFILLING" /\ \A x \in Reqs \ {r} : status'[x] = status[x]
    BY <1>1, <2>1 DEF TypeOK
  <2>6. TypeOK'
    BY <1>1, <2>1, <2>3, <2>5 DEF TypeOK
  <2>7. ListsMatch'
    BY <1>1, <1>4, <2>1, <2>5 DEF ListsMatch
  <2>8. BlocksAccounted'
    <3>1. \A x \in Reqs : /\ blocks'[x] > 0 => x \in Elems(running')
                          /\ swap_blocks'[x] > 0 <=> x \in Elems(swapped')
      BY <1>1, <2>3 DEF BlocksAccounted
    <3> QED
      BY <2>3, <3>1 DEF BlocksAccounted
  <2>9. TokensByStatus'
    BY <1>1, <1>4, <2>1, <2>5 DEF TokensByStatus
  <2>10. CachedByStatus'
    <3>1. ctx[r] < PromptLen[r]
      BY <1>2
    <3> QED
      BY <1>1, <1>4, <2>1, <2>3, <2>4, <2>5, <3>1 DEF CachedByStatus
  <2>11. LoopsInOrder' /\ GainsInOrder'
    BY <2>1 DEF LoopsInOrder, GainsInOrder
  <2> QED
    BY <1>1, <2>6, <2>7, <2>8, <2>9, <2>10, <2>11 DEF IInv, PlanFits
<1>6. CASE ~(need > num_free)
  <2>1. /\ num_free' = num_free - need /\ blocks' = [blocks EXCEPT ![r] = @ + need]
        /\ ctx' = [ctx EXCEPT ![r] = @ + n] /\ UNCHANGED phase
        /\ \/ /\ ctx[r] + n = PromptLen[r]
              /\ out' = [out EXCEPT ![r] = @ + 1] /\ gained' = [gained EXCEPT ![r] = @ + 1]
              /\ \E st \in StatusAfter(r, out[r] + 1) : status' = [status EXCEPT ![r] = st]
           \/ /\ ctx[r] + n # PromptLen[r]
              /\ status' = [status EXCEPT ![r] = "PREFILLING"]
              /\ UNCHANGED <<out, gained>>
    BY <1>6 DEF PrefillTokens, need
  <2>2. /\ num_free' + SumFunctionOnSet(blocks', Reqs) + leaked' = NumBlocks
        /\ num_free' \in 0 .. NumBlocks /\ leaked' \in 0 .. NumBlocks
        /\ blocks' \in [Reqs -> 0 .. NumBlocks]
        /\ blocks'[r] = blocks[r] + need
        /\ \A x \in Reqs \ {r} : blocks'[x] = blocks[x]
    <3>1. need <= num_free
      BY <1>2, <1>3, <1>6
    <3> QED
      BY <1>3, <2>1, <3>1, GrowTable
  <2>3. /\ ctx' \in [Reqs -> Nat] /\ ctx'[r] = ctx[r] + n
        /\ \A x \in Reqs \ {r} : ctx'[x] = ctx[x]
    <3>1. ctx \in [Reqs -> Nat]
      BY <1>1 DEF TypeOK
    <3>2. ctx[r] + n \in Nat
      BY <1>2
    <3> QED
      BY <2>1, <3>1, <3>2
  <2>4. \E st \in {"PREFILLING", "RUNNING", "FINISHED"}, k \in {0, 1} :
           /\ status' = [status EXCEPT ![r] = st]
           /\ out' = [out EXCEPT ![r] = k] /\ gained' = [gained EXCEPT ![r] = k]
           /\ st = "PREFILLING" => k = 0 /\ ctx'[r] < PromptLen[r]
           /\ st # "PREFILLING" => k = 1 /\ ctx'[r] = PromptLen[r]
           /\ st = "RUNNING" => 1 < MaxNew[r]
    <3>1. CASE ctx[r] + n = PromptLen[r]
      <4>1. PICK st \in StatusAfter(r, 1) : status' = [status EXCEPT ![r] = st]
        BY <1>4, <2>1, <3>1
      <4>2. st \in {"RUNNING", "FINISHED"} /\ (st = "RUNNING" => 1 < MaxNew[r])
        BY <4>1, AfterTokens
      <4>3. out' = [out EXCEPT ![r] = 1] /\ gained' = [gained EXCEPT ![r] = 1]
        BY <1>4, <2>1, <3>1
      <4> QED
        BY <2>3, <3>1, <4>1, <4>2, <4>3
    <3>2. CASE ctx[r] + n # PromptLen[r]
      <4>1. status' = [status EXCEPT ![r] = "PREFILLING"] /\ out' = out /\ gained' = gained
        BY <2>1, <3>2
      <4>2. out' = [out EXCEPT ![r] = 0] /\ gained' = [gained EXCEPT ![r] = 0]
        BY <1>1, <1>4, <4>1 DEF TypeOK
      <4>3. ctx'[r] < PromptLen[r]
        BY <1>2, <2>3, <3>2
      <4> QED
        BY <4>1, <4>2, <4>3
    <3> QED
      BY <3>1, <3>2
  <2>5. PICK st \in {"PREFILLING", "RUNNING", "FINISHED"}, k \in {0, 1} :
           /\ status' = [status EXCEPT ![r] = st]
           /\ out' = [out EXCEPT ![r] = k] /\ gained' = [gained EXCEPT ![r] = k]
           /\ st = "PREFILLING" => k = 0 /\ ctx'[r] < PromptLen[r]
           /\ st # "PREFILLING" => k = 1 /\ ctx'[r] = PromptLen[r]
           /\ st = "RUNNING" => 1 < MaxNew[r]
    BY <2>4
  <2>6. /\ status' \in [Reqs -> {"NEW", "WAITING", "PREFILLING", "RUNNING", "SWAPPED", "FINISHED", "CANCELLED"}]
        /\ out' \in [Reqs -> Nat] /\ gained' \in [Reqs -> Nat]
        /\ status'[r] = st /\ out'[r] = k /\ gained'[r] = k
        /\ \A x \in Reqs \ {r} : status'[x] = status[x] /\ out'[x] = out[x] /\ gained'[x] = gained[x]
    <3>1. k \in Nat
      BY <2>5
    <3> QED
      BY <1>1, <2>5, <3>1 DEF TypeOK
  <2>7. TypeOK'
    BY <1>1, <2>1, <2>2, <2>3, <2>6 DEF TypeOK
  <2>8. ListsMatch'
    BY <1>1, <1>4, <2>1, <2>5, <2>6 DEF ListsMatch
  <2>9. BlocksAccounted'
    <3>1. \A x \in Reqs : /\ blocks'[x] > 0 => x \in Elems(running')
                          /\ swap_blocks'[x] > 0 <=> x \in Elems(swapped')
      BY <1>1, <2>2 DEF BlocksAccounted
    <3> QED
      BY <2>2, <3>1 DEF BlocksAccounted
  <2>10. TokensByStatus'
    BY <1>1, <1>2, <2>5, <2>6 DEF TokensByStatus
  <2>11. CachedByStatus'
    <3>1. ctx'[r] <= blocks'[r] * BlockSize
      BY <1>3, <2>2, <2>3
    <3>2. PromptLen[r] >= PromptLen[r]
      BY <1>2
    <3> QED
      BY <1>1, <1>4, <2>2, <2>3, <2>5, <2>6, <3>1, <3>2 DEF CachedByStatus
  <2>12. LoopsInOrder'
    BY <2>1, <2>6 DEF LoopsInOrder
  <2>13. GainsInOrder'
    BY <1>1, <2>1, <2>5, <2>6 DEF GainsInOrder
  <2> QED
    BY <1>1, <2>7, <2>8, <2>9, <2>10, <2>11, <2>12, <2>13 DEF IInv, PlanFits
<1> QED
  BY <1>5, <1>6

\* The head of the line moves to the running list.
LEMMA AdmissionMoves ==
    ASSUME IInv, phase = "prefill", waiting # <<>>,
           waiting' = Tail(waiting), running' = Append(running, Head(waiting))
    PROVE  LET r == Head(waiting) IN
           /\ r \in Reqs /\ status[r] = "WAITING" /\ ctx[r] = 0
           /\ waiting' \in Seq(Reqs) /\ IsInjective(waiting')
           /\ Elems(waiting') = Elems(waiting) \ {r}
           /\ running' \in Seq(Reqs) /\ IsInjective(running')
           /\ Elems(running') = Elems(running) \cup {r}
           /\ todo \in Seq(Reqs \cup Groups) /\ IsInjective(todo)
           /\ Elems(todo) \subseteq {x \in Reqs : status[x] = "PREFILLING"} \ {r}
<1> DEFINE r == Head(waiting)
<1>1. TypeOK /\ ListsMatch /\ LoopsInOrder
  BY DEF IInv
<1>2. /\ waiting \in Seq(Reqs) /\ IsInjective(waiting)
      /\ running \in Seq(Reqs) /\ IsInjective(running)
  BY <1>1 DEF TypeOK, ListsMatch
<1>3. /\ r \in Reqs /\ r \in Elems(waiting) /\ Tail(waiting) \in Seq(Reqs)
      /\ IsInjective(Tail(waiting)) /\ Elems(Tail(waiting)) = Elems(waiting) \ {r}
  BY <1>2, HeadAndTail
<1>4. waiting' = Tail(waiting) /\ running' = Append(running, r)
  OBVIOUS
<1> HIDE DEF r
<1>5. status[r] = "WAITING" /\ r \notin Elems(running)
  BY <1>1, <1>3 DEF ListsMatch
<1>6. /\ running' \in Seq(Reqs) /\ IsInjective(running')
      /\ Elems(running') = Elems(running) \cup {r}
  BY <1>2, <1>3, <1>4, <1>5, AppendList
<1>7. ctx[r] = 0
  BY <1>3, <1>5, OnlyRunningHold
<1>8. /\ todo \in Seq(Reqs \cup Groups) /\ IsInjective(todo)
      /\ Elems(todo) \subseteq {x \in Reqs : status[x] = "PREFILLING"} \ {r}
  BY <1>1, <1>5 DEF TypeOK, LoopsInOrder
<1> QED
  BY <1>3, <1>4, <1>5, <1>6, <1>7, <1>8 DEF r

LEMMA AdmitHeadKeeps ==
    ASSUME IInv, AdmitHead
    PROVE  IInv'
<1> DEFINE r == Head(waiting)
<1>1. /\ phase = "prefill" /\ waiting # <<>> /\ PrefillTokens(r, PromptLen[r])
      /\ waiting' = Tail(waiting) /\ running' = Append(running, r)
      /\ UNCHANGED <<swapped, swapVars, leaked, todo, batch, budget, beamVars, plan>>
  BY DEF AdmitHead, Admissible
<1>2. /\ r \in Reqs /\ status[r] = "WAITING" /\ ctx[r] = 0
      /\ waiting' \in Seq(Reqs) /\ IsInjective(waiting')
      /\ Elems(waiting') = Elems(waiting) \ {r}
      /\ running' \in Seq(Reqs) /\ IsInjective(running')
      /\ Elems(running') = Elems(running) \cup {r}
      /\ todo \in Seq(Reqs \cup Groups) /\ IsInjective(todo)
      /\ Elems(todo) \subseteq {x \in Reqs : status[x] = "PREFILLING"} \ {r}
  BY <1>1, AdmissionMoves
<1> HIDE DEF r
<1>3. PromptLen[r] \in Nat /\ PromptLen[r] >= 1 /\ ctx[r] + PromptLen[r] <= PromptLen[r]
  BY <1>2, Numbers
<1>4. /\ todo' \in Seq(Reqs \cup Groups) /\ IsInjective(todo')
      /\ Elems(todo') \subseteq {x \in Reqs : status[x] = "PREFILLING"} \ {r}
      /\ budget' \in 0 .. ChunkBudget /\ status[r] \in {"WAITING", "PREFILLING"}
  BY <1>1, <1>2 DEF IInv, TypeOK
<1>5. UNCHANGED <<swapped, swapVars, leaked, batch, beamVars, plan>>
  BY <1>1
<1>6. IInv
  OBVIOUS
<1> QED
  BY ONLY <1>1, <1>2, <1>3, <1>4, <1>5, <1>6, PrefillTokensKeeps

LEMMA AdmitChunkKeeps ==
    ASSUME IInv, AdmitChunk
    PROVE  IInv'
<1> DEFINE r == Head(waiting)
           n == Lesser(budget, PromptLen[r])
<1>1. /\ phase = "prefill" /\ waiting # <<>> /\ PrefillTokens(r, n) /\ budget > 0
      /\ waiting' = Tail(waiting) /\ running' = Append(running, r) /\ budget' = budget - n
      /\ UNCHANGED <<swapped, swapVars, leaked, todo, batch, beamVars, plan>>
  BY DEF AdmitChunk, Admissible
<1>2. /\ r \in Reqs /\ status[r] = "WAITING" /\ ctx[r] = 0
      /\ waiting' \in Seq(Reqs) /\ IsInjective(waiting')
      /\ Elems(waiting') = Elems(waiting) \ {r}
      /\ running' \in Seq(Reqs) /\ IsInjective(running')
      /\ Elems(running') = Elems(running) \cup {r}
      /\ todo \in Seq(Reqs \cup Groups) /\ IsInjective(todo)
      /\ Elems(todo) \subseteq {x \in Reqs : status[x] = "PREFILLING"} \ {r}
  BY <1>1, AdmissionMoves
<1> HIDE DEF r
<1>3. budget \in 0 .. ChunkBudget /\ ChunkBudget \in Nat /\ PromptLen[r] \in Nat /\ PromptLen[r] >= 1
  BY <1>2, Numbers DEF IInv, TypeOK
<1>4. n \in Nat /\ n >= 1 /\ ctx[r] + n <= PromptLen[r] /\ budget - n \in 0 .. ChunkBudget
  BY <1>1, <1>2, <1>3 DEF Lesser
<1> HIDE DEF n
<1>5. /\ todo' \in Seq(Reqs \cup Groups) /\ IsInjective(todo')
      /\ Elems(todo') \subseteq {x \in Reqs : status[x] = "PREFILLING"} \ {r}
      /\ budget' \in 0 .. ChunkBudget /\ status[r] \in {"WAITING", "PREFILLING"}
  BY <1>1, <1>2, <1>4
<1>6. UNCHANGED <<swapped, swapVars, leaked, batch, beamVars, plan>> /\ IInv
  BY <1>1
<1> QED
  BY ONLY <1>1, <1>2, <1>4, <1>5, <1>6, PrefillTokensKeeps

LEMMA ContinueChunkKeeps ==
    ASSUME IInv, ContinueChunk
    PROVE  IInv'
<1> DEFINE r == Head(todo)
           n == Lesser(budget, PromptLen[r] - ctx[r])
<1>1. /\ phase = "prefill" /\ todo # <<>> /\ budget > 0 /\ PrefillTokens(r, n)
      /\ todo' = Tail(todo) /\ budget' = budget - n
      /\ UNCHANGED <<queueVars, swapVars, leaked, batch, beamVars, plan>>
  BY DEF ContinueChunk
<1>2. /\ todo \in Seq(Reqs \cup Groups) /\ IsInjective(todo)
      /\ Elems(todo) \subseteq {x \in Reqs : status[x] = "PREFILLING"}
  BY <1>1 DEF IInv, TypeOK, LoopsInOrder
<1>3. /\ r \in Elems(todo) /\ Tail(todo) \in Seq(Reqs \cup Groups)
      /\ IsInjective(Tail(todo)) /\ Elems(Tail(todo)) = Elems(todo) \ {r}
  BY <1>1, <1>2, HeadAndTail
<1> HIDE DEF r
<1>4. r \in Reqs /\ status[r] = "PREFILLING" /\ status[r] \in {"WAITING", "PREFILLING"}
  BY <1>2, <1>3
<1>5. ctx[r] < PromptLen[r] /\ r \in Elems(running) /\ r \notin Elems(waiting)
  BY <1>4 DEF IInv, CachedByStatus, ListsMatch
<1>6. /\ budget \in 0 .. ChunkBudget /\ ChunkBudget \in Nat
      /\ PromptLen[r] \in Nat /\ ctx[r] \in Nat
  BY <1>4, Numbers DEF IInv, TypeOK
<1>7. n \in Nat /\ n >= 1 /\ ctx[r] + n <= PromptLen[r] /\ budget - n \in 0 .. ChunkBudget
  BY <1>1, <1>5, <1>6 DEF Lesser
<1> HIDE DEF n
<1>8. /\ waiting' \in Seq(Reqs) /\ IsInjective(waiting')
      /\ Elems(waiting') = Elems(waiting) \ {r}
      /\ running' \in Seq(Reqs) /\ IsInjective(running')
      /\ Elems(running') = Elems(running) \cup {r}
  <2>1. /\ waiting \in Seq(Reqs) /\ IsInjective(waiting)
        /\ running \in Seq(Reqs) /\ IsInjective(running)
    BY DEF IInv, TypeOK, ListsMatch
  <2>2. waiting' = waiting /\ running' = running
    BY <1>1 DEF queueVars
  <2>3. Elems(waiting) = Elems(waiting) \ {r} /\ Elems(running) = Elems(running) \cup {r}
    BY <1>5
  <2> QED
    BY <2>1, <2>2, <2>3
<1>9. /\ todo' \in Seq(Reqs \cup Groups) /\ IsInjective(todo')
      /\ Elems(todo') \subseteq {x \in Reqs : status[x] = "PREFILLING"} \ {r}
      /\ budget' \in 0 .. ChunkBudget
  BY <1>1, <1>2, <1>3, <1>7
<1>10. UNCHANGED <<swapped, swapVars, leaked, batch, beamVars, plan>> /\ IInv
  BY <1>1 DEF queueVars
<1> QED
  BY ONLY <1>1, <1>4, <1>7, <1>8, <1>9, <1>10, PrefillTokensKeeps

-----------------------------------------------------------------------------
(* The end of a step *)

LEMMA FinishSequencesKeeps ==
    ASSUME IInv, FinishSequences
    PROVE  IInv'
<1> USE DEF seqVars, swapVars, beamVars
<1>1. TypeOK /\ PlanFits /\ ListsMatch /\ BlocksAccounted /\ TokensByStatus /\ CachedByStatus
      /\ LoopsInOrder /\ GainsInOrder
  BY DEF IInv
<1> DEFINE done == {r \in Elems(running) : status[r] = "FINISHED"}
           kept == {r \in Reqs : status[r] # "FINISHED"}
<1>2. /\ phase = "finish" /\ running' = Only(running, kept)
      /\ num_free' = num_free + SumFunctionOnSet(blocks, done)
      /\ blocks' = [r \in Reqs |-> IF r \in done THEN 0 ELSE blocks[r]]
      /\ ctx' = [r \in Reqs |-> IF r \in done THEN 0 ELSE ctx[r]]
      /\ batch' = <<>> /\ todo' = beam_groups
      /\ phase' = IF beam_groups = <<>> THEN "idle" ELSE "beam"
      /\ UNCHANGED <<waiting, swapped, seqVars, swapVars, leaked, budget, gained, beamVars, plan>>
  BY DEF FinishSequences, Released
<1>3. /\ running \in Seq(Reqs) /\ IsInjective(running) /\ beam_groups \in Seq(Groups)
      /\ blocks \in [Reqs -> Nat] /\ ctx \in [Reqs -> Nat]
      /\ num_free \in Nat /\ leaked \in Nat
      /\ num_free + SumFunctionOnSet(blocks, Reqs) + leaked = NumBlocks
  BY <1>1 DEF TypeOK, ListsMatch, BlocksAccounted
<1>4. Elems(running) \subseteq Reqs
  BY <1>3, ElemsOf
<1>5. done \subseteq Reqs /\ \A x \in done : status[x] = "FINISHED"
  BY <1>4
<1>6. \A x \in Reqs : x \in Elems(running) /\ x \notin done => x \in kept
  OBVIOUS
<1> HIDE DEF done
<1>7. /\ running' \in Seq(Reqs) /\ IsInjective(running') /\ Elems(running') = Elems(running) \cap kept
  <2> HIDE DEF kept
  <2> QED
    BY <1>2, <1>3, OnlyOf
<1>8. /\ \A x \in done : blocks'[x] = 0 /\ ctx'[x] = 0
      /\ \A x \in Reqs \ done : blocks'[x] = blocks[x] /\ ctx'[x] = ctx[x]
      /\ ctx' \in [Reqs -> Nat] /\ blocks' \in [Reqs -> Nat]
  BY <1>2, <1>3, <1>5
<1>9. SumFunctionOnSet(blocks', Reqs) + SumFunctionOnSet(blocks, done) = SumFunctionOnSet(blocks, Reqs)
  <2>1. /\ IsFiniteSet(Reqs) /\ done \in SUBSET Reqs /\ \A x \in Reqs : blocks[x] \in Nat
        /\ \A x \in done : blocks'[x] = 0
        /\ \A x \in Reqs \ done : blocks'[x] = blocks[x]
    BY <1>3, <1>5, <1>8, RequestsAssumption
  <2> DEFINE b == blocks'
  <2>2. /\ IsFiniteSet(Reqs) /\ done \in SUBSET Reqs /\ \A x \in Reqs : blocks[x] \in Nat
        /\ \A x \in done : b[x] = 0
    BY <2>1
  <2>3. \A x \in Reqs \ done : b[x] = blocks[x]
    BY <1>8
  <2> HIDE DEF b
  <2>4. SumFunctionOnSet(b, Reqs) + SumFunctionOnSet(blocks, done) = SumFunctionOnSet(blocks, Reqs)
    BY ONLY <2>2, <2>3, SumClears
  <2> QED
    BY <2>4 DEF b
<1>10. /\ SumFunctionOnSet(blocks', Reqs) \in Nat /\ SumFunctionOnSet(blocks, Reqs) \in Nat
       /\ SumFunctionOnSet(blocks, done) \in Nat
  <2>1. IsFiniteSet(Reqs) /\ IsFiniteSet(done)
    BY <1>5, RequestsAssumption, FS_Subset
  <2>2. \A x \in Reqs : blocks[x] \in Nat /\ blocks'[x] \in Nat
    BY <1>3, <1>8
  <2>3. \A x \in done : blocks[x] \in Nat
    BY <1>5, <2>2
  <2> QED
    BY <2>1, <2>2, <2>3, SumInNat
<1>11. num_free' + SumFunctionOnSet(blocks', Reqs) + leaked' = NumBlocks
       /\ num_free' \in Nat /\ leaked' \in Nat
  BY <1>2, <1>3, <1>9, <1>10
<1>12. num_free' \in 0 .. NumBlocks /\ blocks' \in [Reqs -> 0 .. NumBlocks]
  BY ONLY <1>8, <1>11, BooksBound
<1>13. todo' \in Seq(Reqs \cup Groups) /\ Elems(todo') \subseteq Groups
  BY <1>2, <1>3, SeqWiden, ElemsOf
<1>14. TypeOK'
  BY <1>1, <1>2, <1>7, <1>8, <1>12, <1>13, EmptyList DEF TypeOK
<1>15. ListsMatch'
  BY <1>1, <1>2, <1>7 DEF ListsMatch
<1>16. BlocksAccounted'
  <2>1. \A x \in Reqs : /\ blocks'[x] > 0 => x \in Elems(running')
                        /\ swap_blocks'[x] > 0 <=> x \in Elems(swapped')
    BY <1>1, <1>2, <1>6, <1>7, <1>8 DEF BlocksAccounted
  <2> QED
    BY <1>11, <2>1 DEF BlocksAccounted
<1>17. TokensByStatus'
  BY <1>1, <1>2 DEF TokensByStatus
<1>18. CachedByStatus'
  <2>1. 0 <= 0 * BlockSize
    BY SizesAssumption
  <2>2. \A x \in Reqs : ctx'[x] <= blocks'[x] * BlockSize
    BY <1>1, <1>8, <2>1 DEF CachedByStatus
  <2>3. \A x \in Reqs : status[x] # "FINISHED" => ctx'[x] = ctx[x]
    BY <1>5, <1>8
  <2> QED
    BY <1>1, <1>2, <2>2, <2>3 DEF CachedByStatus
<1>19. LoopsInOrder' /\ GainsInOrder'
  BY <1>2, <1>13 DEF LoopsInOrder, GainsInOrder
<1> QED
  BY <1>1, <1>2, <1>14, <1>15, <1>16, <1>17, <1>18, <1>19 DEF IInv, PlanFits

-----------------------------------------------------------------------------
(* Drafts *)

LEMMA DraftFits ==
    ASSUME IInv, NEW r \in Reqs, status[r] = "RUNNING", Draft(r) > 0
    PROVE  /\ Draft(r) \in Nat /\ plan[r][out[r]].hits \in Nat
           /\ plan[r][out[r]].hits <= Draft(r) /\ MaxDraft # 0
<1> DEFINE T == {MaxNew[x] : x \in Reqs}
<1>1. T \in SUBSET Nat /\ MaxNew[r] \in T
  BY RequestsAssumption
<1>2. IsFiniteSet(T)
  <2> DEFINE f == [x \in Reqs |-> MaxNew[x]]
  <2>1. f \in Surjection(Reqs, T)
    BY DEF Surjection
  <2> HIDE DEF f, T
  <2> QED
    BY <2>1, RequestsAssumption, FS_Surjection
<1>3. T # {}
  BY <1>1
<1> HIDE DEF T
<1>4. Max(T) \in T /\ \A x \in T : x <= Max(T)
  BY ONLY <1>1, <1>2, <1>3, MaxOfSet
<1>5. Max(T) \in Nat /\ MaxNew[r] <= Max(T)
  BY <1>1, <1>4
<1>6. out[r] \in Nat /\ MaxNew[r] \in Nat /\ out[r] >= 1 /\ out[r] < MaxNew[r]
  BY Numbers DEF IInv, TokensByStatus
<1>7. out[r] \in 1 .. Max(T) - 1
  BY <1>5, <1>6
<1>8. MaxDraft \in Nat /\ MaxDraft > 0 /\ r \in Greedy /\ Draft(r) = plan[r][out[r]].draft
  BY SizesAssumption DEF Draft
<1>9. plan \in [Greedy -> [1 .. Max(T) - 1 -> Outlook]]
  BY DEF IInv, PlanFits, T
<1>10. plan[r][out[r]] \in Outlook
  BY <1>7, <1>8, <1>9
<1>11. \A o \in Outlook : o.draft \in Nat /\ o.hits \in Nat /\ o.hits <= o.draft
  BY SizesAssumption DEF Outlook
<1> QED
  BY <1>8, <1>10, <1>11

\* The head of todo in the draft loop, and what is left without it.
LEMMA DraftHead ==
    ASSUME IInv, phase = "draft", todo # <<>>
    PROVE  LET r == Head(todo) IN
           /\ r \in Reqs /\ status[r] = "RUNNING" /\ gained[r] = 0
           /\ Tail(todo) \in Seq(Reqs \cup Groups) /\ IsInjective(Tail(todo))
           /\ Elems(Tail(todo)) \cap Elems(batch) = {}
           /\ Elems(Tail(todo)) \cup Elems(batch) = Unserved \ {r}
           /\ batch \in Seq(Reqs) /\ IsInjective(batch)
<1> DEFINE r == Head(todo)
<1>1. /\ todo \in Seq(Reqs \cup Groups) /\ batch \in Seq(Reqs)
      /\ IsInjective(todo) /\ IsInjective(batch)
      /\ Elems(todo) \cap Elems(batch) = {} /\ Elems(todo) \cup Elems(batch) = Unserved
  BY DEF IInv, TypeOK, LoopsInOrder
<1>2. /\ r \in Elems(todo) /\ Tail(todo) \in Seq(Reqs \cup Groups)
      /\ IsInjective(Tail(todo)) /\ Elems(Tail(todo)) = Elems(todo) \ {r}
  BY <1>1, HeadAndTail
<1> HIDE DEF r
<1>3. r \in Reqs /\ status[r] = "RUNNING" /\ gained[r] = 0
  BY <1>1, <1>2 DEF Unserved
<1>4. /\ Elems(Tail(todo)) \cap Elems(batch) = {}
      /\ Elems(Tail(todo)) \cup Elems(batch) = Unserved \ {r}
  BY <1>1, <1>2
<1> QED
  BY <1>1, <1>2, <1>3, <1>4 DEF r

LEMMA SpeculateHitKeeps ==
    ASSUME IInv, SpeculateHit
    PROVE  IInv'
<1> USE DEF queueVars, swapVars, beamVars
<1>1. TypeOK /\ PlanFits /\ ListsMatch /\ BlocksAccounted /\ TokensByStatus /\ CachedByStatus
      /\ LoopsInOrder /\ GainsInOrder
  BY DEF IInv
<1> DEFINE r    == Head(todo)
           D    == Draft(r)
           need == Missing(r, 1 + D)
           hits == plan[r][out[r]].hits
<1>2. /\ phase = "draft" /\ todo # <<>> /\ D > 0 /\ need <= num_free
      /\ num_free' = num_free - need /\ blocks' = [blocks EXCEPT ![r] = @ + need]
      /\ \E kept \in 1 .. hits + 1 : \E st \in StatusAfter(r, out[r] + kept) :
            /\ out[r] + kept <= MaxNew[r]
            /\ out' = [out EXCEPT ![r] = @ + kept] /\ gained' = [gained EXCEPT ![r] = @ + kept]
            /\ status' = [status EXCEPT ![r] = st]
            /\ ctx' = [ctx EXCEPT ![r] = @ + 1 + D - Rollback(D, hits, kept)]
      /\ todo' = Tail(todo)
      /\ UNCHANGED <<queueVars, swapVars, leaked, phase, batch, budget, beamVars, plan>>
  BY DEF SpeculateHit
<1>3. /\ r \in Reqs /\ status[r] = "RUNNING" /\ gained[r] = 0
      /\ Tail(todo) \in Seq(Reqs \cup Groups) /\ IsInjective(Tail(todo))
      /\ Elems(Tail(todo)) \cap Elems(batch) = {}
      /\ Elems(Tail(todo)) \cup Elems(batch) = Unserved \ {r}
      /\ batch \in Seq(Reqs) /\ IsInjective(batch)
  BY <1>2, DraftHead
<1> HIDE DEF r
<1>4. D \in Nat /\ hits \in Nat /\ hits <= D /\ MaxDraft # 0
  BY <1>2, <1>3, DraftFits
<1> HIDE DEF D, hits
<1>5. /\ ctx[r] \in Nat /\ blocks[r] \in Nat /\ out[r] \in Nat /\ PromptLen[r] \in Nat
      /\ num_free \in Nat
  BY <1>3, Numbers
<1>6. 1 + D \in Nat
  BY <1>4
<1>7. need \in Nat /\ ctx[r] + (1 + D) <= (blocks[r] + need) * BlockSize
  BY <1>3, <1>5, <1>6, MissingCovers
<1> HIDE DEF need
<1>kept. PICK kept \in 1 .. hits + 1 : \E st \in StatusAfter(r, out[r] + kept) :
         /\ out[r] + kept <= MaxNew[r]
         /\ out' = [out EXCEPT ![r] = @ + kept] /\ gained' = [gained EXCEPT ![r] = @ + kept]
         /\ status' = [status EXCEPT ![r] = st]
         /\ ctx' = [ctx EXCEPT ![r] = @ + 1 + D - Rollback(D, hits, kept)]
  BY <1>2
<1>8. PICK st \in StatusAfter(r, out[r] + kept) :
         /\ out[r] + kept <= MaxNew[r]
         /\ out' = [out EXCEPT ![r] = @ + kept] /\ gained' = [gained EXCEPT ![r] = @ + kept]
         /\ status' = [status EXCEPT ![r] = st]
         /\ ctx' = [ctx EXCEPT ![r] = @ + 1 + D - Rollback(D, hits, kept)]
  BY <1>kept
<1>9. kept \in Nat /\ kept >= 1 /\ out[r] + kept \in Nat
  BY <1>4, <1>5
<1>10. st \in {"RUNNING", "FINISHED"} /\ (st = "RUNNING" => out[r] + kept < MaxNew[r])
  BY <1>3, <1>8, <1>9, AfterTokens
<1> DEFINE m == Lesser(kept, hits)
<1>11. m \in Nat /\ m <= D
  BY <1>4, <1>9 DEF Lesser
<1>12. Rollback(D, hits, kept) = D - m
  BY DEF Rollback
<1> HIDE DEF m
<1>13. ctx[r] + 1 + D - (D - m) = ctx[r] + 1 + m
  BY <1>4, <1>5, <1>11
<1>14. ctx' = [ctx EXCEPT ![r] = ctx[r] + 1 + m]
  BY <1>8, <1>12, <1>13
<1>15. /\ num_free' + SumFunctionOnSet(blocks', Reqs) + leaked' = NumBlocks
       /\ num_free' \in 0 .. NumBlocks /\ leaked' \in 0 .. NumBlocks
       /\ blocks' \in [Reqs -> 0 .. NumBlocks]
       /\ blocks'[r] = blocks[r] + need
       /\ \A x \in Reqs \ {r} : blocks'[x] = blocks[x]
  BY <1>2, <1>3, <1>7, GrowTable
<1>16. /\ ctx' \in [Reqs -> Nat] /\ ctx'[r] = ctx[r] + 1 + m
       /\ \A x \in Reqs \ {r} : ctx'[x] = ctx[x]
  <2>1. ctx \in [Reqs -> Nat]
    BY <1>1 DEF TypeOK
  <2>2. ctx[r] + 1 + m \in Nat
    BY <1>5, <1>11
  <2> QED
    BY <1>3, <1>14, <2>1, <2>2
<1>17. ctx'[r] <= blocks'[r] * BlockSize /\ ctx'[r] >= ctx[r]
  <2>1. (blocks[r] + need) * BlockSize \in Nat
    BY <1>5, <1>7, SizesAssumption
  <2>2. ctx[r] + 1 + m <= (blocks[r] + need) * BlockSize /\ ctx[r] + 1 + m >= ctx[r]
    BY <1>4, <1>5, <1>7, <1>11, <2>1
  <2> QED
    BY <1>15, <1>16, <2>2
<1>18. /\ out' \in [Reqs -> Nat] /\ gained' \in [Reqs -> Nat]
       /\ out'[r] = out[r] + kept /\ gained'[r] = kept
       /\ \A x \in Reqs \ {r} : out'[x] = out[x] /\ gained'[x] = gained[x]
  <2>1. out \in [Reqs -> Nat] /\ gained \in [Reqs -> Nat]
    BY <1>1 DEF TypeOK
  <2>2. gained[r] + kept = kept
    BY <1>3, <1>9
  <2> QED
    BY <1>3, <1>8, <1>9, <2>1, <2>2
<1>19. /\ status' \in [Reqs -> {"NEW", "WAITING", "PREFILLING", "RUNNING", "SWAPPED", "FINISHED", "CANCELLED"}]
       /\ status'[r] = st /\ \A x \in Reqs \ {r} : status'[x] = status[x]
  BY <1>1, <1>3, <1>8, <1>10 DEF TypeOK
<1>20. TypeOK'
  BY <1>1, <1>2, <1>3, <1>15, <1>16, <1>18, <1>19 DEF TypeOK
<1>21. ListsMatch'
  BY <1>1, <1>2, <1>3, <1>10, <1>19 DEF ListsMatch
<1>22. BlocksAccounted'
  <2>1. r \in Elems(running)
    BY <1>1, <1>3 DEF ListsMatch
  <2>2. \A x \in Reqs : /\ blocks'[x] > 0 => x \in Elems(running')
                        /\ swap_blocks'[x] > 0 <=> x \in Elems(swapped')
    BY <1>1, <1>2, <1>15, <2>1 DEF BlocksAccounted
  <2> QED
    BY <1>15, <2>2 DEF BlocksAccounted
<1>23. TokensByStatus'
  BY <1>1, <1>3, <1>5, <1>8, <1>9, <1>10, <1>18, <1>19 DEF TokensByStatus
<1>24. CachedByStatus'
  <2>1. ctx[r] >= PromptLen[r]
    BY <1>1, <1>3 DEF CachedByStatus
  <2>2. ctx'[r] >= PromptLen[r]
    BY <1>5, <1>11, <1>16, <2>1
  <2> QED
    BY <1>1, <1>2, <1>10, <1>15, <1>16, <1>17, <1>19, <2>2 DEF CachedByStatus
<1>25. LoopsInOrder'
  <2>1. Unserved' = Unserved \ {r}
    BY <1>3, <1>9, <1>18, <1>19 DEF Unserved
  <2> QED
    BY <1>2, <1>3, <2>1 DEF LoopsInOrder
<1>26. GainsInOrder'
  BY <1>1, <1>2, <1>4, <1>9, <1>18, <1>19 DEF GainsInOrder
<1> QED
  BY <1>1, <1>2, <1>20, <1>21, <1>22, <1>23, <1>24, <1>25, <1>26 DEF IInv, PlanFits

-----------------------------------------------------------------------------
(* Preemption *)

\* Whatever the failed call has done to the tables (b) and the contexts (c):
\* with no block left, v gives its blocks back, to the pool or to the host.
LEMMA PreemptKeeps ==
    ASSUME IInv, phase \in {"draft", "decode"}, phase' \in {"draft", "decode", "finish"},
           NEW v \in Reqs, status[v] = "RUNNING",
           NEW b \in [Reqs -> Nat], NEW c \in [Reqs -> Nat],
           SumFunctionOnSet(b, Reqs) + leaked = NumBlocks,
           \A x \in Reqs : c[x] <= b[x] * BlockSize /\ c[x] >= ctx[x],
           \A x \in Reqs : b[x] > 0 => x \in Elems(running),
           \A x \in Reqs : status[x] = "PREFILLING" => c[x] = ctx[x],
           Preempt(v, b, c, 0),
           todo' \in Seq(Reqs \cup Groups), batch' \in Seq(Reqs),
           UNCHANGED <<leaked, budget, gained, beamVars, plan>>
    PROVE  Unserved' = Unserved \ {v} /\ (LoopsInOrder' => IInv')
<1> USE DEF swapVars, beamVars
<1>1. TypeOK /\ PlanFits /\ ListsMatch /\ BlocksAccounted /\ TokensByStatus /\ CachedByStatus
      /\ LoopsInOrder /\ GainsInOrder
  BY DEF IInv
<1>2. /\ running' = Without(running, v) /\ num_free' = 0 + b[v]
      /\ blocks' = [b EXCEPT ![v] = 0] /\ ctx' = [c EXCEPT ![v] = 0]
      /\ \/ /\ swap_blocks' = [swap_blocks EXCEPT ![v] = b[v]]
            /\ swap_ctx' = [swap_ctx EXCEPT ![v] = c[v]]
            /\ status' = [status EXCEPT ![v] = "SWAPPED"]
            /\ swapped' = <<v>> \o swapped /\ waiting' = waiting /\ out' = out
         \/ /\ out' = [out EXCEPT ![v] = 0] /\ status' = [status EXCEPT ![v] = "WAITING"]
            /\ waiting' = <<v>> \o waiting /\ UNCHANGED <<swapped, swapVars>>
  BY DEF Preempt, SwapOut, Restart
<1>3. /\ running \in Seq(Reqs) /\ IsInjective(running)
      /\ waiting \in Seq(Reqs) /\ IsInjective(waiting)
      /\ swapped \in Seq(Reqs) /\ IsInjective(swapped)
      /\ v \notin Elems(waiting) /\ v \notin Elems(swapped)
      /\ out[v] >= 1 /\ out[v] < MaxNew[v] /\ ctx[v] >= PromptLen[v]
  BY <1>1 DEF TypeOK, ListsMatch, TokensByStatus, CachedByStatus
<1>4. running' \in Seq(Reqs) /\ IsInjective(running') /\ Elems(running') = Elems(running) \ {v}
  BY <1>2, <1>3, WithoutOne
<1>5. /\ leaked \in Nat /\ b[v] \in Nat /\ c[v] \in Nat /\ ctx[v] \in Nat
      /\ PromptLen[v] \in Nat /\ PromptLen[v] >= 1 /\ MaxNew[v] \in Nat
  BY Numbers
<1>6. /\ SumFunctionOnSet([b EXCEPT ![v] = 0], Reqs) = SumFunctionOnSet(b, Reqs) - b[v] + 0
      /\ SumFunctionOnSet(b, Reqs) \in Nat /\ b[v] <= SumFunctionOnSet(b, Reqs)
  BY BooksAtOne
<1>7. /\ num_free' + SumFunctionOnSet(blocks', Reqs) + leaked' = NumBlocks
      /\ num_free' \in Nat /\ leaked' \in Nat
  BY <1>2, <1>5, <1>6
<1>8. /\ blocks' \in [Reqs -> Nat] /\ ctx' \in [Reqs -> Nat]
      /\ blocks'[v] = 0 /\ ctx'[v] = 0
      /\ \A x \in Reqs \ {v} : blocks'[x] = b[x] /\ ctx'[x] = c[x]
  BY <1>2
<1>9. num_free' \in 0 .. NumBlocks /\ blocks' \in [Reqs -> 0 .. NumBlocks]
  BY ONLY <1>7, <1>8, BooksBound
<1>10. b[v] \in 0 .. NumBlocks
  BY <1>2, <1>5, <1>9
<1>11. c[v] >= PromptLen[v] /\ c[v] <= b[v] * BlockSize /\ b[v] >= 1
  <2>1. c[v] >= PromptLen[v] /\ c[v] <= b[v] * BlockSize /\ c[v] >= 1
    BY <1>3, <1>5
  <2> QED
    BY <1>5, <2>1, CoversNeedsBlocks
<1>12. /\ status' \in [Reqs -> {"NEW", "WAITING", "PREFILLING", "RUNNING", "SWAPPED", "FINISHED", "CANCELLED"}]
       /\ status'[v] \in {"WAITING", "SWAPPED"} /\ \A x \in Reqs \ {v} : status'[x] = status[x]
  BY <1>1, <1>2 DEF TypeOK
<1>13. Unserved' = Unserved \ {v}
  BY <1>12 DEF Unserved
<1>14. /\ swap_blocks' \in [Reqs -> 0 .. NumBlocks] /\ swap_ctx' \in [Reqs -> Nat]
       /\ out' \in [Reqs -> Nat]
       /\ \A x \in Reqs \ {v} : /\ swap_blocks'[x] = swap_blocks[x] /\ swap_ctx'[x] = swap_ctx[x]
                                /\ out'[x] = out[x]
  <2>1. /\ swap_blocks \in [Reqs -> 0 .. NumBlocks] /\ swap_ctx \in [Reqs -> Nat]
        /\ out \in [Reqs -> Nat] /\ 0 \in Nat
    BY <1>1 DEF TypeOK
  <2>2. /\ swap_blocks' = [swap_blocks EXCEPT ![v] = b[v]] \/ swap_blocks' = swap_blocks
        /\ swap_ctx' = [swap_ctx EXCEPT ![v] = c[v]] \/ swap_ctx' = swap_ctx
        /\ out' = [out EXCEPT ![v] = 0] \/ out' = out
    BY <1>2
  <2>3. /\ swap_blocks' \in [Reqs -> 0 .. NumBlocks]
        /\ \A x \in Reqs \ {v} : swap_blocks'[x] = swap_blocks[x]
    BY <1>10, <2>1, <2>2
  <2>4. swap_ctx' \in [Reqs -> Nat] /\ \A x \in Reqs \ {v} : swap_ctx'[x] = swap_ctx[x]
    BY <1>5, <2>1, <2>2
  <2>5. out' \in [Reqs -> Nat] /\ \A x \in Reqs \ {v} : out'[x] = out[x]
    BY <2>1, <2>2
  <2> QED
    BY <2>3, <2>4, <2>5
<1>15. /\ waiting' \in Seq(Reqs) /\ IsInjective(waiting')
       /\ swapped' \in Seq(Reqs) /\ IsInjective(swapped')
       /\ \/ /\ status'[v] = "SWAPPED" /\ Elems(swapped') = Elems(swapped) \cup {v}
             /\ Elems(waiting') = Elems(waiting) /\ out'[v] = out[v]
             /\ swap_blocks'[v] = b[v] /\ swap_ctx'[v] = c[v]
          \/ /\ status'[v] = "WAITING" /\ Elems(waiting') = Elems(waiting) \cup {v}
             /\ Elems(swapped') = Elems(swapped) /\ out'[v] = 0 /\ swap_blocks'[v] = swap_blocks[v]
  <2>1. /\ <<v>> \o swapped \in Seq(Reqs) /\ Elems(<<v>> \o swapped) = Elems(swapped) \cup {v}
        /\ IsInjective(<<v>> \o swapped)
    BY <1>3, ConsList
  <2>2. /\ <<v>> \o waiting \in Seq(Reqs) /\ Elems(<<v>> \o waiting) = Elems(waiting) \cup {v}
        /\ IsInjective(<<v>> \o waiting)
    BY <1>3, ConsList
  <2>3. status \in [Reqs -> {"NEW", "WAITING", "PREFILLING", "RUNNING", "SWAPPED", "FINISHED", "CANCELLED"}]
        /\ out \in [Reqs -> Nat] /\ DOMAIN swap_blocks = Reqs /\ DOMAIN swap_ctx = Reqs
    BY <1>1 DEF TypeOK
  <2>4. CASE /\ swap_blocks' = [swap_blocks EXCEPT ![v] = b[v]]
             /\ swap_ctx' = [swap_ctx EXCEPT ![v] = c[v]]
             /\ status' = [status EXCEPT ![v] = "SWAPPED"]
             /\ swapped' = <<v>> \o swapped /\ waiting' = waiting /\ out' = out
    <3>1. /\ status'[v] = "SWAPPED" /\ out'[v] = out[v]
          /\ swap_blocks'[v] = b[v] /\ swap_ctx'[v] = c[v]
      BY <2>3, <2>4
    <3>2. /\ swapped' \in Seq(Reqs) /\ IsInjective(swapped')
          /\ Elems(swapped') = Elems(swapped) \cup {v}
      BY <2>1, <2>4
    <3>3. waiting' \in Seq(Reqs) /\ IsInjective(waiting') /\ Elems(waiting') = Elems(waiting)
      BY <1>3, <2>4
    <3> QED
      BY <3>1, <3>2, <3>3
  <2>5. CASE /\ out' = [out EXCEPT ![v] = 0] /\ status' = [status EXCEPT ![v] = "WAITING"]
             /\ waiting' = <<v>> \o waiting /\ UNCHANGED <<swapped, swapVars>>
    <3>1. status'[v] = "WAITING" /\ out'[v] = 0 /\ swap_blocks'[v] = swap_blocks[v]
      BY <2>3, <2>5
    <3>2. /\ waiting' \in Seq(Reqs) /\ IsInjective(waiting')
          /\ Elems(waiting') = Elems(waiting) \cup {v}
      BY <2>2, <2>5
    <3>3. swapped' \in Seq(Reqs) /\ IsInjective(swapped') /\ Elems(swapped') = Elems(swapped)
      BY <1>3, <2>5
    <3> QED
      BY <3>1, <3>2, <3>3
  <2> QED
    BY <1>2, <2>4, <2>5
<1>16. TypeOK'
  BY <1>1, <1>4, <1>7, <1>8, <1>9, <1>12, <1>14, <1>15 DEF TypeOK
<1>17. ListsMatch'
  BY <1>1, <1>3, <1>4, <1>12, <1>15 DEF ListsMatch
<1>18. BlocksAccounted'
  <2>1. ASSUME NEW x \in Reqs
        PROVE  /\ blocks'[x] > 0 => x \in Elems(running')
               /\ swap_blocks'[x] > 0 <=> x \in Elems(swapped')
    <3>1. CASE x = v
      <4>1. ~(blocks'[v] > 0)
        BY <1>8
      <4>2. swap_blocks[v] > 0 <=> v \in Elems(swapped)
        BY <1>1 DEF BlocksAccounted
      <4>3. b[v] > 0
        BY <1>5, <1>11
      <4> QED
        BY <1>15, <3>1, <4>1, <4>2, <4>3
    <3>2. CASE x # v
      BY <1>1, <1>4, <1>8, <1>14, <1>15, <3>2 DEF BlocksAccounted
    <3> QED
      BY <3>1, <3>2
  <2> QED
    BY <1>7, <2>1 DEF BlocksAccounted
<1>19. TokensByStatus'
  <2>1. out[v] \in Nat /\ MaxNew[v] \in Nat
    BY Numbers
  <2>2. /\ out'[v] <= MaxNew[v]
        /\ status'[v] = "WAITING" => out'[v] = 0
        /\ status'[v] = "SWAPPED" => out'[v] >= 1 /\ out'[v] < MaxNew[v]
    BY <1>3, <1>15, <2>1
  <2>3. ASSUME NEW x \in Reqs \ {v}
        PROVE  /\ out'[x] <= MaxNew[x]
               /\ status'[x] \in {"NEW", "WAITING", "PREFILLING"} => out'[x] = 0
               /\ status'[x] \in {"RUNNING", "SWAPPED"} => out'[x] >= 1 /\ out'[x] < MaxNew[x]
    BY <1>1, <1>12, <1>14 DEF TokensByStatus
  <2>4. status'[v] # "NEW" /\ status'[v] # "PREFILLING" /\ status'[v] # "RUNNING"
    BY <1>12
  <2> QED
    BY <2>2, <2>3, <2>4 DEF TokensByStatus
<1>20. CachedByStatus'
  <2>1. 0 <= 0 * BlockSize
    BY SizesAssumption
  <2>2. ASSUME NEW x \in Reqs
        PROVE  /\ ctx'[x] <= blocks'[x] * BlockSize
               /\ status'[x] = "PREFILLING" => ctx'[x] < PromptLen[x]
               /\ status'[x] = "RUNNING" => ctx'[x] >= PromptLen[x]
    <3>1. CASE x = v
      BY <1>8, <1>12, <2>1, <3>1
    <3>2. CASE x # v
      <4>1. ctx[x] \in Nat /\ c[x] \in Nat /\ PromptLen[x] \in Nat
        BY Numbers
      <4>2. /\ status[x] = "PREFILLING" => ctx[x] < PromptLen[x]
            /\ status[x] = "RUNNING" => ctx[x] >= PromptLen[x]
        BY <1>1 DEF CachedByStatus
      <4>3. c[x] <= b[x] * BlockSize /\ c[x] >= ctx[x] /\ (status[x] = "PREFILLING" => c[x] = ctx[x])
        OBVIOUS
      <4>4. blocks'[x] = b[x] /\ ctx'[x] = c[x] /\ status'[x] = status[x]
        BY <1>8, <1>12, <3>2
      <4> QED
        BY ONLY <4>1, <4>2, <4>3, <4>4
    <3> QED
      BY <3>1, <3>2
  <2>3. ASSUME NEW x \in Reqs, x \in Elems(swapped')
        PROVE  swap_ctx'[x] >= PromptLen[x] /\ swap_ctx'[x] <= swap_blocks'[x] * BlockSize
    BY <1>1, <1>3, <1>11, <1>14, <1>15, <2>3 DEF CachedByStatus
  <2> QED
    BY <2>2, <2>3 DEF CachedByStatus
<1>21. GainsInOrder'
  BY <1>1, <1>4, <1>12 DEF GainsInOrder
<1> QED
  BY <1>1, <1>13, <1>16, <1>17, <1>18, <1>19, <1>20, <1>21 DEF IInv, PlanFits

LEMMA SpeculateOOMKeeps ==
    ASSUME IInv, SpeculateOOM
    PROVE  IInv'
<1> DEFINE r == Head(todo)
           b == [blocks EXCEPT ![r] = @ + num_free]
<1>1. /\ phase = "draft" /\ todo # <<>> /\ Preempt(r, b, ctx, 0) /\ todo' = Tail(todo)
      /\ UNCHANGED <<leaked, phase, batch, budget, gained, beamVars, plan>>
  BY DEF SpeculateOOM
<1>2. /\ r \in Reqs /\ status[r] = "RUNNING" /\ gained[r] = 0
      /\ Tail(todo) \in Seq(Reqs \cup Groups) /\ IsInjective(Tail(todo))
      /\ Elems(Tail(todo)) \cap Elems(batch) = {}
      /\ Elems(Tail(todo)) \cup Elems(batch) = Unserved \ {r}
      /\ batch \in Seq(Reqs) /\ IsInjective(batch)
  BY <1>1, DraftHead
<1> HIDE DEF r
<1>3. /\ blocks \in [Reqs -> Nat] /\ ctx \in [Reqs -> Nat] /\ num_free \in Nat /\ leaked \in Nat
      /\ num_free + SumFunctionOnSet(blocks, Reqs) + leaked = NumBlocks
      /\ r \in Elems(running)
      /\ \A x \in Reqs : blocks[x] > 0 => x \in Elems(running)
      /\ \A x \in Reqs : ctx[x] <= blocks[x] * BlockSize
  BY <1>2 DEF IInv, TypeOK, BlocksAccounted, ListsMatch, CachedByStatus
<1>4. blocks[r] + num_free \in Nat /\ b = [blocks EXCEPT ![r] = blocks[r] + num_free]
  BY <1>2, <1>3
<1>5. /\ SumFunctionOnSet([blocks EXCEPT ![r] = blocks[r] + num_free], Reqs)
            = SumFunctionOnSet(blocks, Reqs) - blocks[r] + (blocks[r] + num_free)
      /\ SumFunctionOnSet(blocks, Reqs) \in Nat
  BY ONLY <1>2, <1>3, <1>4, BooksAtOne
<1>6. /\ b \in [Reqs -> Nat] /\ b[r] = blocks[r] + num_free
      /\ \A x \in Reqs \ {r} : b[x] = blocks[x]
  BY <1>2, <1>3, <1>4
<1>7. SumFunctionOnSet(b, Reqs) = SumFunctionOnSet(blocks, Reqs) - blocks[r] + (blocks[r] + num_free)
  BY <1>4, <1>5, Zenon
<1> HIDE DEF b
<1>8. blocks[r] \in Nat
  BY <1>2, <1>3
<1>9. SumFunctionOnSet(b, Reqs) + leaked = NumBlocks
  BY ONLY <1>3, <1>5, <1>7, <1>8
<1>10. \A x \in Reqs : ctx[x] <= b[x] * BlockSize /\ ctx[x] >= ctx[x]
  <2> TAKE x \in Reqs
  <2>1. /\ ctx[x] \in Nat /\ blocks[x] \in Nat /\ b[x] \in Nat /\ blocks[x] <= b[x]
        /\ ctx[x] <= blocks[x] * BlockSize
    <3>1. ctx[x] \in Nat /\ blocks[x] \in Nat /\ b[x] \in Nat /\ num_free \in Nat
      BY <1>3, <1>6
    <3>2. b[x] = blocks[x] \/ b[x] = blocks[x] + num_free
      BY <1>6
    <3> QED
      BY <1>3, <3>1, <3>2
  <2>2. ctx[x] <= b[x] * BlockSize
    BY ONLY <2>1, MoreCovers
  <2> QED
    BY <2>1, <2>2
<1>11. \A x \in Reqs : b[x] > 0 => x \in Elems(running)
  BY <1>3, <1>6
<1>12. todo' \in Seq(Reqs \cup Groups) /\ batch' \in Seq(Reqs)
  BY <1>1, <1>2
<1>13. /\ phase \in {"draft", "decode"} /\ phase' \in {"draft", "decode", "finish"}
       /\ \A x \in Reqs : status[x] = "PREFILLING" => ctx[x] = ctx[x]
       /\ UNCHANGED <<leaked, budget, gained, beamVars, plan>> /\ IInv
  BY <1>1
<1>14. Unserved' = Unserved \ {r} /\ (LoopsInOrder' => IInv')
  BY ONLY <1>1, <1>2, <1>3, <1>6, <1>9, <1>10, <1>11, <1>12, <1>13, PreemptKeeps
<1>15. LoopsInOrder'
  BY <1>1, <1>2, <1>14 DEF LoopsInOrder
<1> QED
  BY <1>14, <1>15

-----------------------------------------------------------------------------
(* Decoding *)

LEMMA OneMore ==
    ASSUME IInv, NEW x \in Reqs
    PROVE  /\ ctx[x] + 1 <= (blocks[x] + 1) * BlockSize
           /\ Missing(x, 1) \in Nat
           /\ Missing(x, 1) = 0 => ctx[x] + 1 <= blocks[x] * BlockSize
<1>1. ctx[x] \in Nat /\ blocks[x] \in Nat /\ BlockSize \in Nat /\ BlockSize >= 1
  BY Numbers
<1>2. ctx[x] <= blocks[x] * BlockSize
  BY DEF IInv, CachedByStatus
<1>3. (blocks[x] + 1) * BlockSize = blocks[x] * BlockSize + BlockSize /\ blocks[x] * BlockSize \in Nat
  BY <1>1, SMTT(30)
<1>4. Missing(x, 1) \in Nat /\ (Missing(x, 1) = 0 => ctx[x] + 1 <= blocks[x] * BlockSize)
  BY <1>1, MissingCovers
<1> QED
  BY <1>1, <1>2, <1>3, <1>4

LEMMA NeedingOf ==
    ASSUME NEW q \in Seq(Reqs), IsInjective(q)
    PROVE  /\ Needing(q) \in Seq(Reqs) /\ IsInjective(Needing(q))
           /\ Elems(Needing(q)) = {x \in Elems(q) : Missing(x, 1) > 0}
<1> DEFINE M == {r \in Reqs : Missing(r, 1) > 0}
<1>1. Elems(q) \cap M = {x \in Elems(q) : Missing(x, 1) > 0}
  BY ElemsOf
<1> HIDE DEF M
<1>2. /\ Only(q, M) \in Seq(Reqs) /\ IsInjective(Only(q, M))
      /\ Elems(Only(q, M)) = Elems(q) \cap M
  BY OnlyOf
<1>3. Needing(q) = Only(q, M)
  BY DEF Needing, M
<1> QED
  BY <1>1, <1>2, <1>3, Zenon

\* The batch at the head of the decode loop.
LEMMA BatchOf ==
    ASSUME IInv, phase = "decode"
    PROVE  /\ batch \in Seq(Reqs) /\ IsInjective(batch) /\ batch # <<>>
           /\ Elems(batch) = Unserved /\ Unserved \subseteq Reqs
           /\ \A x \in Elems(batch) : status[x] = "RUNNING" /\ gained[x] = 0 /\ x \in Elems(running)
<1>1. /\ batch \in Seq(Reqs) /\ IsInjective(batch) /\ batch # <<>> /\ Elems(batch) = Unserved
  BY DEF IInv, TypeOK, LoopsInOrder
<1>2. \A x \in Unserved : x \in Reqs /\ status[x] = "RUNNING" /\ gained[x] = 0 /\ x \in Elems(running)
  BY DEF Unserved, IInv, ListsMatch
<1> QED
  BY <1>1, <1>2

LEMMA DecodeBatchKeeps ==
    ASSUME IInv, DecodeBatch
    PROVE  IInv'
<1> USE DEF queueVars, swapVars, beamVars
<1>1. TypeOK /\ PlanFits /\ ListsMatch /\ BlocksAccounted /\ TokensByStatus /\ CachedByStatus
      /\ LoopsInOrder /\ GainsInOrder
  BY DEF IInv
<1> DEFINE N == Elems(Needing(batch))
           A == Elems(batch)
           n == Len(Needing(batch))
<1>2. /\ phase = "decode" /\ n <= num_free /\ num_free' = num_free - n
      /\ blocks' = [r \in Reqs |-> IF r \in N THEN blocks[r] + 1 ELSE blocks[r]]
      /\ ctx' = [r \in Reqs |-> IF r \in A THEN ctx[r] + 1 ELSE ctx[r]]
      /\ out' = [r \in Reqs |-> IF r \in A THEN out[r] + 1 ELSE out[r]]
      /\ gained' = [r \in Reqs |-> IF r \in A THEN gained[r] + 1 ELSE gained[r]]
      /\ \E stopped \in SUBSET A :
           /\ \A r \in A : (IF r \in stopped THEN "FINISHED" ELSE "RUNNING") \in StatusAfter(r, out[r] + 1)
           /\ status' = [r \in Reqs |-> IF r \in stopped THEN "FINISHED" ELSE status[r]]
      /\ phase' = "finish"
      /\ UNCHANGED <<queueVars, swapVars, leaked, todo, batch, budget, beamVars, plan>>
  BY DEF DecodeBatch
<1>3. /\ batch \in Seq(Reqs) /\ IsInjective(batch)
      /\ A = Unserved /\ Unserved \subseteq Reqs
      /\ \A x \in A : status[x] = "RUNNING" /\ gained[x] = 0 /\ x \in Elems(running)
  BY <1>2, BatchOf
<1>4. /\ Needing(batch) \in Seq(Reqs) /\ IsInjective(Needing(batch))
      /\ N = {x \in A : Missing(x, 1) > 0}
  BY <1>3, NeedingOf
<1>5. Cardinality(N) = n /\ n \in Nat
  <2> DEFINE q == Needing(batch)
  <2>1. q \in Seq(Reqs) /\ IsInjective(q)
    BY <1>4
  <2> HIDE DEF q
  <2>2. Cardinality(Elems(q)) = Len(q) /\ Len(q) \in Nat
    BY ONLY <2>1, ListCounts
  <2> QED
    BY <2>2 DEF q
<1>6. PICK stopped \in SUBSET A :
         /\ \A r \in A : (IF r \in stopped THEN "FINISHED" ELSE "RUNNING") \in StatusAfter(r, out[r] + 1)
         /\ status' = [r \in Reqs |-> IF r \in stopped THEN "FINISHED" ELSE status[r]]
  BY <1>2
<1> HIDE DEF N, A, n
<1>7. /\ blocks \in [Reqs -> Nat] /\ ctx \in [Reqs -> Nat] /\ out \in [Reqs -> Nat]
      /\ gained \in [Reqs -> Nat] /\ num_free \in Nat /\ leaked \in Nat
      /\ num_free + SumFunctionOnSet(blocks, Reqs) + leaked = NumBlocks
      /\ status \in [Reqs -> {"NEW", "WAITING", "PREFILLING", "RUNNING", "SWAPPED", "FINISHED", "CANCELLED"}]
  BY <1>1 DEF TypeOK, BlocksAccounted
<1>8. /\ \A x \in N : blocks'[x] = blocks[x] + 1
      /\ \A x \in Reqs \ N : blocks'[x] = blocks[x]
      /\ \A x \in A : ctx'[x] = ctx[x] + 1 /\ out'[x] = out[x] + 1 /\ gained'[x] = gained[x] + 1
      /\ \A x \in Reqs \ A : ctx'[x] = ctx[x] /\ out'[x] = out[x] /\ gained'[x] = gained[x]
      /\ blocks' \in [Reqs -> Nat] /\ ctx' \in [Reqs -> Nat] /\ out' \in [Reqs -> Nat]
      /\ gained' \in [Reqs -> Nat]
  <2>1. N \subseteq Reqs /\ A \subseteq Reqs
    BY <1>3, <1>4
  <2>2. \A x \in Reqs : /\ blocks[x] \in Nat /\ blocks[x] + 1 \in Nat /\ ctx[x] \in Nat /\ ctx[x] + 1 \in Nat
                        /\ out[x] \in Nat /\ out[x] + 1 \in Nat /\ gained[x] \in Nat /\ gained[x] + 1 \in Nat
    BY <1>7
  <2>3. blocks' \in [Reqs -> Nat] /\ ctx' \in [Reqs -> Nat]
    BY <1>2, <2>2
  <2>4. out' \in [Reqs -> Nat] /\ gained' \in [Reqs -> Nat]
    BY <1>2, <2>2
  <2>5. \A x \in A : ctx'[x] = ctx[x] + 1 /\ out'[x] = out[x] + 1 /\ gained'[x] = gained[x] + 1
    BY <1>2, <2>1
  <2>6. \A x \in Reqs \ A : ctx'[x] = ctx[x] /\ out'[x] = out[x] /\ gained'[x] = gained[x]
    BY <1>2
  <2> QED
    BY <1>2, <2>1, <2>3, <2>4, <2>5, <2>6
<1>9. SumFunctionOnSet(blocks', Reqs) = SumFunctionOnSet(blocks, Reqs) + 1 * n
  <2> DEFINE b == blocks'
  <2>1. /\ IsFiniteSet(Reqs) /\ N \in SUBSET Reqs /\ 1 \in Int
        /\ \A x \in Reqs : blocks[x] \in Nat /\ b[x] \in Nat
        /\ \A x \in N : b[x] = blocks[x] + 1
    BY <1>3, <1>4, <1>7, <1>8, RequestsAssumption
  <2>2. \A x \in Reqs \ N : b[x] = blocks[x]
    BY <1>8
  <2> HIDE DEF b
  <2>3. SumFunctionOnSet(b, Reqs) = SumFunctionOnSet(blocks, Reqs) + 1 * Cardinality(N)
    BY ONLY <2>1, <2>2, SumShifts
  <2> QED
    BY <1>5, <2>3 DEF b
<1>10. SumFunctionOnSet(blocks, Reqs) \in Nat
  BY <1>7, SumInNat, RequestsAssumption
<1>11. /\ num_free' + SumFunctionOnSet(blocks', Reqs) + leaked' = NumBlocks
       /\ num_free' \in Nat /\ leaked' \in Nat
  BY <1>2, <1>5, <1>7, <1>9, <1>10
<1>12. num_free' \in 0 .. NumBlocks /\ blocks' \in [Reqs -> 0 .. NumBlocks]
  BY ONLY <1>8, <1>11, BooksBound
<1>13. /\ status' \in [Reqs -> {"NEW", "WAITING", "PREFILLING", "RUNNING", "SWAPPED", "FINISHED", "CANCELLED"}]
       /\ \A x \in Reqs \ A : status'[x] = status[x]
       /\ \A x \in A : /\ status'[x] \in {"RUNNING", "FINISHED"}
                       /\ status'[x] \in StatusAfter(x, out[x] + 1)
  BY <1>3, <1>6, <1>7
<1>14. \A x \in A : status'[x] = "RUNNING" => out[x] + 1 < MaxNew[x]
  <2> TAKE x \in A
  <2>1. x \in Reqs /\ out[x] + 1 \in Nat
    BY <1>3, <1>7
  <2> QED
    BY <1>13, <2>1, AfterTokens
<1>15. TypeOK'
  BY <1>1, <1>2, <1>8, <1>12, <1>13 DEF TypeOK
<1>16. ListsMatch'
  <2>1. /\ waiting' = waiting /\ running' = running /\ swapped' = swapped /\ phase' = "finish"
    BY <1>2
  <2>2. \A x \in A : status'[x] \in {"RUNNING", "FINISHED"} /\ status[x] = "RUNNING"
    BY <1>3, <1>13
  <2> QED
    BY <1>1, <1>2, <1>3, <1>13, <2>1, <2>2 DEF ListsMatch
<1>17. BlocksAccounted'
  <2>1. \A x \in Reqs : /\ blocks'[x] > 0 => x \in Elems(running')
                        /\ swap_blocks'[x] > 0 <=> x \in Elems(swapped')
    BY <1>1, <1>2, <1>3, <1>4, <1>8 DEF BlocksAccounted
  <2> QED
    BY <1>11, <2>1 DEF BlocksAccounted
<1>18. TokensByStatus'
  <2>1. ASSUME NEW x \in A
        PROVE  /\ out'[x] <= MaxNew[x]
               /\ status'[x] = "RUNNING" => out'[x] >= 1 /\ out'[x] < MaxNew[x]
    <3>1. x \in Reqs /\ out[x] < MaxNew[x] /\ out[x] >= 1
      BY <1>1, <1>3 DEF TokensByStatus
    <3>2. out[x] \in Nat /\ MaxNew[x] \in Nat
      BY <3>1, Numbers
    <3> QED
      BY <1>8, <1>14, <3>1, <3>2
  <2>2. ASSUME NEW x \in Reqs \ A
        PROVE  /\ out'[x] <= MaxNew[x]
               /\ status'[x] \in {"NEW", "WAITING", "PREFILLING"} => out'[x] = 0
               /\ status'[x] \in {"RUNNING", "SWAPPED"} => out'[x] >= 1 /\ out'[x] < MaxNew[x]
    BY <1>1, <1>8, <1>13 DEF TokensByStatus
  <2>3. \A x \in A : status'[x] \notin {"NEW", "WAITING", "PREFILLING"} /\ status'[x] # "SWAPPED"
    BY <1>13
  <2> QED
    BY <2>1, <2>2, <2>3 DEF TokensByStatus
<1>19. CachedByStatus'
  <2>1. ASSUME NEW x \in A
        PROVE  ctx'[x] <= blocks'[x] * BlockSize /\ ctx'[x] >= PromptLen[x]
    <3>1. x \in Reqs
      BY <1>3
    <3>2. /\ ctx[x] + 1 <= (blocks[x] + 1) * BlockSize
          /\ Missing(x, 1) \in Nat
          /\ Missing(x, 1) = 0 => ctx[x] + 1 <= blocks[x] * BlockSize
      BY <3>1, OneMore
    <3>3. ctx[x] >= PromptLen[x] /\ ctx[x] \in Nat /\ PromptLen[x] \in Nat
      BY <1>1, <1>3, <3>1, Numbers DEF CachedByStatus
    <3>4. ctx'[x] = ctx[x] + 1
      BY <1>8
    <3>5. CASE x \in N
      BY <1>8, <3>2, <3>3, <3>4, <3>5
    <3>6. CASE x \notin N
      <4>1. Missing(x, 1) = 0 /\ blocks'[x] = blocks[x]
        BY <1>4, <1>8, <3>1, <3>2, <3>6
      <4> QED
        BY <3>2, <3>3, <3>4, <4>1
    <3> QED
      BY <3>5, <3>6
  <2>2. ASSUME NEW x \in Reqs \ A
        PROVE  /\ ctx'[x] <= blocks'[x] * BlockSize
               /\ status'[x] = "PREFILLING" => ctx'[x] < PromptLen[x]
               /\ status'[x] = "RUNNING" => ctx'[x] >= PromptLen[x]
    <3>1. x \notin N
      BY <1>4
    <3> QED
      BY <1>1, <1>8, <1>13, <3>1 DEF CachedByStatus
  <2>3. \A x \in A : status'[x] # "PREFILLING"
    BY <1>13
  <2>4. \A x \in Reqs : x \in Elems(swapped') =>
           swap_ctx'[x] >= PromptLen[x] /\ swap_ctx'[x] <= swap_blocks'[x] * BlockSize
    BY <1>1, <1>2 DEF CachedByStatus
  <2> QED
    BY <2>1, <2>2, <2>3, <2>4 DEF CachedByStatus
<1>20. LoopsInOrder'
  <2>1. ASSUME NEW x \in Reqs, status'[x] = "RUNNING", gained'[x] = 0 PROVE FALSE
    <3>1. CASE x \in A
      BY <1>7, <1>8, <2>1, <3>1
    <3>2. CASE x \notin A
      BY <1>3, <1>8, <1>13, <2>1, <3>2 DEF Unserved
    <3> QED
      BY <3>1, <3>2
  <2> QED
    BY <1>2, <2>1 DEF LoopsInOrder, Unserved
<1>21. GainsInOrder'
  <2>1. \A x \in A : gained'[x] = 1
    <3>1. \A x \in A : gained'[x] = gained[x] + 1 /\ gained[x] = 0
      BY <1>3, <1>8
    <3> QED
      BY ONLY <3>1
  <2>2. \A x \in Reqs \ A : gained'[x] = gained[x] /\ status'[x] = status[x]
    BY <1>8, <1>13
  <2> QED
    BY <1>1, <1>2, <2>1, <2>2 DEF GainsInOrder
<1> QED
  BY <1>1, <1>2, <1>15, <1>16, <1>17, <1>18, <1>19, <1>20, <1>21 DEF IInv, PlanFits

\* The lanes of a batch, and the blocks they ask for, one lane after the other.
LEMMA LanesOf ==
    ASSUME IInv, phase = "decode"
    PROVE  /\ GraphBatch \in Seq(Reqs) /\ Elems(GraphBatch) = Elems(batch) \cap InGraph
           /\ Needing(GraphBatch) \in Seq(Reqs)
           /\ Elems(Needing(GraphBatch)) = {x \in Elems(GraphBatch) : Missing(x, 1) > 0}
           /\ Needing(EagerBatch) \in Seq(Reqs)
           /\ Elems(Needing(EagerBatch)) \subseteq Elems(batch) \ InGraph
           /\ Needing(GraphBatch) \o Needing(EagerBatch) \in Seq(Reqs)
           /\ IsInjective(Needing(GraphBatch) \o Needing(EagerBatch))
           /\ Elems(Needing(GraphBatch) \o Needing(EagerBatch)) \subseteq Elems(batch)
<1>1. batch \in Seq(Reqs) /\ IsInjective(batch)
  BY BatchOf
<1>2. /\ GraphBatch \in Seq(Reqs) /\ IsInjective(GraphBatch)
      /\ Elems(GraphBatch) = Elems(batch) \cap InGraph
  BY <1>1, OnlyOf DEF GraphBatch
<1>3. /\ EagerBatch \in Seq(Reqs) /\ IsInjective(EagerBatch)
      /\ Elems(EagerBatch) = Elems(batch) \cap (Reqs \ InGraph)
  BY <1>1, OnlyOf DEF EagerBatch
<1>4. /\ Needing(GraphBatch) \in Seq(Reqs) /\ IsInjective(Needing(GraphBatch))
      /\ Elems(Needing(GraphBatch)) = {x \in Elems(GraphBatch) : Missing(x, 1) > 0}
  BY <1>2, NeedingOf
<1>5. /\ Needing(EagerBatch) \in Seq(Reqs) /\ IsInjective(Needing(EagerBatch))
      /\ Elems(Needing(EagerBatch)) = {x \in Elems(EagerBatch) : Missing(x, 1) > 0}
  BY <1>3, NeedingOf
<1> DEFINE p == Needing(GraphBatch)
           q == Needing(EagerBatch)
<1>6. /\ p \in Seq(Reqs) /\ IsInjective(p) /\ q \in Seq(Reqs) /\ IsInjective(q)
      /\ Elems(p) \subseteq Elems(batch) \cap InGraph /\ Elems(q) \subseteq Elems(batch) \ InGraph
  BY <1>2, <1>3, <1>4, <1>5
<1> HIDE DEF p, q
<1>7. Elems(p) \cap Elems(q) = {}
  BY <1>6
<1>8. /\ p \o q \in Seq(Reqs) /\ Elems(p \o q) = Elems(p) \cup Elems(q) /\ IsInjective(p \o q)
  BY ONLY <1>6, <1>7, ConcatList
<1>9. Elems(p \o q) \subseteq Elems(batch)
  BY <1>6, <1>8
<1> QED
  BY <1>2, <1>4, <1>6, <1>8, <1>9 DEF p, q

LEMMA DecodeOOMKeeps ==
    ASSUME IInv, DecodeOOM
    PROVE  IInv'
<1> DEFINE v        == Last(batch)
           graph    == Needing(GraphBatch)
           eager    == Needing(EagerBatch)
           order    == graph \o eager
           served   == {order[i] : i \in 1 .. num_free}
           advanced == IF Len(graph) <= num_free THEN Elems(GraphBatch) ELSE {}
           b == [r \in Reqs |-> IF r \in served THEN blocks[r] + 1 ELSE blocks[r]]
           c == [r \in Reqs |-> IF r \in advanced THEN ctx[r] + 1 ELSE ctx[r]]
<1>1. /\ phase = "decode" /\ Len(order) > num_free /\ Preempt(v, b, c, 0)
      /\ batch' = SubSeq(batch, 1, Len(batch) - 1)
      /\ phase' = IF Len(batch) = 1 THEN "finish" ELSE "decode"
      /\ UNCHANGED <<leaked, todo, budget, gained, beamVars, plan>>
  BY DEF DecodeOOM
<1>2. /\ batch \in Seq(Reqs) /\ IsInjective(batch) /\ batch # <<>> /\ Elems(batch) = Unserved
      /\ Unserved \subseteq Reqs
      /\ \A x \in Elems(batch) : status[x] = "RUNNING" /\ gained[x] = 0 /\ x \in Elems(running)
  BY <1>1, BatchOf
<1>3. /\ batch' \in Seq(Reqs) /\ IsInjective(batch') /\ Elems(batch') = Elems(batch) \ {v}
      /\ v \in Elems(batch) /\ v \in Reqs
      /\ Len(batch) # 1 => batch' # <<>>
      /\ Len(batch) = 1 => Elems(batch') = {}
  BY <1>1, <1>2, AllButLast
<1>4. /\ Elems(GraphBatch) \subseteq Elems(batch)
      /\ graph \in Seq(Reqs) /\ Elems(graph) = {x \in Elems(GraphBatch) : Missing(x, 1) > 0}
      /\ eager \in Seq(Reqs)
      /\ order \in Seq(Reqs) /\ IsInjective(order) /\ Elems(order) \subseteq Elems(batch)
  BY <1>1, LanesOf
<1>5. /\ blocks \in [Reqs -> Nat] /\ ctx \in [Reqs -> Nat] /\ num_free \in Nat /\ leaked \in Nat
      /\ num_free + SumFunctionOnSet(blocks, Reqs) + leaked = NumBlocks
      /\ \A x \in Reqs : blocks[x] > 0 => x \in Elems(running)
      /\ \A x \in Reqs : ctx[x] <= blocks[x] * BlockSize
      /\ todo \in Seq(Reqs \cup Groups)
  BY DEF IInv, TypeOK, BlocksAccounted, CachedByStatus
<1> HIDE DEF v
<1>6. /\ Len(order) \in Nat /\ Len(graph) \in Nat /\ DOMAIN order = 1 .. Len(order)
      /\ \A i \in 1 .. Len(graph) : order[i] = graph[i]
  BY <1>4
<1>7. Len(graph) <= num_free => Elems(graph) \subseteq served
  <2>1. \A i \in 1 .. Len(graph) : Len(graph) <= num_free => i \in 1 .. num_free
    BY <1>5, <1>6
  <2>2. \A x \in Elems(graph) : \E i \in 1 .. Len(graph) : graph[i] = x
    BY <1>4, ElemsOf
  <2> HIDE DEF graph, order
  <2> QED
    BY <1>6, <2>1, <2>2
<1> HIDE DEF graph, eager, order
<1>8. Cardinality(served) = num_free
  <2>1. order \in Seq(Reqs) /\ IsInjective(order) /\ num_free \in Nat /\ num_free <= Len(order)
    BY <1>1, <1>4, <1>5, <1>6
  <2> QED
    BY ONLY <2>1, PrefixCounts
<1>9. served \subseteq Elems(batch)
  <2>1. \A i \in 1 .. num_free : i \in DOMAIN order
    BY <1>1, <1>5, <1>6
  <2>2. \A i \in 1 .. num_free : order[i] \in Elems(order)
    BY <2>1 DEF Elems
  <2> QED
    BY <1>4, <2>2
<1>10. /\ advanced \subseteq Elems(batch)
       /\ \A x \in advanced : Missing(x, 1) > 0 => x \in served
  <2> HIDE DEF served
  <2> QED
    BY <1>4, <1>7
<1> HIDE DEF served, advanced
<1>11. /\ b \in [Reqs -> Nat] /\ c \in [Reqs -> Nat]
       /\ \A x \in served : b[x] = blocks[x] + 1
       /\ \A x \in Reqs \ served : b[x] = blocks[x]
       /\ \A x \in advanced : c[x] = ctx[x] + 1
       /\ \A x \in Reqs \ advanced : c[x] = ctx[x]
  <2>1. served \subseteq Reqs /\ advanced \subseteq Reqs
    BY <1>2, <1>9, <1>10
  <2>2. \A x \in Reqs : blocks[x] \in Nat /\ blocks[x] + 1 \in Nat /\ ctx[x] \in Nat /\ ctx[x] + 1 \in Nat
    BY <1>5
  <2>3. b \in [Reqs -> Nat] /\ c \in [Reqs -> Nat]
    BY <2>2
  <2> QED
    BY <2>1, <2>3
<1> HIDE DEF b, c
<1>12. SumFunctionOnSet(b, Reqs) + leaked = NumBlocks
  <2>1. /\ IsFiniteSet(Reqs) /\ served \in SUBSET Reqs /\ 1 \in Int
        /\ \A x \in Reqs : blocks[x] \in Nat /\ b[x] \in Nat
        /\ \A x \in served : b[x] = blocks[x] + 1
    BY <1>2, <1>5, <1>9, <1>11, RequestsAssumption
  <2>2. \A x \in Reqs \ served : b[x] = blocks[x]
    BY <1>11
  <2>3. SumFunctionOnSet(b, Reqs) = SumFunctionOnSet(blocks, Reqs) + 1 * Cardinality(served)
    BY ONLY <2>1, <2>2, SumShifts
  <2>4. SumFunctionOnSet(blocks, Reqs) \in Nat
    BY <2>1, SumInNat
  <2> QED
    BY <1>5, <1>8, <2>3, <2>4
<1>13. \A x \in Reqs : c[x] <= b[x] * BlockSize /\ c[x] >= ctx[x]
  <2> TAKE x \in Reqs
  <2>1. /\ ctx[x] + 1 <= (blocks[x] + 1) * BlockSize
        /\ Missing(x, 1) \in Nat
        /\ Missing(x, 1) = 0 => ctx[x] + 1 <= blocks[x] * BlockSize
    BY OneMore
  <2>2. /\ ctx[x] \in Nat /\ blocks[x] \in Nat /\ b[x] \in Nat
        /\ b[x] = blocks[x] \/ b[x] = blocks[x] + 1
        /\ c[x] = ctx[x] \/ (c[x] = ctx[x] + 1 /\ x \in advanced)
    BY <1>5, <1>11
  <2>3. ctx[x] <= b[x] * BlockSize
    <3>1. blocks[x] <= b[x] /\ ctx[x] <= blocks[x] * BlockSize
      BY <1>5, <2>2
    <3> QED
      BY ONLY <2>2, <3>1, MoreCovers
  <2>4. CASE x \in advanced /\ c[x] = ctx[x] + 1
    <3>1. CASE x \in served
      BY <1>11, <2>1, <2>2, <2>4, <3>1
    <3>2. CASE x \notin served
      <4>1. Missing(x, 1) = 0 /\ b[x] = blocks[x]
        BY <1>10, <1>11, <2>1, <2>4, <3>2
      <4> QED
        BY <2>1, <2>2, <2>4, <4>1
    <3> QED
      BY <3>1, <3>2
  <2> QED
    BY <2>2, <2>3, <2>4
<1>14. \A x \in Reqs : b[x] > 0 => x \in Elems(running)
  BY <1>2, <1>5, <1>9, <1>11
<1>15. \A x \in Reqs : status[x] = "PREFILLING" => c[x] = ctx[x]
  BY <1>2, <1>10, <1>11
<1>16. /\ phase \in {"draft", "decode"} /\ phase' \in {"draft", "decode", "finish"}
       /\ status[v] = "RUNNING" /\ todo' \in Seq(Reqs \cup Groups)
       /\ UNCHANGED <<leaked, budget, gained, beamVars, plan>> /\ IInv
  BY <1>1, <1>2, <1>3, <1>5
<1>17. Unserved' = Unserved \ {v} /\ (LoopsInOrder' => IInv')
  BY ONLY <1>1, <1>3, <1>11, <1>12, <1>13, <1>14, <1>15, <1>16, PreemptKeeps
<1>18. LoopsInOrder'
  BY <1>1, <1>2, <1>3, <1>17 DEF LoopsInOrder
<1> QED
  BY <1>17, <1>18

-----------------------------------------------------------------------------
(* The invariant *)

LEMMA StutterKeeps ==
    ASSUME IInv, UNCHANGED vars
    PROVE  IInv'
BY DEF vars, queueVars, seqVars, cacheVars, stepVars, beamVars, IInv, TypeOK, PlanFits,
       ListsMatch, BlocksAccounted, TokensByStatus, CachedByStatus, LoopsInOrder, Unserved,
       GainsInOrder

LEMMA InitHolds == Init => IInv
<1> SUFFICES ASSUME Init PROVE IInv
  OBVIOUS
<1> USE DEF Init
<1>1. 0 \in Nat /\ 0 \in 0 .. NumBlocks /\ NumBlocks \in 0 .. NumBlocks /\ 0 \in 0 .. ChunkBudget
      /\ 0 <= 0 * BlockSize /\ NumBlocks \in Nat
  BY SizesAssumption
<1>2. TypeOK
  BY <1>1, EmptyList DEF TypeOK
<1>3. ListsMatch
  BY EmptyList DEF ListsMatch
<1>4. BlocksAccounted
  <2>1. SumFunctionOnSet(blocks, Reqs) = 0
    <3>1. /\ IsFiniteSet(Reqs) /\ Reqs \in SUBSET Reqs /\ \A x \in Reqs : blocks[x] \in Nat
          /\ \A x \in Reqs : blocks[x] = 0
          /\ \A x \in Reqs \ Reqs : blocks[x] = blocks[x]
      BY RequestsAssumption
    <3>2. SumFunctionOnSet(blocks, Reqs) + SumFunctionOnSet(blocks, Reqs) = SumFunctionOnSet(blocks, Reqs)
      BY ONLY <3>1, SumClears
    <3>3. SumFunctionOnSet(blocks, Reqs) \in Nat
      BY <3>1, SumInNat
    <3> DEFINE s == SumFunctionOnSet(blocks, Reqs)
    <3>4. s + s = s /\ s \in Nat
      BY <3>2, <3>3
    <3> HIDE DEF s
    <3>5. s = 0
      BY ONLY <3>4
    <3> QED
      BY <3>5 DEF s
  <2>2. num_free + SumFunctionOnSet(blocks, Reqs) + leaked = NumBlocks
    BY <1>1, <2>1
  <2> QED
    BY <2>2, EmptyList DEF BlocksAccounted
<1>5. TokensByStatus
  BY RequestsAssumption DEF TokensByStatus
<1>6. CachedByStatus
  BY <1>1, EmptyList DEF CachedByStatus
<1>7. PlanFits /\ LoopsInOrder /\ GainsInOrder
  BY DEF PlanFits, LoopsInOrder, GainsInOrder
<1> QED
  BY <1>2, <1>3, <1>4, <1>5, <1>6, <1>7 DEF IInv

LEMMA StepKeeps == IInv /\ [Next]_vars => IInv'
<1> SUFFICES ASSUME IInv, [Next]_vars PROVE IInv'
  OBVIOUS
<1>1. ASSUME NEW r \in Reqs, AddRequest(r) \/ Cancel(r) PROVE IInv'
  BY <1>1, AddRequestKeeps, CancelKeeps
<1>2. ASSUME NEW g \in Groups, AddBeamRequest(g) \/ CancelBeam(g) PROVE IInv'
  BY <1>2, BeamRequestsKeep
<1>3. CASE StepLoop
  BY <1>3, BeginStepKeeps, SwapInHeadKeeps, SwapInDoneKeeps, AdmitHeadKeeps, ContinueChunkKeeps,
     AdmitChunkKeeps, PrefillDoneKeeps, NoDraftKeeps, SpeculateHitKeeps, SpeculateOOMKeeps,
     DraftsDoneKeeps, DecodeBatchKeeps, DecodeOOMKeeps, FinishSequencesKeeps, StepBeamGroupKeeps
     DEF StepLoop
<1>4. CASE Idle \/ Dead \/ UNCHANGED vars
  BY <1>4, StutterKeeps DEF Idle, Dead
<1> QED
  BY <1>1, <1>2, <1>3, <1>4 DEF Next

\* The queues, the books, the tokens, the contexts and the loops of a step fit
\* together in every reachable state, for every setting.
THEOREM Invariance == Spec => []IInv
<1>1. Init => IInv
  BY InitHolds
<1>2. IInv /\ [Next]_vars => IInv'
  BY StepKeeps
<1> QED
  BY <1>1, <1>2, PTL DEF Spec

\* Every variable has its type, whatever the settings.
THEOREM TypeCorrect == Spec => []TypeOK
<1>1. IInv => TypeOK
  BY DEF IInv
<1> QED
  BY <1>1, Invariance, PTL

\* Submission, admission, preemption, swap-in, finishing and cancelling
\* (scheduler.py:84-520) leave every request in the one list its status says,
\* once: none is lost, none is scheduled twice.
THEOREM HomeIsOne == Spec => []OneHome
<1>1. ASSUME IInv PROVE OneHome
  <2>1. /\ waiting \in Seq(Reqs) /\ IsInjective(waiting)
        /\ running \in Seq(Reqs) /\ IsInjective(running)
        /\ swapped \in Seq(Reqs) /\ IsInjective(swapped)
    BY <1>1 DEF IInv, TypeOK, ListsMatch
  <2>2. SUFFICES ASSUME NEW r \in Reqs
                 PROVE  /\ Times(waiting, r) = IF Home[status[r]] = "waiting" THEN 1 ELSE 0
                        /\ phase # "dead" =>
                             Times(swapped, r) = IF Home[status[r]] = "swapped" THEN 1 ELSE 0
                        /\ status[r] # "FINISHED" =>
                             Times(running, r) = IF Home[status[r]] = "running" THEN 1 ELSE 0
                        /\ phase = "idle" => status[r] # "FINISHED" \/ Times(running, r) = 0
    BY <2>2 DEF OneHome
  <2>3. /\ Times(waiting, r) = IF r \in Elems(waiting) THEN 1 ELSE 0
        /\ Times(running, r) = IF r \in Elems(running) THEN 1 ELSE 0
        /\ Times(swapped, r) = IF r \in Elems(swapped) THEN 1 ELSE 0
    BY <2>1, OccursOnce
  <2>4. status[r] \in {"NEW", "WAITING", "PREFILLING", "RUNNING", "SWAPPED", "FINISHED", "CANCELLED"}
    BY <1>1 DEF IInv, TypeOK
  <2>5. /\ Home[status[r]] = "waiting" <=> status[r] = "WAITING"
        /\ Home[status[r]] = "swapped" <=> status[r] = "SWAPPED"
        /\ Home[status[r]] = "running" <=> status[r] \in {"PREFILLING", "RUNNING"}
    BY <2>4 DEF Home
  <2>6. /\ r \in Elems(waiting) <=> status[r] = "WAITING"
        /\ r \in Elems(swapped) => status[r] = "SWAPPED"
        /\ status[r] = "SWAPPED" /\ phase # "dead" => r \in Elems(swapped)
        /\ r \in Elems(running) => status[r] \in {"PREFILLING", "RUNNING", "FINISHED"}
        /\ status[r] \in {"PREFILLING", "RUNNING"} => r \in Elems(running)
        /\ status[r] = "FINISHED" /\ phase = "idle" => r \notin Elems(running)
    BY <1>1 DEF IInv, ListsMatch
  <2> QED
    BY ONLY <2>3, <2>4, <2>5, <2>6
<1> QED
  BY <1>1, Invariance, PTL

\* Every block is free, in one table or leaked by an exception; only running
\* sequences have a table, only swapped ones a snapshot (scheduler.py:293-305,
\* 338-382), whatever lanes and settings are in use.
THEOREM BooksBalance == Spec => []BlocksAccounted
<1>1. IInv => BlocksAccounted
  BY DEF IInv
<1> QED
  BY <1>1, Invariance, PTL

\* Without speculation every decodable sequence gets exactly one token in a
\* step, though a step may prefill it, decode it, or start its batch over after
\* a preemption (scheduler.py:338-382, 465-473).
THEOREM OneTokenEach ==
    ASSUME MaxDraft = 0
    PROVE  Spec => []OneTokenPerStep
<1>1. ASSUME IInv PROVE OneTokenPerStep
  <2>1. SUFFICES ASSUME phase = "finish", NEW r \in Elems(running), status[r] # "PREFILLING"
                 PROVE  gained[r] = 1
    BY DEF OneTokenPerStep
  <2>2. r \in Reqs
    <3>1. running \in Seq(Reqs)
      BY <1>1 DEF IInv, TypeOK
    <3> QED
      BY <3>1, ElemsOf
  <2>3. gained[r] \in Nat /\ gained[r] <= 1
    BY <1>1, <2>1, <2>2, Numbers DEF IInv, GainsInOrder
  <2>4. CASE status[r] = "FINISHED"
    BY <1>1, <2>1, <2>2, <2>3, <2>4 DEF IInv, GainsInOrder
  <2>5. CASE status[r] = "RUNNING"
    <3>1. gained[r] # 0
      BY <1>1, <2>1, <2>2, <2>5 DEF IInv, LoopsInOrder, Unserved
    <3> QED
      BY <2>3, <3>1
  <2> QED
    BY <1>1, <2>1, <2>2, <2>4, <2>5 DEF IInv, ListsMatch
<1> QED
  BY <1>1, Invariance, PTL

\* Speculation or not, no decodable sequence is passed over by a step, and none
\* is ever given more than its max_new_tokens.
THEOREM SomeTokenEach == Spec => []SomeTokenPerStep
<1>1. ASSUME IInv PROVE SomeTokenPerStep
  <2>1. \A r \in Reqs : out[r] <= MaxNew[r]
    BY <1>1 DEF IInv, TokensByStatus
  <2>2. ASSUME phase = "finish", NEW r \in Elems(running), status[r] # "PREFILLING"
        PROVE  gained[r] >= 1
    <3>1. r \in Reqs
      <4>1. running \in Seq(Reqs)
        BY <1>1 DEF IInv, TypeOK
      <4> QED
        BY <4>1, ElemsOf
    <3>2. gained[r] \in Nat
      BY <1>1, <3>1, Numbers
    <3>3. CASE status[r] = "FINISHED"
      BY <1>1, <2>2, <3>1, <3>3 DEF IInv, GainsInOrder
    <3>4. CASE status[r] = "RUNNING"
      <4>1. gained[r] # 0
        BY <1>1, <2>2, <3>1, <3>4 DEF IInv, LoopsInOrder, Unserved
      <4> QED
        BY <3>2, <4>1
    <3> QED
      BY <1>1, <2>2, <3>1, <3>3, <3>4 DEF IInv, ListsMatch
  <2> QED
    BY <2>1, <2>2 DEF SomeTokenPerStep
<1> QED
  BY <1>1, Invariance, PTL

-----------------------------------------------------------------------------
(* What is cached, exactly *)

\* Nothing that ExactlyCached is about changes.
LEMMA ExactUnchanged ==
    ASSUME ExactlyCached, UNCHANGED <<status, out, ctx, swapped, swap_ctx>>
    PROVE  ExactlyCached'
BY DEF ExactlyCached

LEMMA ExactCancel ==
    ASSUME IInv, ExactlyCached, NEW r \in Reqs, Cancel(r)
    PROVE  ExactlyCached'
<1>1. Elems(swapped') = Elems(swapped) \ {r}
  BY WithoutOne DEF IInv, TypeOK, Cancel
<1>2. /\ status'[r] = "CANCELLED" /\ out' = out
      /\ \A x \in Reqs \ {r} : /\ status'[x] = status[x] /\ ctx'[x] = ctx[x]
                               /\ swap_ctx'[x] = swap_ctx[x]
  BY DEF Cancel, IInv, TypeOK
<1> QED
  BY <1>1, <1>2 DEF ExactlyCached

LEMMA ExactSwapIn ==
    ASSUME IInv, ExactlyCached, SwapInHead
    PROVE  ExactlyCached'
<1> DEFINE r == Head(swapped)
<1>1. swapped \in Seq(Reqs) /\ swapped # <<>> /\ IsInjective(swapped)
  BY DEF IInv, TypeOK, ListsMatch, SwapInHead
<1>2. r \in Reqs /\ r \in Elems(swapped) /\ Elems(Tail(swapped)) = Elems(swapped) \ {r}
  BY <1>1, HeadAndTail
<1>3. /\ swapped' = Tail(swapped) /\ swap_ctx' = [swap_ctx EXCEPT ![r] = 0] /\ out' = out
      /\ \/ /\ ctx' = [ctx EXCEPT ![r] = swap_ctx[r]]
            /\ status' = [status EXCEPT ![r] = "RUNNING"]
         \/ UNCHANGED <<ctx, status>>
  BY DEF SwapInHead
<1> HIDE DEF r
<1>4. status[r] = "SWAPPED" /\ DOMAIN ctx = Reqs /\ DOMAIN status = Reqs /\ DOMAIN swap_ctx = Reqs
  BY <1>2 DEF IInv, ListsMatch, TypeOK
<1>5. \A x \in Elems(swapped') \cap Reqs : x \in Elems(swapped) /\ swap_ctx'[x] = swap_ctx[x]
  BY <1>2, <1>3, <1>4
<1>6. \A x \in Reqs : status'[x] = "RUNNING" =>
         \/ status[x] = "RUNNING" /\ ctx'[x] = ctx[x]
         \/ x = r /\ ctx'[x] = swap_ctx[x]
  <2>1. CASE ctx' = [ctx EXCEPT ![r] = swap_ctx[r]] /\ status' = [status EXCEPT ![r] = "RUNNING"]
    BY <1>2, <1>4, <2>1
  <2>2. CASE UNCHANGED <<ctx, status>>
    BY <2>2
  <2> QED
    BY <1>3, <2>1, <2>2
<1> QED
  BY <1>2, <1>3, <1>5, <1>6 DEF ExactlyCached

LEMMA ExactPrefill ==
    ASSUME IInv, ExactlyCached, NEW r \in Reqs, NEW n \in Nat, PrefillTokens(r, n),
           out[r] = 0, r \notin Elems(swapped), UNCHANGED <<swapped, swap_ctx>>
    PROVE  ExactlyCached'
<1>1. ctx[r] \in Nat /\ PromptLen[r] \in Nat /\ DOMAIN ctx = Reqs /\ DOMAIN status = Reqs /\ DOMAIN out = Reqs
  BY Numbers DEF IInv, TypeOK
<1>2. \/ status' = [status EXCEPT ![r] = "PREFILLING"] /\ out' = out /\ ctx' = ctx
      \/ status' = [status EXCEPT ![r] = "PREFILLING"] /\ out' = out /\ ctx' = [ctx EXCEPT ![r] = @ + n]
      \/ /\ ctx[r] + n = PromptLen[r] /\ ctx' = [ctx EXCEPT ![r] = @ + n]
         /\ out' = [out EXCEPT ![r] = @ + 1]
         /\ \E st : status' = [status EXCEPT ![r] = st]
  BY DEF PrefillTokens
<1>3. \A x \in Reqs \ {r} : status'[x] = status[x] /\ out'[x] = out[x] /\ ctx'[x] = ctx[x]
  BY <1>1, <1>2
<1>4. status'[r] = "RUNNING" => ctx'[r] = PromptLen[r] /\ out'[r] = 1
  BY <1>1, <1>2
<1>5. status'[r] = "RUNNING" => ctx'[r] = PromptLen[r] + out'[r] - 1
  BY <1>1, <1>4
<1> QED
  BY <1>3, <1>5 DEF ExactlyCached

LEMMA ExactSpeculation ==
    ASSUME IInv, ExactlyCached, SpeculateHit
    PROVE  ExactlyCached'
<1> DEFINE r    == Head(todo)
           D    == Draft(r)
           hits == plan[r][out[r]].hits
<1>1. /\ phase = "draft" /\ todo # <<>> /\ D > 0
      /\ \E kept \in 1 .. hits + 1 : \E st \in StatusAfter(r, out[r] + kept) :
            /\ kept < hits + 1 => st = "FINISHED"
            /\ out' = [out EXCEPT ![r] = @ + kept]
            /\ status' = [status EXCEPT ![r] = st]
            /\ ctx' = [ctx EXCEPT ![r] = @ + 1 + D - Rollback(D, hits, kept)]
      /\ UNCHANGED <<swapped, swap_ctx>>
  BY DEF SpeculateHit, queueVars, swapVars
<1>2. r \in Reqs /\ status[r] = "RUNNING"
  BY <1>1, DraftHead
<1> HIDE DEF r
<1>3. D \in Nat /\ hits \in Nat /\ hits <= D
  BY <1>1, <1>2, DraftFits
<1> HIDE DEF D, hits
<1>kept. PICK kept \in 1 .. hits + 1 : \E st \in StatusAfter(r, out[r] + kept) :
         /\ kept < hits + 1 => st = "FINISHED"
         /\ out' = [out EXCEPT ![r] = @ + kept]
         /\ status' = [status EXCEPT ![r] = st]
         /\ ctx' = [ctx EXCEPT ![r] = @ + 1 + D - Rollback(D, hits, kept)]
  BY <1>1
<1>4. PICK st \in StatusAfter(r, out[r] + kept) :
         /\ kept < hits + 1 => st = "FINISHED"
         /\ out' = [out EXCEPT ![r] = @ + kept]
         /\ status' = [status EXCEPT ![r] = st]
         /\ ctx' = [ctx EXCEPT ![r] = @ + 1 + D - Rollback(D, hits, kept)]
  BY <1>kept
<1>5. /\ ctx[r] \in Nat /\ out[r] \in Nat /\ PromptLen[r] \in Nat
      /\ DOMAIN ctx = Reqs /\ DOMAIN status = Reqs /\ DOMAIN out = Reqs
  BY <1>2, Numbers DEF IInv, TypeOK
<1>6. \A x \in Reqs \ {r} : status'[x] = status[x] /\ out'[x] = out[x] /\ ctx'[x] = ctx[x]
  BY <1>4, <1>5
<1>7. ctx[r] = PromptLen[r] + out[r] - 1 /\ r \notin Elems(swapped)
  BY <1>2 DEF ExactlyCached, IInv, ListsMatch
<1>8. ASSUME status'[r] = "RUNNING" PROVE ctx'[r] = PromptLen[r] + out'[r] - 1
  <2>1. st = "RUNNING"
    BY <1>2, <1>4, <1>5, <1>8
  <2>2. kept = hits + 1
    BY <1>3, <1>4, <2>1
  <2>3. Rollback(D, hits, kept) = D - hits
    BY <1>3, <2>2 DEF Rollback, Lesser
  <2>4. ctx'[r] = ctx[r] + 1 + D - (D - hits) /\ out'[r] = out[r] + (hits + 1)
    BY <1>2, <1>4, <1>5, <2>2, <2>3
  <2> QED
    BY <1>3, <1>5, <1>7, <2>4
<1> QED
  BY <1>1, <1>6, <1>7, <1>8 DEF ExactlyCached

LEMMA ExactPreempt ==
    ASSUME IInv, ExactlyCached, NEW v \in Reqs, status[v] = "RUNNING", NEW b, NEW free,
           Preempt(v, b, ctx, free)
    PROVE  ExactlyCached'
<1>1. /\ ctx' = [ctx EXCEPT ![v] = 0]
      /\ \/ /\ swap_ctx' = [swap_ctx EXCEPT ![v] = ctx[v]]
            /\ status' = [status EXCEPT ![v] = "SWAPPED"]
            /\ swapped' = <<v>> \o swapped /\ out' = out
         \/ /\ out' = [out EXCEPT ![v] = 0] /\ status' = [status EXCEPT ![v] = "WAITING"]
            /\ UNCHANGED <<swapped, swap_ctx>>
  BY DEF Preempt, SwapOut, Restart, swapVars
<1>2. /\ swapped \in Seq(Reqs) /\ v \notin Elems(swapped)
      /\ DOMAIN ctx = Reqs /\ DOMAIN status = Reqs /\ DOMAIN out = Reqs /\ DOMAIN swap_ctx = Reqs
      /\ ctx[v] = PromptLen[v] + out[v] - 1
  BY DEF IInv, TypeOK, ListsMatch, ExactlyCached
<1>3. Elems(<<v>> \o swapped) = Elems(swapped) \cup {v}
  BY <1>2, ConsList
<1>4. CASE /\ swap_ctx' = [swap_ctx EXCEPT ![v] = ctx[v]]
           /\ status' = [status EXCEPT ![v] = "SWAPPED"]
           /\ swapped' = <<v>> \o swapped /\ out' = out
  <2>1. /\ swap_ctx'[v] = PromptLen[v] + out'[v] - 1 /\ status'[v] = "SWAPPED"
        /\ \A x \in Reqs \ {v} : /\ swap_ctx'[x] = swap_ctx[x] /\ status'[x] = status[x]
                                 /\ ctx'[x] = ctx[x]
    BY <1>1, <1>2, <1>4
  <2>2. \A x \in Reqs \ {v} : x \in Elems(swapped') => x \in Elems(swapped)
    BY <1>3, <1>4
  <2> QED
    BY <1>4, <2>1, <2>2 DEF ExactlyCached
<1>5. CASE /\ out' = [out EXCEPT ![v] = 0] /\ status' = [status EXCEPT ![v] = "WAITING"]
           /\ UNCHANGED <<swapped, swap_ctx>>
  <2>1. /\ status'[v] = "WAITING"
        /\ \A x \in Reqs \ {v} : out'[x] = out[x] /\ status'[x] = status[x] /\ ctx'[x] = ctx[x]
    BY <1>1, <1>2, <1>5
  <2> QED
    BY <1>2, <1>5, <2>1 DEF ExactlyCached
<1> QED
  BY <1>1, <1>4, <1>5

LEMMA ExactDecode ==
    ASSUME IInv, ExactlyCached, DecodeBatch
    PROVE  ExactlyCached'
<1>1. /\ ctx' = [r \in Reqs |-> IF r \in Elems(batch) THEN ctx[r] + 1 ELSE ctx[r]]
      /\ out' = [r \in Reqs |-> IF r \in Elems(batch) THEN out[r] + 1 ELSE out[r]]
      /\ \E stopped \in SUBSET Elems(batch) :
           status' = [r \in Reqs |-> IF r \in stopped THEN "FINISHED" ELSE status[r]]
      /\ UNCHANGED <<swapped, swap_ctx>> /\ phase = "decode"
  BY DEF DecodeBatch, queueVars, swapVars
<1>2. \A x \in Elems(batch) : status[x] = "RUNNING"
  BY <1>1, BatchOf
<1>3. \A x \in Reqs : status'[x] = status[x] \/ status'[x] = "FINISHED"
  BY <1>1
<1>4. ASSUME NEW x \in Reqs, status'[x] = "RUNNING" PROVE ctx'[x] = PromptLen[x] + out'[x] - 1
  <2>1. ctx[x] = PromptLen[x] + out[x] - 1
    BY <1>3, <1>4 DEF ExactlyCached
  <2>2. ctx[x] \in Nat /\ out[x] \in Nat /\ PromptLen[x] \in Nat
    BY Numbers
  <2>3. \/ ctx'[x] = ctx[x] /\ out'[x] = out[x]
        \/ ctx'[x] = ctx[x] + 1 /\ out'[x] = out[x] + 1
    BY <1>1
  <2> QED
    BY ONLY <2>1, <2>2, <2>3
<1>5. ASSUME NEW x \in Reqs, x \in Elems(swapped') PROVE swap_ctx'[x] = PromptLen[x] + out'[x] - 1
  <2>1. x \in Elems(swapped) /\ swap_ctx'[x] = swap_ctx[x]
    BY <1>1, <1>5
  <2>2. x \notin Elems(batch)
    BY <1>2, <2>1 DEF IInv, ListsMatch
  <2> QED
    BY <1>1, <2>1, <2>2 DEF ExactlyCached
<1> QED
  BY <1>4, <1>5 DEF ExactlyCached

LEMMA ExactRetry ==
    ASSUME OneLane, IInv, ExactlyCached, DecodeOOM
    PROVE  ExactlyCached'
<1> DEFINE graph    == Needing(GraphBatch)
           eager    == Needing(EagerBatch)
           order    == graph \o eager
           served   == {order[i] : i \in 1 .. num_free}
           advanced == IF Len(graph) <= num_free THEN Elems(GraphBatch) ELSE {}
           b == [r \in Reqs |-> IF r \in served THEN blocks[r] + 1 ELSE blocks[r]]
           c == [r \in Reqs |-> IF r \in advanced THEN ctx[r] + 1 ELSE ctx[r]]
<1>1. phase = "decode" /\ Len(order) > num_free /\ Preempt(Last(batch), b, c, 0)
  BY DEF DecodeOOM
<1>2. /\ graph \in Seq(Reqs) /\ eager \in Seq(Reqs)
      /\ Elems(GraphBatch) = Elems(batch) \cap InGraph
      /\ Elems(eager) \subseteq Elems(batch) \ InGraph
  BY <1>1, LanesOf
<1>3. /\ batch \in Seq(Reqs) /\ IsInjective(batch) /\ batch # <<>>
      /\ \A x \in Elems(batch) : x \in Reqs /\ status[x] = "RUNNING"
  BY <1>1, BatchOf
<1>4. Last(batch) \in Elems(batch)
  BY <1>3, AllButLast
<1>5. InGraph \in {{}, Reqs}
  BY DEF InGraph, OneLane
<1> HIDE DEF graph, eager
<1>6. advanced = {}
  <2>1. CASE InGraph = {}
    BY <1>2, <2>1
  <2>2. CASE InGraph = Reqs
    <3>1. Elems(eager) = {}
      BY <1>2, <1>3, <2>2
    <3>2. eager = <<>>
      BY <1>2, <3>1, ElemsOf
    <3>3. Len(eager) = 0 /\ Len(graph) \in Nat /\ Len(order) = Len(graph) + Len(eager)
      BY <1>2, <3>2
    <3>4. Len(graph) > num_free
      BY <1>1, <3>3
    <3>5. num_free \in Nat
      BY DEF IInv, TypeOK
    <3>6. ~(Len(graph) <= num_free)
      BY <3>3, <3>4, <3>5
    <3> QED
      BY <3>6
  <2> QED
    BY <1>5, <2>1, <2>2
<1> HIDE DEF advanced, b
<1>7. c = [r \in Reqs |-> ctx[r]]
  BY <1>6
<1>8. c = ctx
  <2>1. ctx \in [Reqs -> Nat]
    BY DEF IInv, TypeOK
  <2> HIDE DEF c
  <2> QED
    BY <1>7, <2>1
<1>9. Preempt(Last(batch), b, ctx, 0)
  BY <1>1, <1>8
<1> QED
  BY <1>3, <1>4, <1>9, ExactPreempt

LEMMA ExactFinish ==
    ASSUME IInv, ExactlyCached, FinishSequences
    PROVE  ExactlyCached'
<1>1. /\ \A x \in Reqs : status[x] # "FINISHED" => ctx'[x] = ctx[x]
      /\ UNCHANGED <<status, out, swapped, swap_ctx>>
  BY DEF FinishSequences, seqVars, swapVars
<1> QED
  BY <1>1 DEF ExactlyCached

LEMMA ExactKept ==
    ASSUME OneLane, IInv, ExactlyCached, [Next]_vars
    PROVE  ExactlyCached'
<1>1. ASSUME NEW r \in Reqs, AddRequest(r) PROVE ExactlyCached'
  <2>1. /\ \A x \in Reqs : status'[x] = "RUNNING" => status[x] = "RUNNING"
        /\ UNCHANGED <<out, ctx, swapped, swap_ctx>>
    BY <1>1 DEF AddRequest, cacheVars, IInv, TypeOK
  <2> QED
    BY <2>1 DEF ExactlyCached
<1>2. ASSUME NEW r \in Reqs, Cancel(r) PROVE ExactlyCached'
  BY <1>2, ExactCancel
<1>3. ASSUME NEW g \in Groups, AddBeamRequest(g) \/ CancelBeam(g) PROVE ExactlyCached'
  BY <1>3, ExactUnchanged DEF AddBeamRequest, CancelBeam, queueVars, seqVars, cacheVars
<1>4. CASE BeginStep \/ SwapInDone \/ PrefillDone \/ NoDraft \/ DraftsDone \/ StepBeamGroup
  BY <1>4, ExactUnchanged DEF BeginStep, SwapInDone, PrefillDone, NoDraft, DraftsDone,
     StepBeamGroup, queueVars, seqVars, cacheVars, swapVars
<1>5. CASE AdmitHead \/ AdmitChunk
  <2> DEFINE r == Head(waiting)
  <2>1. /\ phase = "prefill" /\ waiting # <<>> /\ waiting' = Tail(waiting)
        /\ running' = Append(running, r)
        /\ PrefillTokens(r, PromptLen[r]) \/ PrefillTokens(r, Lesser(budget, PromptLen[r]))
        /\ UNCHANGED <<swapped, swap_ctx>>
    BY <1>5 DEF AdmitHead, AdmitChunk, Admissible, swapVars
  <2>2. r \in Reqs /\ status[r] = "WAITING"
    BY <2>1, AdmissionMoves
  <2> HIDE DEF r
  <2>3. out[r] = 0 /\ r \notin Elems(swapped)
    BY <2>2 DEF IInv, TokensByStatus, ListsMatch
  <2>4. PromptLen[r] \in Nat /\ Lesser(budget, PromptLen[r]) \in Nat
    BY <2>2, Numbers DEF Lesser
  <2> QED
    BY <2>1, <2>2, <2>3, <2>4, ExactPrefill
<1>6. CASE ContinueChunk
  <2> DEFINE r == Head(todo)
  <2>1. /\ phase = "prefill" /\ todo # <<>>
        /\ PrefillTokens(r, Lesser(budget, PromptLen[r] - ctx[r]))
        /\ UNCHANGED <<swapped, swap_ctx>>
    BY <1>6 DEF ContinueChunk, queueVars, swapVars
  <2>2. /\ todo \in Seq(Reqs \cup Groups)
        /\ Elems(todo) \subseteq {x \in Reqs : status[x] = "PREFILLING"}
    BY <2>1 DEF IInv, TypeOK, LoopsInOrder
  <2>3. r \in Elems(todo)
    BY <2>1, <2>2, HeadAndTail
  <2> HIDE DEF r
  <2>4. r \in Reqs /\ status[r] = "PREFILLING"
    BY <2>2, <2>3
  <2>5. out[r] = 0 /\ r \notin Elems(swapped) /\ ctx[r] < PromptLen[r]
    BY <2>4 DEF IInv, TokensByStatus, ListsMatch, CachedByStatus
  <2>6. Lesser(budget, PromptLen[r] - ctx[r]) \in Nat
    <3>1. budget \in Nat /\ PromptLen[r] \in Nat /\ ctx[r] \in Nat
      BY <2>4, Numbers
    <3> QED
      BY <2>5, <3>1 DEF Lesser
  <2> QED
    BY <2>1, <2>4, <2>5, <2>6, ExactPrefill
<1>7. CASE SpeculateOOM
  <2> DEFINE r == Head(todo)
  <2>1. /\ phase = "draft" /\ todo # <<>>
        /\ Preempt(r, [blocks EXCEPT ![r] = @ + num_free], ctx, 0)
    BY <1>7 DEF SpeculateOOM
  <2>2. r \in Reqs /\ status[r] = "RUNNING"
    BY <2>1, DraftHead
  <2> HIDE DEF r
  <2> QED
    BY <2>1, <2>2, ExactPreempt
<1>8. CASE SwapInHead \/ SpeculateHit \/ DecodeBatch \/ DecodeOOM \/ FinishSequences
  BY <1>8, ExactSwapIn, ExactSpeculation, ExactDecode, ExactRetry, ExactFinish
<1>9. CASE Idle \/ Dead \/ UNCHANGED vars
  BY <1>9, ExactUnchanged DEF Idle, Dead, vars, queueVars, seqVars, cacheVars
<1> QED
  BY <1>1, <1>2, <1>3, <1>4, <1>5, <1>6, <1>7, <1>8, <1>9 DEF Next, StepLoop

\* With one decode lane, what is cached or saved of a decodable sequence is its
\* prompt and all its tokens but the last, through every chunk, draft, rollback,
\* failed batch and swap.
THEOREM ExactCache ==
    ASSUME OneLane
    PROVE  Spec => []ExactlyCached
<1>1. Init => ExactlyCached
  <2>1. Init => /\ \A r \in Reqs : status[r] # "RUNNING"
                /\ Elems(swapped) = {}
    BY EmptyList DEF Init
  <2> QED
    BY <2>1 DEF ExactlyCached
<1>2. IInv /\ ExactlyCached /\ [Next]_vars => ExactlyCached'
  BY ExactKept
<1> QED
  BY <1>1, <1>2, Invariance, PTL DEF Spec

\* With one decode lane the books balance, the tables cover what is cached and
\* the next decode of every sequence writes at the right position.
THEOREM CacheStaysInStep ==
    ASSUME OneLane
    PROVE  Spec => []CacheInStep
<1>1. ASSUME IInv, ExactlyCached PROVE CacheInStep
  <2>1. ASSUME NEW r \in Reqs
        PROVE  /\ status[r] = "RUNNING" => ctx[r] = PromptLen[r] + out[r] - 1
               /\ status[r] = "PREFILLING" => ctx[r] < PromptLen[r] /\ out[r] = 0
               /\ ctx[r] <= blocks[r] * BlockSize
               /\ status[r] = "SWAPPED" /\ phase # "dead" =>
                      /\ swap_ctx[r] = PromptLen[r] + out[r] - 1
                      /\ swap_ctx[r] <= swap_blocks[r] * BlockSize
    BY <1>1 DEF IInv, ExactlyCached, ListsMatch, TokensByStatus, CachedByStatus
  <2> QED
    BY <1>1, <2>1 DEF CacheInStep, CtxTracksTokens, IInv
<1> QED
  BY <1>1, Invariance, ExactCache, PTL

\* The graph decoder is no correctness risk (cuda_graph_decoder.py:22-23) as
\* long as a batch is decoded in one lane; the run mixed_lanes shows what
\* happens to a batch that is split.
THEOREM OneLaneAgrees ==
    ASSUME OneLane
    PROVE  Spec => []LanesAgree
<1>1. ASSUME IInv, ExactlyCached PROVE LanesAgree
  <2>1. Elems(running) \subseteq Reqs
    <3>1. running \in Seq(Reqs)
      BY <1>1 DEF IInv, TypeOK
    <3> QED
      BY <3>1, ElemsOf
  <2> QED
    BY <1>1, <2>1 DEF ExactlyCached, LanesAgree
<1> QED
  BY <1>1, Invariance, ExactCache, PTL

-----------------------------------------------------------------------------
(* What a step may not do *)

LEMMA OutputGrows ==
    ASSUME EnableSwap, IInv, [Next]_vars
    PROVE  \A x \in Reqs : out'[x] >= out[x]
<1>1. out \in [Reqs -> Nat]
  BY DEF IInv, TypeOK
<1>2. ASSUME out' = out PROVE \A x \in Reqs : out'[x] >= out[x]
  BY <1>1, <1>2
<1>3. ASSUME NEW r, NEW n \in Nat, out' = [out EXCEPT ![r] = @ + n]
      PROVE  \A x \in Reqs : out'[x] >= out[x]
  <2> TAKE x \in Reqs
  <2>1. out'[x] = out[x] \/ out'[x] = out[x] + n
    BY <1>1, <1>3
  <2> QED
    BY <1>1, <2>1
<1>4. ASSUME NEW r, NEW n, PrefillTokens(r, n) PROVE \A x \in Reqs : out'[x] >= out[x]
  <2>1. out' = out \/ out' = [out EXCEPT ![r] = @ + 1]
    BY <1>4 DEF PrefillTokens
  <2> QED
    BY <1>2, <1>3, <2>1
<1>5. ASSUME NEW v, NEW b, NEW c, Preempt(v, b, c, 0) PROVE out' = out
  BY <1>5 DEF Preempt, SwapOut
<1>6. ASSUME NEW r \in Reqs, AddRequest(r) \/ Cancel(r) PROVE out' = out
  BY <1>6 DEF AddRequest, Cancel
<1>7. ASSUME NEW g \in Groups, AddBeamRequest(g) \/ CancelBeam(g) PROVE out' = out
  BY <1>7 DEF AddBeamRequest, CancelBeam, seqVars
<1>8. CASE BeginStep \/ SwapInHead \/ SwapInDone \/ PrefillDone \/ NoDraft \/ DraftsDone
        \/ FinishSequences \/ StepBeamGroup \/ Idle \/ Dead \/ UNCHANGED vars
  <2>1. out' = out
    BY <1>8 DEF BeginStep, SwapInHead, SwapInDone, PrefillDone, NoDraft, DraftsDone,
       FinishSequences, StepBeamGroup, Idle, Dead, vars, seqVars
  <2> QED
    BY <1>2, <2>1
<1>9. CASE AdmitHead \/ ContinueChunk \/ AdmitChunk
  BY <1>4, <1>9 DEF AdmitHead, ContinueChunk, AdmitChunk
<1>10. CASE SpeculateOOM \/ DecodeOOM
  <2>1. out' = out
    BY <1>5, <1>10 DEF SpeculateOOM, DecodeOOM
  <2> QED
    BY <1>2, <2>1
<1>11. CASE SpeculateHit
  <2> DEFINE r    == Head(todo)
             hits == plan[r][out[r]].hits
  <2>1. /\ phase = "draft" /\ todo # <<>> /\ Draft(r) > 0
        /\ \E kept \in 1 .. hits + 1 : out' = [out EXCEPT ![r] = @ + kept]
    BY <1>11 DEF SpeculateHit
  <2>2. r \in Reqs /\ status[r] = "RUNNING"
    BY <2>1, DraftHead
  <2>3. hits \in Nat
    BY <2>1, <2>2, DraftFits
  <2> HIDE DEF r, hits
  <2>4. PICK kept \in 1 .. hits + 1 : out' = [out EXCEPT ![r] = @ + kept]
    BY <2>1
  <2>5. kept \in Nat
    BY <2>3
  <2> QED
    BY <1>3, <2>4, <2>5
<1>12. CASE DecodeBatch
  <2>1. out' = [r \in Reqs |-> IF r \in Elems(batch) THEN out[r] + 1 ELSE out[r]]
    BY <1>12 DEF DecodeBatch
  <2> QED
    BY <1>1, <2>1
<1> QED
  BY <1>2, <1>6, <1>7, <1>8, <1>9, <1>10, <1>11, <1>12 DEF Next, StepLoop

\* With CPU swap no step takes a generated token back (scheduler.py:23-29),
\* whoever is preempted, in whatever loop.
THEOREM SwapLosesNothing ==
    ASSUME EnableSwap
    PROVE  Spec => NoLostWork
<1>1. IInv /\ [Next]_vars => [\A r \in Reqs : out'[r] >= out[r]]_vars
  BY OutputGrows
<1> QED
  BY <1>1, Invariance, PTL DEF Spec, NoLostWork

-----------------------------------------------------------------------------
(* Exceptions *)

\* What admission asks for is what an unchunked prefill will take.
LEMMA AdmittedFits ==
    ASSUME IInv, Admissible, NEW r \in Reqs, r = Head(waiting), blocks[r] = 0, ctx[r] = 0
    PROVE  Missing(r, PromptLen[r]) <= num_free
<1>1. /\ PromptLen[r] \in Nat /\ MaxNew[r] \in Nat /\ num_free \in Nat /\ Pledged \in Nat
  BY Numbers, PledgedIsNat
<1>2. TotalLen(r) \in Nat /\ PromptLen[r] <= TotalLen(r)
  BY <1>1 DEF TotalLen
<1> DEFINE p == BlocksNeeded(PromptLen[r])
           t == BlocksNeeded(TotalLen(r))
<1>3. p \in Nat /\ t \in Nat /\ TotalLen(r) <= t * BlockSize
  BY <1>1, <1>2, BlocksEnough
<1>4. PromptLen[r] <= t * BlockSize
  BY <1>1, <1>2, <1>3, SizesAssumption
<1>5. p <= t
  BY <1>1, <1>3, <1>4, BlocksEnough
<1>6. t <= num_free - Pledged
  BY DEF Admissible, Headroom
<1>7. Missing(r, PromptLen[r]) = Excess(p, 0)
  BY <1>1 DEF Missing
<1> HIDE DEF p, t
<1>8. Excess(p, 0) <= num_free
  BY <1>1, <1>3, <1>5, <1>6 DEF Excess
<1> QED
  BY <1>7, <1>8

\* With one-shot prefill, no CPU swap and no beam groups: admission has made
\* sure of the blocks of every prefill, and whatever else runs out of blocks is
\* preempted.  Chunks, swap and beam groups each bring an exception that
\* nothing catches (the run chunk_swap_spec reaches them).
THEOREM NothingEscapesUnchunked ==
    ASSUME ChunkBudget = 0, ~EnableSwap, Groups = {}
    PROVE  Spec => []NothingEscapes
<1> DEFINE Safe == swapped = <<>> /\ phase # "dead"
<1>1. Init => Safe
  BY DEF Init
<1>2. ASSUME IInv, Safe, [Next]_vars PROVE Safe'
  <2>1. ASSUME swapped' = swapped, phase' # "dead" PROVE Safe'
    BY <1>2, <2>1
  <2>2. ASSUME NEW v, NEW b, NEW c, Preempt(v, b, c, 0) PROVE swapped' = swapped
    BY <2>2 DEF Preempt, Restart
  <2>3. ASSUME NEW r \in Reqs, AddRequest(r) PROVE Safe'
    BY <1>2, <2>3 DEF AddRequest, stepVars
  <2>4. ASSUME NEW r \in Reqs, Cancel(r) PROVE Safe'
    <3>1. Elems(swapped') = Elems(swapped) \ {r} /\ swapped' \in Seq(Reqs)
      BY <1>2, <2>4, WithoutOne DEF IInv, TypeOK, Cancel
    <3>2. swapped' = <<>>
      BY <1>2, <3>1, EmptyList, ElemsOf
    <3> QED
      BY <1>2, <2>4, <3>2 DEF Cancel, stepVars
  <2>5. CASE BeginStep \/ SwapInDone \/ PrefillDone \/ NoDraft \/ SpeculateHit \/ DraftsDone
          \/ DecodeBatch \/ FinishSequences \/ Idle \/ Dead \/ UNCHANGED vars
    <3>1. swapped' = swapped /\ (phase' = phase \/ phase' \in {"swap_in", "prefill", "draft",
                                                    "finish", "decode", "idle", "beam"})
      BY <2>5 DEF BeginStep, SwapInDone, PrefillDone, NoDraft, SpeculateHit, DraftsDone,
         DecodeBatch, FinishSequences, Idle, Dead, vars, queueVars, stepVars
    <3> QED
      BY <1>2, <2>1, <3>1
  <2>6. CASE SpeculateOOM \/ DecodeOOM
    <3>1. swapped' = swapped
      BY <2>2, <2>6 DEF SpeculateOOM, DecodeOOM
    <3>2. phase' = phase \/ phase' \in {"finish", "decode"}
      BY <2>6 DEF SpeculateOOM, DecodeOOM
    <3> QED
      BY <1>2, <2>1, <3>1, <3>2
  <2>7. ~SwapInHead
    BY <1>2 DEF SwapInHead
  <2>8. ~ContinueChunk /\ ~AdmitChunk
    <3>1. ~(budget > 0)
      BY <1>2 DEF IInv, TypeOK
    <3> QED
      BY <3>1 DEF ContinueChunk, AdmitChunk
  <2>9. ~StepBeamGroup
    <3>1. phase = "beam" => Head(todo) \in {}
      <4>1. phase = "beam" => /\ todo \in Seq(Reqs \cup Groups) /\ todo # <<>>
                              /\ Elems(todo) \subseteq Groups
        BY <1>2 DEF IInv, TypeOK, LoopsInOrder
      <4> QED
        BY <4>1, HeadAndTail
    <3> QED
      BY <3>1 DEF StepBeamGroup
  <2>10. CASE AdmitHead
    <3> DEFINE r == Head(waiting)
    <3>1. /\ Admissible /\ phase = "prefill" /\ waiting # <<>> /\ PrefillTokens(r, PromptLen[r])
          /\ swapped' = swapped
      BY <2>10 DEF AdmitHead, Admissible
    <3>2. r \in Reqs /\ r \in Elems(waiting)
      <4>1. waiting \in Seq(Reqs)
        BY <1>2 DEF IInv, TypeOK
      <4> QED
        BY <3>1, <4>1, HeadAndTail
    <3>3. r \notin Elems(running)
      BY <1>2, <3>2 DEF IInv, ListsMatch
    <3>4. blocks[r] = 0 /\ ctx[r] = 0
      BY <1>2, <3>2, <3>3, OnlyRunningHold
    <3>5. Missing(r, PromptLen[r]) <= num_free
      BY <1>2, <3>1, <3>2, <3>4, AdmittedFits
    <3>6. num_free \in Nat /\ Missing(r, PromptLen[r]) \in Nat
      BY <1>2, <3>2, Numbers, MissingCovers
    <3>7. ~(Missing(r, PromptLen[r]) > num_free)
      BY <3>5, <3>6
    <3>8. phase' = phase
      BY <3>1, <3>7 DEF PrefillTokens
    <3> QED
      BY <1>2, <2>1, <3>1, <3>8
  <2> HIDE DEF Safe
  <2> QED
    BY <1>2, <2>3, <2>4, <2>5, <2>6, <2>7, <2>8, <2>9, <2>10 DEF Next, StepLoop
<1>3. Safe => NothingEscapes
  BY DEF NothingEscapes
<1> HIDE DEF Safe
<1>4. IInv /\ Safe /\ [Next]_vars => Safe'
  BY <1>2
<1> QED
  BY <1>1, <1>3, <1>4, Invariance, PTL DEF Spec
=============================================================================
