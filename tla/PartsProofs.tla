----------------------------- MODULE PartsProofs -----------------------------
(***************************************************************************)
(* Proofs about the parts of a step that share no state with each other,   *)
(* each on its own.  TokenLoop: the tokens and the log-probabilities of a  *)
(* sequence are those of plain sampling, however they were drafted, and    *)
(* what is kept of a row for sampling is what the comments say, for every  *)
(* model, schema and prompt.  DecodeLanes: both lanes of a batched decode  *)
(* read and write the cells of their own sequences only, for every number  *)
(* of sequences, blocks, slots, buckets and adapters.  BeamSearch:         *)
(* hypotheses are scored exactly, pruned for stop tokens only, and the     *)
(* best finished one wins, for every model, vocabulary and length penalty. *)
(***************************************************************************)
EXTENDS TokenLoop, DecodeLanes, BeamSearch, Foundations, SequenceTheorems

-----------------------------------------------------------------------------
(* TokenLoop: the inductive invariant *)

\* A list, of whatever it has in it.
IsList(q) == q \in Seq({q[i] : i \in DOMAIN q})

TokenTypes ==
    /\ prompt_token_ids \in Seq(Tokens) /\ prompt_token_ids # <<>>
    /\ output_token_ids \in Seq(Tokens)
    /\ \A t \in Tokens : chain[t] \in [Tokens -> Int]
    /\ IsList(logprobs)
    /\ has_guide \in BOOLEAN /\ preempted \in Nat
    /\ seq_status \in {"waiting", "running", "finished"}

\* A sequence that goes on has met none of its ends.
EndsInTime ==
    /\ Len(output_token_ids) <= MaxNewTokens
    /\ seq_status # "finished" => Len(output_token_ids) < MaxNewTokens
    /\ \A i \in DOMAIN output_token_ids :
         i < Len(output_token_ids) \/ seq_status # "finished" => output_token_ids[i] # Stop

\* The guide has seen the tokens of the output, unless the sequence was
\* started over.
GuideFollows == has_guide /\ ~GuideAstray => guide = GuideOf(output_token_ids)

TokensSampled ==
    ~GuideAstray => \A i \in DOMAIN output_token_ids :
                       output_token_ids[i] \in Sampled(WeightsAt(i), sampling_params)

TokenIInv ==
    /\ TokenTypes /\ EndsInTime /\ GuideFollows
    /\ TokensSampled /\ LogprobsEndWithOutput

-----------------------------------------------------------------------------
(* The guide *)

\* g runs through the states of the guide on the first n tokens of outs.
Runs(g, outs, n) == g = [i \in 0 .. n |-> IF i = 0 THEN 0 ELSE Guided[g[i - 1], outs[i]]]

LEMMA RunExists ==
    ASSUME NEW outs, NEW n \in Nat
    PROVE  \E g : Runs(g, outs, n)
<1> DEFINE N == {k \in Nat : \E g : Runs(g, outs, k)}
<1>1. ASSUME NEW k \in Nat, \A m \in Nat : m < k => m \in N
      PROVE  k \in N
  <2>1. CASE k = 0
    <3> DEFINE g == [i \in 0 .. 0 |-> 0]
    <3>1. g = [i \in 0 .. 0 |-> IF i = 0 THEN 0 ELSE Guided[g[i - 1], outs[i]]]
      OBVIOUS
    <3>2. Runs(g, outs, 0)
      BY <3>1 DEF Runs
    <3> QED
      BY <2>1, <3>2
  <2>2. CASE k > 0
    <3>1. k - 1 \in Nat /\ k - 1 < k
      BY <2>2
    <3>2. PICK f : Runs(f, outs, k - 1)
      BY <1>1, <3>1
    <3> DEFINE g == [i \in 0 .. k |-> IF i = 0 THEN 0 ELSE Guided[f[i - 1], outs[i]]]
    <3>3. \A i \in 0 .. k - 1 : i \in 0 .. k /\ g[i] = f[i]
      <4>1. \A i \in 0 .. k - 1 : i \in 0 .. k
        BY <3>1
      <4>2. \A i \in 0 .. k - 1 : f[i] = IF i = 0 THEN 0 ELSE Guided[f[i - 1], outs[i]]
        BY <3>2 DEF Runs
      <4> QED
        BY <4>1, <4>2
    <3>4. \A i \in 0 .. k : i = 0 \/ i - 1 \in 0 .. k - 1
      BY <3>1
    <3>5. g = [i \in 0 .. k |-> IF i = 0 THEN 0 ELSE Guided[g[i - 1], outs[i]]]
      BY <3>3, <3>4
    <3> HIDE DEF g
    <3>6. Runs(g, outs, k)
      BY <3>5 DEF Runs
    <3> QED
      BY <3>6
  <2> QED
    BY <2>1, <2>2
<1>2. N \in SUBSET Nat
  OBVIOUS
<1> HIDE DEF N
<1>3. N = Nat
  BY ONLY <1>1, <1>2, StrongInduction
<1> QED
  BY <1>3 DEF N

\* A run on more tokens begins as the shorter one.
LEMMA RunBegins ==
    ASSUME NEW outs \in Seq(Tokens), NEW t \in Tokens,
           NEW g, NEW h, Runs(g, outs, Len(outs)), Runs(h, Append(outs, t), Len(outs) + 1)
    PROVE  h[Len(outs)] = g[Len(outs)]
<1> DEFINE n == Len(outs)
           N == {k \in Nat : k \in 0 .. n => g[k] = h[k]}
<1>1. ASSUME NEW k \in Nat, \A j \in Nat : j < k => j \in N
      PROVE  k \in N
  <2>1. SUFFICES ASSUME k \in 0 .. n PROVE g[k] = h[k]
    OBVIOUS
  <2>2. k \in 0 .. n + 1 /\ n \in Nat /\ (k # 0 => Append(outs, t)[k] = outs[k])
    BY <2>1
  <2>3. /\ g[k] = IF k = 0 THEN 0 ELSE Guided[g[k - 1], outs[k]]
        /\ h[k] = IF k = 0 THEN 0 ELSE Guided[h[k - 1], Append(outs, t)[k]]
    <3> HIDE DEF n
    <3>1. Runs(g, outs, n) /\ Runs(h, Append(outs, t), n + 1)
      BY DEF n
    <3> QED
      BY <2>1, <2>2, <3>1 DEF Runs
  <2>4. k # 0 => k - 1 \in Nat /\ k - 1 < k /\ k - 1 \in 0 .. n
    BY <2>1
  <2>5. k # 0 => g[k - 1] = h[k - 1]
    BY <1>1, <2>4
  <2> QED
    BY <2>2, <2>3, <2>5
<1>2. N \in SUBSET Nat
  OBVIOUS
<1> HIDE DEF N
<1>3. N = Nat
  BY ONLY <1>1, <1>2, StrongInduction
<1> QED
  BY <1>3 DEF N

\* Showing the guide one more token is one transition.
LEMMA GuideAdvances ==
    /\ GuideOf(<<>>) = 0
    /\ \A outs \in Seq(Tokens), t \in Tokens :
         GuideOf(Append(outs, t)) = Guided[GuideOf(outs), t]
<1>1. \A outs : GuideOf(outs) = (CHOOSE g : Runs(g, outs, Len(outs)))[Len(outs)]
  BY DEF GuideOf, Runs
<1>2. \A outs : Len(outs) \in Nat =>
         Runs(CHOOSE g : Runs(g, outs, Len(outs)), outs, Len(outs))
  BY RunExists
<1>3. GuideOf(<<>>) = 0
  <2> DEFINE g == CHOOSE g : Runs(g, <<>>, 0)
  <2>1. Runs(g, <<>>, 0)
    BY RunExists
  <2> HIDE DEF g
  <2>2. g[0] = 0
    BY <2>1 DEF Runs
  <2> QED
    BY <1>1, <2>2 DEF g
<1>4. ASSUME NEW outs \in Seq(Tokens), NEW t \in Tokens
      PROVE  GuideOf(Append(outs, t)) = Guided[GuideOf(outs), t]
  <2> DEFINE n == Len(outs)
             g == CHOOSE f : Runs(f, outs, n)
             h == CHOOSE f : Runs(f, Append(outs, t), n + 1)
  <2>1. n \in Nat /\ n + 1 \in Nat /\ Len(Append(outs, t)) = n + 1 /\ Append(outs, t)[n + 1] = t
    OBVIOUS
  <2>2. Runs(g, outs, n) /\ Runs(h, Append(outs, t), n + 1)
    <3> HIDE DEF n
    <3> QED
      BY <2>1, RunExists
  <2>3. GuideOf(outs) = g[n] /\ GuideOf(Append(outs, t)) = h[n + 1]
    BY <1>1, <2>1
  <2> HIDE DEF g, h
  <2>4. h[n] = g[n]
    BY <2>2, RunBegins
  <2> HIDE DEF n
  <2>5. h[n + 1] = Guided[h[n], t]
    <3>1. n + 1 \in 0 .. n + 1 /\ n + 1 # 0 /\ (n + 1) - 1 = n
      BY <2>1
    <3>2. h[n + 1] = IF n + 1 = 0 THEN 0 ELSE Guided[h[(n + 1) - 1], Append(outs, t)[n + 1]]
      BY <2>2, <3>1 DEF Runs
    <3> QED
      BY <2>1, <3>1, <3>2
  <2> QED
    BY <2>3, <2>4, <2>5
<1> QED
  BY <1>3, <1>4

-----------------------------------------------------------------------------
(* The row a token is sampled from *)

\* ... after the tokens of outs, for the logits c of a model, the sampling
\* parameters p, with a guide or not.
Row(c, prompt, p, guided, outs) ==
    Weights(c[Last(prompt \o outs)],
            IF guided THEN {t \in Tokens : <<GuideOf(outs), t>> \in DOMAIN Guided} ELSE Tokens,
            Range(outs), p.repetition_penalty)

CurrentRow(outs) == Row(chain, prompt_token_ids, sampling_params, has_guide, outs)

LEMMA WeightsAre ==
    /\ \A i : WeightsAt(i) = CurrentRow(SubSeq(output_token_ids, 1, i - 1))
    /\ UNCHANGED <<chain, prompt_token_ids, sampling_params, has_guide>> =>
         \A i : WeightsAt(i)' = CurrentRow(SubSeq(output_token_ids', 1, i - 1))
<1>1. \A i : WeightsAt(i) = CurrentRow(SubSeq(output_token_ids, 1, i - 1))
  BY DEF WeightsAt, OutputBefore, RowWeights, Mask, CurrentRow, Row
<1>2. ASSUME UNCHANGED <<chain, prompt_token_ids, sampling_params, has_guide>>, NEW i
      PROVE  WeightsAt(i)' = CurrentRow(SubSeq(output_token_ids', 1, i - 1))
  BY <1>2 DEF WeightsAt, OutputBefore, RowWeights, Mask, CurrentRow, Row
<1> QED
  BY <1>1, <1>2

\* The guide and the history the scheduler has in hand give that row.
LEMMA WeightsNow ==
    ASSUME TokenIInv, ~GuideAstray
    PROVE  RowWeights(History, output_token_ids, guide) = CurrentRow(output_token_ids)
<1>1. has_guide => guide = GuideOf(output_token_ids)
  BY DEF TokenIInv, GuideFollows
<1>2. Mask(guide) = IF has_guide THEN {t \in Tokens : <<GuideOf(output_token_ids), t>> \in DOMAIN Guided}
                    ELSE Tokens
  BY <1>1 DEF Mask
<1> QED
  BY <1>2 DEF RowWeights, History, CurrentRow, Row

LEMMA SampledAreTokens == \A w, p : Sampled(w, p) \subseteq Tokens
BY DEF Sampled, Best

-----------------------------------------------------------------------------
(* Lists that grow at their end *)

\* p is q with r behind it.
GrowsBy(p, q, r) ==
    /\ Len(p) = Len(q) + Len(r)
    /\ \A i \in 1 .. Len(q) : p[i] = q[i] /\ SubSeq(p, 1, i - 1) = SubSeq(q, 1, i - 1)
    /\ \A j \in 1 .. Len(r) :
         p[Len(q) + j] = r[j] /\ SubSeq(p, 1, Len(q) + j - 1) = q \o SubSeq(r, 1, j - 1)
    /\ \A i \in 1 .. Len(q) + Len(r) :
         i \in 1 .. Len(q) \/ \E j \in 1 .. Len(r) : i = Len(q) + j

LEMMA Grown ==
    ASSUME NEW S, NEW q \in Seq(S), NEW r \in Seq(S)
    PROVE  q \o r \in Seq(S) /\ GrowsBy(q \o r, q, r)
<1> DEFINE p == q \o r
           m == Len(q)
           n == Len(r)
<1>1. /\ p \in Seq(S) /\ Len(p) = m + n /\ m \in Nat /\ n \in Nat
      /\ \A i \in 1 .. m : p[i] = q[i]
      /\ \A j \in 1 .. n : p[m + j] = r[j]
  OBVIOUS
<1>2. ASSUME NEW i \in 1 .. m + n
      PROVE  i \in 1 .. m \/ \E j \in 1 .. n : i = m + j
  <2>1. i \in 1 .. m \/ i - m \in 1 .. n
    BY <1>1
  <2>2. i = m + (i - m)
    BY <1>1
  <2> QED
    BY <2>1, <2>2
<1> HIDE DEF p
<1>3. ASSUME NEW i \in 1 .. m PROVE SubSeq(p, 1, i - 1) = SubSeq(q, 1, i - 1)
  BY <1>1
<1>4. ASSUME NEW j \in 1 .. n PROVE SubSeq(p, 1, m + j - 1) = q \o SubSeq(r, 1, j - 1)
  <2> DEFINE a == SubSeq(p, 1, m + j - 1)
             b == SubSeq(r, 1, j - 1)
             c == q \o b
  <2>1. a \in Seq(S) /\ Len(a) = m + j - 1 /\ \A i \in 1 .. m + j - 1 : a[i] = p[i]
    BY <1>1
  <2>2. b \in Seq(S) /\ Len(b) = j - 1 /\ \A i \in 1 .. j - 1 : b[i] = r[i]
    BY <1>1
  <2> HIDE DEF b
  <2>3. /\ c \in Seq(S) /\ Len(c) = m + j - 1
        /\ \A i \in 1 .. m : c[i] = q[i]
        /\ \A k \in 1 .. j - 1 : c[m + k] = b[k]
    <3>0. q \in Seq(S) /\ b \in Seq(S)
      BY <2>2
    <3>1. c \in Seq(S) /\ Len(c) = m + Len(b) /\ \A i \in 1 .. m : c[i] = q[i]
      BY ONLY <3>0
    <3>2. \A k \in 1 .. Len(b) : c[m + k] = b[k]
      BY ONLY <3>0
    <3> HIDE DEF c
    <3> QED
      BY <1>1, <2>2, <3>1, <3>2
  <2> HIDE DEF a, c
  <2>4. ASSUME NEW i \in 1 .. m + j - 1 PROVE a[i] = c[i]
    <3>1. CASE i \in 1 .. m
      BY <1>1, <2>1, <2>3, <3>1
    <3>2. CASE i \notin 1 .. m
      <4>1. i - m \in 1 .. j - 1 /\ i - m \in 1 .. n /\ i = m + (i - m)
        BY <1>1, <3>2
      <4> DEFINE k == i - m
      <4>2. k \in 1 .. j - 1 /\ k \in 1 .. n /\ i = m + k
        BY <4>1
      <4> HIDE DEF k, m, n
      <4>3. p[i] = r[k] /\ c[i] = b[k] /\ b[k] = r[k]
        BY <1>1, <2>2, <2>3, <4>2
      <4> QED
        BY <2>1, <4>3
    <3> QED
      BY <3>1, <3>2
  <2>5. a = c
    <3> HIDE DEF m
    <3>1. m + j - 1 \in Nat /\ DOMAIN a = 1 .. m + j - 1 /\ DOMAIN c = 1 .. m + j - 1
      BY <1>1, <2>1, <2>3
    <3> QED
      BY <2>1, <2>3, <2>4, <3>1
  <2> QED
    BY <2>5 DEF a, b, c
<1>5. GrowsBy(p, q, r)
  BY <1>1, <1>2, <1>3, <1>4 DEF GrowsBy
<1> QED
  BY <1>1, <1>5 DEF p

\* p is in Seq(S), with q in front and r behind it.
Joins(p, S, q, r) ==
    /\ p \in Seq(S) /\ Len(p) = Len(q) + Len(r)
    /\ Len(q) \in Nat /\ Len(r) \in Nat /\ Len(p) \in Nat
    /\ \A i \in 1 .. Len(q) : p[i] = q[i]
    /\ \A j \in 1 .. Len(r) : p[Len(q) + j] = r[j]

LEMMA Joined ==
    ASSUME NEW S, NEW q \in Seq(S), NEW r \in Seq(S)
    PROVE  Joins(q \o r, S, q, r)
BY DEF Joins

LEMMA FunctionIsSequence ==
    ASSUME NEW S, NEW n \in Nat, NEW f \in [1 .. n -> S]
    PROVE  f \in Seq(S) /\ Len(f) = n
OBVIOUS

LEMMA ListGrows ==
    ASSUME NEW q, NEW r, IsList(q), IsList(r)
    PROVE  /\ IsList(q \o r) /\ Len(q \o r) = Len(q) + Len(r) /\ Len(q) \in Nat /\ Len(r) \in Nat
           /\ \A i \in 1 .. Len(q) : (q \o r)[i] = q[i]
           /\ \A j \in 1 .. Len(r) : (q \o r)[Len(q) + j] = r[j]
<1> DEFINE S == {q[i] : i \in DOMAIN q} \cup {r[i] : i \in DOMAIN r}
           p == q \o r
<1>1. q \in Seq(S) /\ r \in Seq(S)
  <2>1. q \in Seq({q[i] : i \in DOMAIN q}) /\ r \in Seq({r[i] : i \in DOMAIN r})
    BY DEF IsList
  <2> QED
    BY <2>1
<1> HIDE DEF S
<1>2. /\ p \in Seq(S) /\ Len(p) = Len(q) + Len(r) /\ Len(q) \in Nat /\ Len(r) \in Nat
      /\ \A i \in 1 .. Len(q) : p[i] = q[i]
      /\ \A j \in 1 .. Len(r) : p[Len(q) + j] = r[j]
  BY <1>1
<1> HIDE DEF p
<1>3. IsList(p)
  BY <1>2 DEF IsList
<1> QED
  BY <1>2, <1>3 DEF p

-----------------------------------------------------------------------------
(* The actions *)

\* What every append has to show, one token or a draft of them: each token and
\* its log-probability are of the row after the tokens before it, and the
\* sequence has not met an end before the last of them.
LEMMA MoreTokens ==
    ASSUME TokenIInv, seq_status # "finished",
           UNCHANGED <<chain, prompt_token_ids, sampling_params, has_guide, preempted>>,
           NEW more \in Seq(Tokens), more # <<>>, NEW lps, IsList(lps), Len(lps) = Len(more),
           output_token_ids' = output_token_ids \o more, logprobs' = logprobs \o lps,
           ~GuideAstray => \A j \in 1 .. Len(more) :
              LET w == CurrentRow(output_token_ids \o SubSeq(more, 1, j - 1)) IN
              more[j] \in Sampled(w, sampling_params) /\ lps[j] = Logprob(w, more[j]),
           \A j \in 1 .. Len(more) - 1 :
              more[j] # Stop /\ Len(output_token_ids) + j < MaxNewTokens,
           NEW g, seq_status' = IF Finishes(output_token_ids', g) THEN "finished" ELSE "running",
           GuideFollows'
    PROVE  TokenIInv'
<1> DEFINE q == output_token_ids
           m == Len(q)
           n == Len(more)
           r == output_token_ids'
<1>1. /\ TokenTypes /\ EndsInTime /\ TokensSampled /\ LogprobsEndWithOutput
      /\ q \in Seq(Tokens) /\ m \in Nat /\ n \in Nat /\ n >= 1
      /\ DOMAIN q = 1 .. m
  BY DEF TokenIInv, TokenTypes
<1>2. GuideAstray' = GuideAstray
  BY DEF GuideAstray
<1>3. /\ r \in Seq(Tokens) /\ Len(r) = m + n /\ DOMAIN r = 1 .. m + n
      /\ \A i \in 1 .. m : r[i] = q[i] /\ SubSeq(r, 1, i - 1) = SubSeq(q, 1, i - 1)
      /\ \A j \in 1 .. n : r[m + j] = more[j] /\ SubSeq(r, 1, m + j - 1) = q \o SubSeq(more, 1, j - 1)
      /\ \A i \in 1 .. m + n : i \in 1 .. m \/ \E j \in 1 .. n : i = m + j
  <2>1. q \in Seq(Tokens) /\ more \in Seq(Tokens) /\ r = q \o more
    BY <1>1
  <2> HIDE DEF q, r
  <2>2. r \in Seq(Tokens) /\ GrowsBy(r, q, more)
    BY ONLY <2>1, Grown
  <2>3. DOMAIN r = 1 .. m + n
    BY <2>2 DEF GrowsBy
  <2> QED
    BY <2>2, <2>3 DEF GrowsBy
<1>4. /\ \A i \in 1 .. m : WeightsAt(i)' = WeightsAt(i)
      /\ \A i, j \in 1 .. m + n : j \in 1 .. n /\ i = m + j =>
            WeightsAt(i)' = CurrentRow(q \o SubSeq(more, 1, j - 1))
  <2> HIDE DEF m, n
  <2>1. \A i : WeightsAt(i) = CurrentRow(SubSeq(q, 1, i - 1)) /\ WeightsAt(i)' = CurrentRow(SubSeq(r, 1, i - 1))
    BY WeightsAre
  <2>2. ASSUME NEW i \in 1 .. m PROVE WeightsAt(i)' = WeightsAt(i)
    <3>1. SubSeq(r, 1, i - 1) = SubSeq(q, 1, i - 1)
      BY <1>3
    <3> QED
      BY <2>1, <3>1, Zenon
  <2>3. ASSUME NEW i \in 1 .. m + n, NEW j \in 1 .. m + n, j \in 1 .. n, i = m + j
        PROVE  WeightsAt(i)' = CurrentRow(q \o SubSeq(more, 1, j - 1))
    <3>1. SubSeq(r, 1, i - 1) = q \o SubSeq(more, 1, j - 1)
      <4>1. SubSeq(r, 1, m + j - 1) = q \o SubSeq(more, 1, j - 1)
        BY <1>3, <2>3, Zenon
      <4>2. i - 1 = m + j - 1
        <5>1. m \in Nat /\ j \in Nat /\ i = m + j
          BY <1>1, <2>3
        <5> QED
          BY ONLY <5>1
      <4> QED
        BY ONLY <4>1, <4>2, Zenon
    <3>2. WeightsAt(i)' = CurrentRow(SubSeq(r, 1, i - 1))
      BY <2>1, Zenon
    <3> QED
      BY <3>1, <3>2, Zenon
  <2> QED
    BY <2>2, <2>3
<1>5. IsList(logprobs) /\ IsList(lps)
  BY <1>1 DEF TokenTypes
<1>6. /\ IsList(logprobs') /\ Len(logprobs') = Len(logprobs) + n /\ Len(logprobs) \in Nat
      /\ \A i \in 1 .. Len(logprobs) : logprobs'[i] = logprobs[i]
      /\ \A j \in 1 .. n : logprobs'[Len(logprobs) + j] = lps[j]
  BY <1>5, ListGrows
<1>7. TokenTypes'
  BY <1>1, <1>3, <1>6 DEF TokenTypes
<1>8. EndsInTime'
  <2>1. \A i \in 1 .. m : q[i] # Stop
    BY <1>1 DEF EndsInTime
  <2>2. \A i \in 1 .. m + n : i < m + n => r[i] # Stop
    <3>1. ASSUME NEW i \in 1 .. m + n, i < m + n PROVE r[i] # Stop
      <4>1. CASE i \in 1 .. m
        BY <1>3, <2>1, <4>1
      <4>2. CASE \E j \in 1 .. n : i = m + j
        <5>1. PICK j \in 1 .. n : i = m + j
          BY <4>2
        <5>2. j \in 1 .. n - 1 /\ r[i] = more[j]
          BY <1>1, <1>3, <3>1, <5>1
        <5> QED
          BY <5>2
      <4> QED
        BY <1>3, <4>1, <4>2
    <3> QED
      BY <3>1
  <2>4. MaxNewTokens \in Nat
    BY TokenLoopAssumption
  <2>3. m + n - 1 < MaxNewTokens
    <3>1. CASE n = 1
      BY <1>1, <2>4, <3>1 DEF EndsInTime
    <3>2. CASE n # 1
      <4>1. n - 1 \in 1 .. n - 1 /\ m + (n - 1) = m + n - 1
        BY <1>1, <3>2
      <4>2. m + (n - 1) < MaxNewTokens
        BY <4>1
      <4> QED
        BY <4>1, <4>2
    <3> QED
      BY <3>1, <3>2
  <2>5. seq_status' # "finished" => r[m + n] # Stop /\ m + n < MaxNewTokens
    BY <1>1, <1>3, <2>4 DEF Finishes, Last
  <2> HIDE DEF m, n, r
  <2>6. Len(r) <= MaxNewTokens /\ (seq_status' # "finished" => Len(r) < MaxNewTokens)
    BY <1>1, <1>3, <2>3, <2>4, <2>5
  <2>7. ASSUME NEW i \in 1 .. m + n, i < m + n \/ seq_status' # "finished" PROVE r[i] # Stop
    BY <1>1, <2>2, <2>5, <2>7
  <2> QED
    BY <1>3, <2>6, <2>7 DEF EndsInTime, r
<1>9. TokensSampled'
  <2>1. ASSUME ~GuideAstray, NEW i \in 1 .. m + n
        PROVE  r[i] \in Sampled(WeightsAt(i)', sampling_params)
    <3>1. CASE i \in 1 .. m
      BY <1>1, <1>3, <1>4, <2>1, <3>1 DEF TokensSampled
    <3>2. CASE \E j \in 1 .. n : i = m + j
      <4>1. PICK j \in 1 .. n : i = m + j
        BY <3>2
      <4>2. r[i] = more[j]
        BY <1>3, <4>1
      <4>3. WeightsAt(i)' = CurrentRow(q \o SubSeq(more, 1, j - 1))
        <5>1. j \in 1 .. m + n
          BY <1>1
        <5> QED
          BY <1>4, <4>1, <5>1, Zenon
      <4>4. more[j] \in Sampled(CurrentRow(q \o SubSeq(more, 1, j - 1)), sampling_params)
        BY <2>1
      <4> QED
        BY <4>2, <4>3, <4>4
    <3> QED
      BY <1>3, <3>1, <3>2
  <2> QED
    BY <1>2, <1>3, <2>1 DEF TokensSampled
<1>10. LogprobsEndWithOutput'
  <2> DEFINE lost == Len(logprobs) - m
  <2>1. /\ lost \in Nat /\ (preempted = 0 => lost = 0)
        /\ ~GuideAstray => \A i \in 1 .. m : logprobs[lost + i] = Logprob(WeightsAt(i), q[i])
    <3>1. lost \in Int
      BY <1>1, <1>6
    <3>2. /\ lost >= 0 /\ (preempted = 0 => lost = 0)
          /\ ~GuideAstray => \A i \in DOMAIN q : logprobs[lost + i] = Logprob(WeightsAt(i), q[i])
      BY <1>1, Zenon DEF LogprobsEndWithOutput
    <3>3. lost \in Nat
      BY <3>1, <3>2
    <3> HIDE DEF lost, m
    <3> QED
      BY <1>1, <3>2, <3>3, Zenon
  <2>2. Len(logprobs') - Len(r) = lost /\ Len(logprobs) = lost + m
    BY <1>1, <1>3, <1>6
  <2> HIDE DEF lost
  <2>3. ASSUME ~GuideAstray, NEW i \in 1 .. m + n
        PROVE  logprobs'[lost + i] = Logprob(WeightsAt(i)', r[i])
    <3>1. CASE i \in 1 .. m
      <4>1. lost + i \in 1 .. Len(logprobs)
        BY <1>1, <2>1, <2>2, <3>1
      <4> QED
        BY <1>3, <1>4, <1>6, <2>1, <2>3, <3>1, <4>1
    <3>2. CASE \E j \in 1 .. n : i = m + j
      <4>1. PICK j \in 1 .. n : i = m + j
        BY <3>2
      <4>2. lost + i = Len(logprobs) + j
        BY <1>1, <2>1, <2>2, <4>1
      <4>3. logprobs'[lost + i] = lps[j] /\ r[i] = more[j] /\ WeightsAt(i)' = CurrentRow(q \o SubSeq(more, 1, j - 1))
        <5>1. logprobs'[lost + i] = lps[j]
          BY <1>6, <4>2
        <5>2. r[i] = more[j]
          BY <1>3, <4>1
        <5>3. WeightsAt(i)' = CurrentRow(q \o SubSeq(more, 1, j - 1))
          <6>1. j \in 1 .. m + n
            BY <1>1
          <6> QED
            BY <1>4, <4>1, <6>1, Zenon
        <5> QED
          BY <5>1, <5>2, <5>3
      <4>4. lps[j] = Logprob(CurrentRow(q \o SubSeq(more, 1, j - 1)), more[j])
        BY <2>3, <4>1
      <4> QED
        BY <4>3, <4>4
    <3> QED
      BY <1>3, <3>1, <3>2
  <2>4. ~GuideAstray' => \A i \in 1 .. m + n : logprobs'[lost + i] = Logprob(WeightsAt(i)', r[i])
    BY <1>2, <2>3
  <2>5. lost >= 0 /\ (preempted' = 0 => lost = 0)
    BY <2>1
  <2> HIDE DEF m, n
  <2> QED
    BY <1>3, <2>2, <2>4, <2>5 DEF LogprobsEndWithOutput
<1> QED
  BY <1>7, <1>8, <1>9, <1>10 DEF TokenIInv

\* One token, of a prefill or a decode.
LEMMA GenerateKeeps ==
    ASSUME TokenIInv, Generate
    PROVE  TokenIInv'
<1> DEFINE q == output_token_ids
           w == RowWeights(History, q, guide)
<1>1. PICK t \in Sampled(w, sampling_params) : AppendToken(t, Logprob(w, t))
  BY DEF Generate
<1>2. /\ seq_status # "finished" /\ t \in Tokens /\ q \in Seq(Tokens) /\ IsList(logprobs)
      /\ UNCHANGED <<chain, prompt_token_ids, sampling_params, has_guide, preempted>>
  BY SampledAreTokens DEF Generate, TokenIInv, TokenTypes
<1>3. /\ q' = Append(q, t) /\ logprobs' = Append(logprobs, Logprob(w, t))
      /\ guide' = GuideAfter(guide, t)
      /\ seq_status' = IF Finishes(q', guide') THEN "finished" ELSE "running"
  BY <1>1 DEF AppendToken
<1> DEFINE more == <<t>>
           lps  == <<Logprob(w, t)>>
<1>4. more \in Seq(Tokens) /\ more # <<>> /\ IsList(lps) /\ Len(lps) = Len(more) /\ Len(more) = 1
  <2>1. more \in Seq(Tokens) /\ more # <<>> /\ Len(lps) = 1 /\ Len(more) = 1
    BY <1>2
  <2>2. IsList(lps)
    BY DEF IsList
  <2> QED
    BY <2>1, <2>2
<1>5. q' = q \o more /\ logprobs' = logprobs \o lps
  <2>1. logprobs \in Seq({logprobs[i] : i \in DOMAIN logprobs} \cup {Logprob(w, t)})
    BY <1>2 DEF IsList
  <2> DEFINE S == {logprobs[i] : i \in DOMAIN logprobs} \cup {Logprob(w, t)}
  <2>2. logprobs \in Seq(S) /\ Logprob(w, t) \in S
    BY <2>1
  <2> HIDE DEF S, w
  <2>3. Append(logprobs, Logprob(w, t)) = logprobs \o <<Logprob(w, t)>>
    BY <2>2, AppendIsConcat
  <2>4. Append(q, t) = q \o <<t>>
    BY <1>2, AppendIsConcat
  <2> QED
    BY <1>3, <2>3, <2>4
<1>6. ASSUME ~GuideAstray, NEW j \in 1 .. Len(more)
      PROVE  LET v == CurrentRow(q \o SubSeq(more, 1, j - 1)) IN
             more[j] \in Sampled(v, sampling_params) /\ lps[j] = Logprob(v, more[j])
  <2>1. j = 1 /\ more[1] = t /\ lps[1] = Logprob(w, t) /\ SubSeq(more, 1, 0) = <<>>
    BY <1>4
  <2>2. q \o <<>> = q
    BY <1>2, ConcatEmptySeq
  <2>3. w = CurrentRow(q)
    BY <1>6, WeightsNow
  <2>4. CurrentRow(q \o SubSeq(more, 1, j - 1)) = w
    <3>1. j - 1 = 0
      BY <2>1
    <3> QED
      BY <2>1, <2>2, <2>3, <3>1
  <2> QED
    BY <1>1, <2>1, <2>4
<1>7. \A j \in 1 .. Len(more) - 1 : more[j] # Stop /\ Len(q) + j < MaxNewTokens
  BY <1>4
<1>8. GuideFollows'
  <2>0. /\ preempted \in Nat /\ preempted' = preempted /\ has_guide' = has_guide
        /\ has_guide /\ ~(has_guide /\ preempted > 0) => guide = GuideOf(q)
    BY <1>2 DEF TokenIInv, TokenTypes, GuideFollows, GuideAstray
  <2>1. SUFFICES ASSUME has_guide, ~(preempted > 0) PROVE guide' = GuideOf(q')
    BY <2>0 DEF GuideFollows, GuideAstray
  <2>2. guide = GuideOf(q)
    BY <2>0, <2>1
  <2>3. guide' = Guided[guide, t]
    BY <1>3, <2>1 DEF GuideAfter
  <2>4. GuideOf(Append(q, t)) = Guided[GuideOf(q), t]
    BY <1>2, GuideAdvances
  <2>5. GuideOf(q') = GuideOf(Append(q, t))
    BY <1>3
  <2> QED
    BY <2>2, <2>3, <2>4, <2>5
<1>9. UNCHANGED <<chain, prompt_token_ids, sampling_params, has_guide, preempted>>
  BY <1>2
<1>10. seq_status # "finished" /\ seq_status' = IF Finishes(output_token_ids', guide') THEN "finished" ELSE "running"
  BY <1>2, <1>3
<1> HIDE DEF more, lps, w
<1> QED
  BY <1>4, <1>5, <1>6, <1>7, <1>8, <1>9, <1>10, MoreTokens

-----------------------------------------------------------------------------
(* A draft *)

\* Without a penalty it does not matter what was said before.
LEMMA WithoutPenalty ==
    ASSUME NEW row \in [Tokens -> Int], NEW ids
    PROVE  Weights(row, Tokens, ids, 1) = Weights(row, Tokens, {}, 1)
<1>1. \A i \in Int : i \div 1 = i /\ i * 1 = i
  OBVIOUS
<1>2. \A s : Penalized(row, s, 1) = row
  <2>1. \A s : Penalized(row, s, 1) = [t \in Tokens |-> row[t]]
    BY <1>1 DEF Penalized
  <2> QED
    BY <2>1
<1>3. Penalized(row, ids, 1) = Penalized(row, {}, 1)
  BY <1>2
<1> QED
  BY <1>3, Zenon DEF Weights

LEMMA DraftIsTokens ==
    ASSUME NEW history \in Seq(Tokens)
    PROVE  Draft(history) \in Seq(Tokens)
<1> DEFINE before == Len(history) - NgramSize
           query  == SubSeq(history, before + 1, Len(history))
           starts == {i \in 1 .. before - NgramSize + 1 : SubSeq(history, i, i + NgramSize - 1) = query}
           next   == Max(starts) + NgramSize
           final  == IF next + MaxDraftLen - 1 < Len(history) THEN next + MaxDraftLen - 1 ELSE Len(history)
<1>1. Draft(history) = IF starts = {} THEN <<>> ELSE SubSeq(history, next, final)
  BY DEF Draft
<1>2. NgramSize \in Nat /\ MaxDraftLen \in Nat /\ Len(history) \in Nat
  BY TokenLoopAssumption
<1>3. ASSUME starts # {}
      PROVE  next \in Nat /\ next >= 1
  <2>1. starts \in SUBSET (1 .. before - NgramSize + 1)
    OBVIOUS
  <2>2. starts \in SUBSET Nat /\ \A i \in starts : i >= 1
    BY <2>1
  <2>3. IsFiniteSet(1 .. before - NgramSize + 1)
    <3>1. before - NgramSize + 1 \in Int
      BY <1>2
    <3> QED
      BY <3>1, FS_Interval
  <2>4. IsFiniteSet(starts)
    BY <2>1, <2>3, FS_Subset
  <2> HIDE DEF starts
  <2>5. Max(starts) \in starts
    BY <1>3, <2>2, <2>4, MaxOfSet
  <2>6. Max(starts) \in Nat /\ Max(starts) >= 1
    BY <2>2, <2>5
  <2> QED
    BY <1>2, <2>6
<1>4. ASSUME starts # {}
      PROVE  SubSeq(history, next, final) \in Seq(Tokens)
  <2>1. next \in Nat /\ next >= 1
    BY <1>3, <1>4
  <2> HIDE DEF next
  <2>2. final \in Int /\ final <= Len(history)
    BY <1>2, <2>1
  <2> HIDE DEF final
  <2>3. \A i \in next .. final : i \in 1 .. Len(history)
    BY <1>2, <2>1, <2>2
  <2>4. \A i \in next .. final : history[i] \in Tokens
    BY <2>3
  <2> QED
    BY <1>2, <2>1, <2>2, <2>4, SubSeqProperties
<1> HIDE DEF starts, next, final
<1> QED
  BY <1>1, <1>4

\* What is accepted of a draft are predictions, and the predictions before the
\* last are the drafted tokens themselves.
LEMMA AcceptedArePredicted ==
    ASSUME NEW draft \in Seq(Tokens), NEW predicted \in [1 .. Len(draft) + 1 -> Tokens]
    PROVE  /\ Accepted(draft, predicted) \in Seq(Tokens)
           /\ Len(Accepted(draft, predicted)) \in 1 .. Len(draft) + 1
           /\ \A j \in 1 .. Len(Accepted(draft, predicted)) :
                 /\ Accepted(draft, predicted)[j] = predicted[j]
                 /\ j < Len(Accepted(draft, predicted)) => Accepted(draft, predicted)[j] = draft[j]
<1> DEFINE n == Len(draft)
           matched == {m \in 0 .. n : \A j \in 1 .. m : predicted[j] = draft[j]}
           M == Max(matched)
           b == SubSeq(draft, 1, M)
           a == Append(b, predicted[M + 1])
<1>1. Accepted(draft, predicted) = a
  BY DEF Accepted
<1>2. n \in Nat
  OBVIOUS
<1>3. M \in 0 .. n /\ \A j \in 1 .. M : predicted[j] = draft[j]
  <2>1. matched \in SUBSET (0 .. n) /\ 0 \in matched
    BY <1>2
  <2>2. matched \in SUBSET Nat /\ IsFiniteSet(matched) /\ matched # {}
    <3>1. IsFiniteSet(0 .. n)
      BY <1>2, FS_Interval
    <3>2. IsFiniteSet(matched)
      BY <2>1, <3>1, FS_Subset
    <3> QED
      BY <2>1, <3>2
  <2>3. M \in matched
    <3> HIDE DEF matched
    <3> QED
      BY <2>2, MaxOfSet
  <2> HIDE DEF M
  <2> QED
    BY <2>3
<1> HIDE DEF M
<1>4. b \in Seq(Tokens) /\ Len(b) = M /\ \A j \in 1 .. M : b[j] = draft[j]
  BY <1>2, <1>3
<1>5. M + 1 \in 1 .. n + 1 /\ predicted[M + 1] \in Tokens
  BY <1>2, <1>3
<1> HIDE DEF b, n
<1>6. /\ a \in Seq(Tokens) /\ Len(a) = M + 1 /\ a[M + 1] = predicted[M + 1]
      /\ \A j \in 1 .. M : a[j] = b[j]
  BY <1>3, <1>4, <1>5
<1> HIDE DEF a
<1>7. \A j \in 1 .. M + 1 : a[j] = predicted[j] /\ (j < M + 1 => a[j] = draft[j])
  <2>1. ASSUME NEW j \in 1 .. M + 1
        PROVE  a[j] = predicted[j] /\ (j < M + 1 => a[j] = draft[j])
    <3>1. j = M + 1 \/ j \in 1 .. M
      BY <1>2, <1>3
    <3>2. CASE j = M + 1
      BY <1>6, <3>2, <1>2, <1>3
    <3>3. CASE j \in 1 .. M
      BY <1>3, <1>4, <1>6, <3>3
    <3> QED
      BY <3>1, <3>2, <3>3
  <2> QED
    BY <2>1
<1> QED
  BY <1>1, <1>2, <1>3, <1>5, <1>6, <1>7 DEF n

\* The loop over the accepted tokens ends with the first that ends the sequence.
LEMMA KeptUntilFinished ==
    ASSUME NEW tokens \in Seq(Tokens), tokens # <<>>
    PROVE  \E n \in 1 .. Len(tokens) :
             /\ UntilFinished(tokens) = SubSeq(tokens, 1, n)
             /\ \A j \in 1 .. n - 1 : ~Finishes(output_token_ids \o SubSeq(tokens, 1, j), guide)
<1> DEFINE F(j) == Finishes(output_token_ids \o SubSeq(tokens, 1, j), guide)
           ends == {j \in DOMAIN tokens : F(j)}
           n    == IF ends = {} THEN Len(tokens) ELSE Min(ends)
<1>1. UntilFinished(tokens) = SubSeq(tokens, 1, n)
  BY DEF UntilFinished
<1>2. Len(tokens) \in Nat /\ Len(tokens) >= 1 /\ DOMAIN tokens = 1 .. Len(tokens)
  OBVIOUS
<1> HIDE DEF F
<1>3. CASE ends = {}
  <2>1. n = Len(tokens) /\ \A j \in 1 .. Len(tokens) : ~F(j)
    BY <1>2, <1>3
  <2> QED
    BY <1>1, <1>2, <2>1 DEF F
<1>4. CASE ends # {}
  <2>1. ends \in SUBSET Nat
    BY <1>2
  <2>2. \E m \in ends : \A k \in ends : m <= k
    <3> HIDE DEF ends
    <3> QED
      BY <1>4, <2>1, LeastNatural
  <2>3. Min(ends) \in ends /\ \A k \in ends : Min(ends) <= k
    BY <2>2 DEF Min
  <2>4. n \in ends /\ \A k \in ends : n <= k
    BY <1>4, <2>3
  <2> HIDE DEF n
  <2>5. n \in 1 .. Len(tokens) /\ \A j \in 1 .. n - 1 : ~F(j)
    <3>1. n \in 1 .. Len(tokens)
      BY <1>2, <2>4
    <3>2. \A j \in 1 .. n - 1 : j \in 1 .. Len(tokens) /\ ~(n <= j)
      BY <1>2, <3>1
    <3> QED
      BY <1>2, <2>4, <3>1, <3>2
  <2> QED
    BY <1>1, <2>5 DEF F
<1> QED
  BY <1>3, <1>4

\* The tokens of a draft are those that plain sampling would have given: the
\* row of each is that of the token before it, drafted or not.
LEMMA SpeculateKeeps ==
    ASSUME TokenIInv, Speculate
    PROVE  TokenIInv'
<1> DEFINE q     == output_token_ids
           draft == Draft(History)
           chunk == <<Last(History)>> \o draft
           rows  == [j \in DOMAIN chunk |-> Weights(chain[chunk[j]], Tokens, {}, 1)]
           n     == Len(draft)
<1>1. PICK predicted \in {f \in [DOMAIN chunk -> Tokens] : \A j \in DOMAIN chunk : f[j] \in Best(rows[j])} :
         LET kept == UntilFinished(Accepted(draft, predicted))
             outs == q \o kept IN
         /\ q' = outs
         /\ logprobs' = logprobs \o [j \in DOMAIN kept |-> RowLogprob(rows, j, kept[j])]
         /\ seq_status' = IF Finishes(outs, guide) THEN "finished" ELSE "running"
  BY DEF Speculate
<1>2. /\ seq_status = "running" /\ ~has_guide
      /\ sampling_params.temperature = 0 /\ sampling_params.repetition_penalty = 1
      /\ UNCHANGED <<chain, prompt_token_ids, sampling_params, has_guide, guide, preempted>>
  BY DEF Speculate
<1>3. /\ prompt_token_ids \in Seq(Tokens) /\ prompt_token_ids # <<>> /\ q \in Seq(Tokens)
      /\ \A t \in Tokens : chain[t] \in [Tokens -> Int]
  BY DEF TokenIInv, TokenTypes
<1>4. History \in Seq(Tokens) /\ History # <<>> /\ Last(History) \in Tokens
  <2>1. History \in Seq(Tokens) /\ History # <<>>
    BY <1>3 DEF History
  <2> QED
    BY <2>1 DEF Last
<1>5. draft \in Seq(Tokens)
  BY <1>4, DraftIsTokens
<1> HIDE DEF draft
<1>6. /\ n \in Nat /\ DOMAIN chunk = 1 .. n + 1 /\ chunk[1] = Last(History)
      /\ \A j \in 1 .. n : chunk[j + 1] = draft[j]
      /\ \A j \in 1 .. n + 1 : chunk[j] \in Tokens
  <2>1. <<Last(History)>> \in Seq(Tokens) /\ Len(<<Last(History)>>) = 1 /\ <<Last(History)>>[1] = Last(History)
    BY <1>4
  <2> DEFINE z == <<Last(History)>>
  <2> HIDE DEF z
  <2>2. z \in Seq(Tokens) /\ Len(z) = 1 /\ z[1] = Last(History) /\ chunk = z \o draft
    BY <2>1 DEF z
  <2> HIDE DEF chunk
  <2>3. /\ chunk \in Seq(Tokens) /\ Len(chunk) = 1 + n /\ n \in Nat /\ chunk[1] = z[1]
        /\ \A j \in 1 .. n : chunk[1 + j] = draft[j]
    <3>1. z \in Seq(Tokens) /\ draft \in Seq(Tokens)
      BY <1>5, <2>2
    <3>2. Joins(z \o draft, Tokens, z, draft)
      BY <3>1, Joined
    <3>3. /\ Len(chunk) = Len(z) + n /\ n \in Nat /\ chunk \in Seq(Tokens)
          /\ \A i \in 1 .. Len(z) : chunk[i] = z[i]
          /\ \A j \in 1 .. n : chunk[Len(z) + j] = draft[j]
      BY <2>2, <3>2 DEF Joins
    <3> HIDE DEF n
    <3> QED
      BY <2>2, <3>3
  <2> QED
    BY <2>2, <2>3
<1> HIDE DEF chunk
<1> DEFINE acc == Accepted(draft, predicted)
<1>7. /\ acc \in Seq(Tokens) /\ Len(acc) \in 1 .. n + 1
      /\ \A j \in 1 .. Len(acc) : acc[j] = predicted[j] /\ (j < Len(acc) => acc[j] = draft[j])
  <2>1. predicted \in [1 .. Len(draft) + 1 -> Tokens]
    BY <1>1, <1>6
  <2> QED
    BY <1>5, <2>1, AcceptedArePredicted
<1> HIDE DEF acc
<1>8. PICK k \in 1 .. Len(acc) :
         /\ UntilFinished(acc) = SubSeq(acc, 1, k)
         /\ \A j \in 1 .. k - 1 : ~Finishes(q \o SubSeq(acc, 1, j), guide)
  <2>1. acc \in Seq(Tokens) /\ acc # <<>>
    BY <1>6, <1>7
  <2> QED
    BY <2>1, KeptUntilFinished
<1> DEFINE kept == SubSeq(acc, 1, k)
           lps  == [j \in DOMAIN kept |-> RowLogprob(rows, j, kept[j])]
<1>9. /\ q' = q \o kept /\ logprobs' = logprobs \o lps
      /\ seq_status' = IF Finishes(q', guide) THEN "finished" ELSE "running"
  BY <1>1, <1>8, Zenon DEF acc
<1>10. /\ kept \in Seq(Tokens) /\ Len(kept) = k /\ kept # <<>> /\ DOMAIN kept = 1 .. k
       /\ k \in Nat /\ k >= 1 /\ k <= n + 1
       /\ \A j \in 1 .. k : kept[j] = acc[j] /\ SubSeq(kept, 1, j - 1) = SubSeq(acc, 1, j - 1)
  <2>1. kept \in Seq(Tokens) /\ Len(kept) = k /\ \A j \in 1 .. k : kept[j] = acc[j]
    BY <1>6, <1>7, <1>8
  <2>2. k \in Nat /\ k >= 1 /\ k <= n + 1
    BY <1>6, <1>7, <1>8
  <2>3. ASSUME NEW j \in 1 .. k
        PROVE  SubSeq(kept, 1, j - 1) = SubSeq(acc, 1, j - 1)
    <3> HIDE DEF kept
    <3> QED
      BY <1>7, <2>1, <2>2
  <2> HIDE DEF kept
  <2>4. DOMAIN kept = 1 .. k /\ kept # <<>>
    BY <2>1, <2>2
  <2> QED
    BY <2>1, <2>2, <2>3, <2>4
<1> HIDE DEF kept
<1>11. /\ IsList(lps) /\ Len(lps) = k
       /\ \A j \in 1 .. k : lps[j] = Logprob(rows[j], kept[j])
  <2>1. lps = [j \in 1 .. k |-> RowLogprob(rows, j, kept[j])]
    BY <1>10
  <2>2. \A j \in 1 .. k : lps[j] = Logprob(rows[j], kept[j])
    BY <2>1 DEF RowLogprob
  <2> HIDE DEF lps, rows
  <2>3. DOMAIN lps = 1 .. k /\ lps = [j \in 1 .. k |-> lps[j]]
    BY <2>1
  <2>4. lps \in [1 .. k -> {lps[i] : i \in DOMAIN lps}]
    BY <2>3
  <2>5. lps \in Seq({lps[i] : i \in DOMAIN lps})
    BY <1>10, <2>4, FunctionIsSequence
  <2>6. Len(lps) = k
    BY <1>10, <2>3, <2>5
  <2> QED
    BY <2>2, <2>5, <2>6 DEF IsList
<1> HIDE DEF lps
\* The row of each token kept is the one it is compared with.
<1>12. ASSUME NEW j \in 1 .. k
       PROVE  CurrentRow(q \o SubSeq(kept, 1, j - 1)) = rows[j]
  <2> DEFINE s == SubSeq(kept, 1, j - 1)
  <2>1. j \in Nat /\ j >= 1 /\ j <= k /\ j \in 1 .. n + 1
    BY <1>10, <1>6
  <2>2. /\ s \in Seq(Tokens) /\ Len(s) = j - 1
        /\ \A i \in 1 .. j - 1 : s[i] = kept[i]
    BY <1>10, <2>1
  <2>3. Last(prompt_token_ids \o (q \o s)) = chunk[j]
    <3>1. CASE j = 1
      <4>1. Len(s) = 0
        BY <2>2, <3>1
      <4>2. s = <<>>
        <5> HIDE DEF s
        <5> QED
          BY <2>2, <4>1
      <4>3. q \o <<>> = q
        BY <1>3, ConcatEmptySeq
      <4> HIDE DEF s
      <4>4. prompt_token_ids \o (q \o s) = History
        BY <4>2, <4>3 DEF History
      <4> QED
        BY <1>6, <3>1, <4>4
    <3>2. CASE j # 1
      <4> HIDE DEF s
      <4> DEFINE u == q \o s
                 v == prompt_token_ids \o u
      <4>1. /\ u \in Seq(Tokens) /\ Len(u) = Len(q) + (j - 1) /\ Len(q) \in Nat
            /\ u[Len(q) + (j - 1)] = s[j - 1]
        <5>1. Joins(u, Tokens, q, s)
          BY <1>3, <2>2, Joined
        <5>2. j - 1 \in 1 .. Len(s)
          BY <2>1, <2>2, <3>2
        <5> HIDE DEF u
        <5> QED
          BY <2>2, <5>1, <5>2 DEF Joins
      <4> HIDE DEF u
      <4>2. j - 1 \in 1 .. n /\ j - 1 \in 1 .. k - 1 /\ j - 1 < k /\ j - 1 \in 1 .. j - 1
        BY <1>10, <2>1, <3>2
      <4>3. /\ v \in Seq(Tokens) /\ Len(v) = Len(prompt_token_ids) + Len(u) /\ Len(v) \in Nat
            /\ \A i \in 1 .. Len(u) : v[Len(prompt_token_ids) + i] = u[i]
        <5>1. Joins(v, Tokens, prompt_token_ids, u)
          BY <1>3, <4>1, Joined
        <5> HIDE DEF v
        <5> QED
          BY <5>1 DEF Joins
      <4>4. Len(u) \in 1 .. Len(u) /\ v[Len(v)] = u[Len(u)]
        BY <4>1, <4>2, <4>3
      <4>5. v[Len(v)] = kept[j - 1]
        BY <2>2, <4>1, <4>2, <4>4
      <4>6. kept[j - 1] = draft[j - 1]
        <5>1. j - 1 \in 1 .. k /\ j - 1 \in 1 .. Len(acc) /\ j - 1 < Len(acc)
          BY <1>6, <1>7, <1>8, <4>2
        <5> QED
          BY <1>7, <1>10, <5>1
      <4>7. chunk[(j - 1) + 1] = draft[j - 1]
        BY <1>6, <4>2
      <4>8. (j - 1) + 1 = j
        BY <2>1
      <4>9. Last(v) = chunk[j]
        BY <4>5, <4>6, <4>7, <4>8 DEF Last
      <4> QED
        BY <4>9 DEF u, v
    <3> QED
      BY <3>1, <3>2
  <2> DEFINE row == chain[chunk[j]]
  <2>4. row \in [Tokens -> Int] /\ rows[j] = Weights(row, Tokens, {}, 1)
    BY <1>3, <1>6, <2>1
  <2>5. CurrentRow(q \o s) = Weights(chain[Last(prompt_token_ids \o (q \o s))], Tokens, Range(q \o s), 1)
    BY <1>2 DEF CurrentRow, Row
  <2> HIDE DEF rows
  <2>6. CurrentRow(q \o s) = Weights(row, Tokens, Range(q \o s), 1)
    BY <2>3, <2>5
  <2> HIDE DEF row
  <2> QED
    BY <2>4, <2>6, WithoutPenalty
<1>13. ASSUME NEW j \in 1 .. k
       PROVE  kept[j] \in Sampled(rows[j], sampling_params)
  <2>1. j \in 1 .. n + 1 /\ j \in 1 .. Len(acc)
    BY <1>6, <1>7, <1>8, <1>10
  <2>2. kept[j] = predicted[j]
    BY <1>7, <1>10, <2>1
  <2>3. predicted[j] \in Best(rows[j])
    <3> HIDE DEF rows
    <3> QED
      BY <1>1, <1>6, <2>1
  <2> HIDE DEF rows
  <2> QED
    BY <1>2, <2>2, <2>3 DEF Sampled
<1> HIDE DEF rows
<1>14. ASSUME NEW j \in 1 .. Len(kept)
       PROVE  LET w == CurrentRow(q \o SubSeq(kept, 1, j - 1)) IN
              kept[j] \in Sampled(w, sampling_params) /\ lps[j] = Logprob(w, kept[j])
  BY <1>10, <1>11, <1>12, <1>13
<1>15. ASSUME NEW j \in 1 .. Len(kept) - 1
       PROVE  kept[j] # Stop /\ Len(q) + j < MaxNewTokens
  <2> DEFINE s == SubSeq(acc, 1, j)
             u == q \o s
  <2>1. j \in 1 .. k - 1 /\ j \in Nat /\ j >= 1 /\ j \in 1 .. k /\ j \in 1 .. Len(acc)
    BY <1>6, <1>7, <1>8, <1>10
  <2>2. s \in Seq(Tokens) /\ Len(s) = j /\ s[j] = acc[j]
    BY <1>7, <2>1
  <2>3. ~Finishes(u, guide)
    BY <1>8, <2>1
  <2> HIDE DEF s
  <2>4. u \in Seq(Tokens) /\ Len(u) = Len(q) + j /\ Len(q) \in Nat /\ u[Len(q) + j] = s[j]
    <3>1. Joins(u, Tokens, q, s)
      BY <1>3, <2>2, Joined
    <3>2. j \in 1 .. Len(s)
      BY <2>1, <2>2
    <3> HIDE DEF u
    <3> QED
      BY <2>2, <3>1, <3>2 DEF Joins
  <2> HIDE DEF u
  <2>5. u[Len(u)] # Stop /\ ~(Len(u) >= MaxNewTokens)
    BY <2>3 DEF Finishes, Last
  <2>6. kept[j] = acc[j]
    BY <1>10, <2>1
  <2>7. MaxNewTokens \in Nat
    BY TokenLoopAssumption
  <2> QED
    BY <2>1, <2>2, <2>4, <2>5, <2>6, <2>7
<1>16. GuideFollows'
  BY <1>2 DEF GuideFollows
<1>17. /\ seq_status # "finished" /\ Len(lps) = Len(kept)
       /\ UNCHANGED <<chain, prompt_token_ids, sampling_params, has_guide, preempted>>
  BY <1>2, <1>10, <1>11
<1> QED
  BY <1>9, <1>10, <1>11, <1>14, <1>15, <1>16, <1>17, MoreTokens

\* Starting over loses the output and nothing else.
LEMMA PreemptKeeps ==
    ASSUME TokenIInv, Preempt
    PROVE  TokenIInv'
<1>1. /\ seq_status = "running" /\ output_token_ids' = <<>> /\ seq_status' = "waiting"
      /\ preempted' = preempted + 1
      /\ UNCHANGED <<chain, prompt_token_ids, sampling_params, has_guide, logprobs, guide>>
  BY DEF Preempt
<1>2. MaxNewTokens \in Nat /\ MaxNewTokens > 0 /\ preempted \in Nat /\ TokenTypes
  BY TokenLoopAssumption DEF TokenIInv, TokenTypes
<1>3. <<>> \in Seq(Tokens) /\ Len(<<>>) = 0 /\ DOMAIN <<>> = {} /\ preempted + 1 \in Nat /\ preempted + 1 > 0
  BY <1>2
<1>4. TokenTypes'
  BY <1>1, <1>2, <1>3 DEF TokenTypes
<1>5. EndsInTime'
  BY <1>1, <1>2, <1>3 DEF EndsInTime
<1>6. GuideFollows'
  BY <1>1, <1>2, <1>3 DEF GuideFollows, GuideAstray
<1>7. TokensSampled'
  BY <1>1, <1>3 DEF TokensSampled
<1>8. LogprobsEndWithOutput'
  <2>1. Len(logprobs) \in Nat
    BY <1>2 DEF TokenTypes, IsList
  <2>2. Len(logprobs') - Len(output_token_ids') = Len(logprobs) /\ preempted' # 0 /\ DOMAIN output_token_ids' = {}
    BY <1>1, <1>2, <1>3, <2>1
  <2> QED
    BY <2>1, <2>2 DEF LogprobsEndWithOutput
<1> QED
  BY <1>4, <1>5, <1>6, <1>7, <1>8 DEF TokenIInv

LEMMA StartsSound == TokenInit => TokenIInv
<1> SUFFICES ASSUME TokenInit PROVE TokenIInv
  OBVIOUS
<1>1. /\ output_token_ids = <<>> /\ logprobs = <<>> /\ preempted = 0 /\ guide = 0
      /\ seq_status = "waiting" /\ has_guide \in BOOLEAN
      /\ prompt_token_ids \in Prompts /\ chain \in Chains
  BY DEF TokenInit
<1>2. MaxNewTokens \in Nat /\ MaxNewTokens > 0
  BY TokenLoopAssumption
<1>3. <<>> \in Seq(Tokens) /\ Len(<<>>) = 0 /\ DOMAIN <<>> = {} /\ IsList(<<>>)
  BY DEF IsList
<1>4. TokenTypes
  BY <1>1, <1>3, TokenLoopAssumption DEF TokenTypes
<1>5. EndsInTime
  BY <1>1, <1>2, <1>3 DEF EndsInTime
<1>6. GuideFollows
  BY <1>1, GuideAdvances DEF GuideFollows
<1>7. TokensSampled
  BY <1>1, <1>3 DEF TokensSampled
<1>8. LogprobsEndWithOutput
  BY <1>1, <1>3 DEF LogprobsEndWithOutput
<1> QED
  BY <1>4, <1>5, <1>6, <1>7, <1>8 DEF TokenIInv

\* Steps that touch none of the variables keep what is said of them.
LEMMA TokenStepKeeps == TokenIInv /\ [TokenNext]_tokenVars => TokenIInv'
<1> SUFFICES ASSUME TokenIInv, [TokenNext]_tokenVars PROVE TokenIInv'
  OBVIOUS
<1>1. CASE Generate
  BY <1>1, GenerateKeeps
<1>2. CASE Speculate
  BY <1>2, SpeculateKeeps
<1>3. CASE Preempt
  BY <1>3, PreemptKeeps
<1>4. CASE UNCHANGED tokenVars
  <2>1. /\ output_token_ids' = output_token_ids /\ logprobs' = logprobs /\ guide' = guide
        /\ seq_status' = seq_status /\ preempted' = preempted /\ has_guide' = has_guide
        /\ chain' = chain /\ prompt_token_ids' = prompt_token_ids /\ sampling_params' = sampling_params
    BY <1>4 DEF tokenVars
  <2>2. \A i : WeightsAt(i)' = WeightsAt(i)
    <3>1. \A i : /\ WeightsAt(i) = CurrentRow(SubSeq(output_token_ids, 1, i - 1))
                 /\ WeightsAt(i)' = CurrentRow(SubSeq(output_token_ids', 1, i - 1))
      BY <2>1, WeightsAre
    <3> QED
      BY <2>1, <3>1
  <2>3. TokenTypes' /\ EndsInTime' /\ GuideFollows'
    BY <2>1 DEF TokenIInv, TokenTypes, EndsInTime, GuideFollows, GuideAstray
  <2>4. TokensSampled' /\ LogprobsEndWithOutput'
    BY <2>1, <2>2 DEF TokenIInv, TokensSampled, LogprobsEndWithOutput, GuideAstray
  <2> QED
    BY <2>3, <2>4 DEF TokenIInv
<1> QED
  BY <1>1, <1>2, <1>3, <1>4 DEF TokenNext

-----------------------------------------------------------------------------
(* What TokenLoop guarantees *)

\* Drafting is lossless, for every model, every prompt, every schema and every
\* setting of the sampler, and the output ends in time: what
\* _speculative_decode_one and _finalize_token append is what plain sampling
\* may return after the tokens before it.
THEOREM TokensAsSampled == TokenSpec => []OutputAsSampled
<1>1. TokenIInv => OutputAsSampled
  <2>1. TokenIInv /\ ~GuideAstray => \A i \in DOMAIN output_token_ids :
           i < Len(output_token_ids) => output_token_ids[i] # Stop
    BY DEF TokenIInv, EndsInTime
  <2> QED
    BY <2>1 DEF TokenIInv, TokensSampled, EndsInTime, OutputAsSampled
<1> QED
  BY <1>1, StartsSound, TokenStepKeeps, PTL DEF TokenSpec

\* The log-probabilities of Sequence.append_token end with those of the output,
\* each of its own token and row, also after a sequence was started over.
THEOREM LogprobsMatch == TokenSpec => []LogprobsEndWithOutput
<1>1. TokenIInv => LogprobsEndWithOutput
  BY DEF TokenIInv
<1> QED
  BY <1>1, StartsSound, TokenStepKeeps, PTL DEF TokenSpec

-----------------------------------------------------------------------------
(* TokenLoop: what is kept for sampling *)

\* o ranks the n tokens of a row, of which one at least may be sampled.
Ranks(w, o, n) ==
    /\ n \in Nat /\ 1 \in 1 .. n /\ DOMAIN o = 1 .. n
    /\ \A k \in 1 .. n : w[o[k]] \in Nat
    /\ \A j, k \in 1 .. n : j <= k => w[o[j]] >= w[o[k]]
    /\ w[o[1]] > 0
    /\ \A k \in 0 .. n : Cumulated(w, o, k) \in Nat
    /\ \A k \in 1 .. n : Cumulated(w, o, k) = Cumulated(w, o, k - 1) + w[o[k]]
    /\ Cumulated(w, o, n) = Total(w)

\* Neighbours in order, all in order.
LEMMA DescendsFar ==
    ASSUME NEW n \in Nat, NEW h, \A k \in 1 .. n : h[k] \in Nat,
           \A k \in 1 .. n : k # 1 => h[k - 1] >= h[k]
    PROVE  \A j, k \in 1 .. n : j <= k => h[j] >= h[k]
<1> DEFINE N == {k \in Nat : k \in 1 .. n => \A j \in 1 .. k : h[j] >= h[k]}
<1>1. ASSUME NEW k \in Nat, \A m \in Nat : m < k => m \in N PROVE k \in N
  <2> SUFFICES ASSUME k \in 1 .. n, NEW j \in 1 .. k PROVE h[j] >= h[k]
    OBVIOUS
  <2>1. h[k] \in Nat /\ h[j] \in Nat
    OBVIOUS
  <2>2. CASE j = k
    BY <2>1, <2>2
  <2>3. CASE j # k
    <3>1. k - 1 \in Nat /\ k - 1 < k /\ k - 1 \in 1 .. n /\ j \in 1 .. k - 1 /\ k # 1
      BY <2>3
    <3>2. h[j] >= h[k - 1] /\ h[k - 1] >= h[k] /\ h[k - 1] \in Nat
      BY <1>1, <3>1
    <3> QED
      BY <2>1, <3>2
  <2> QED
    BY <2>2, <2>3
<1>2. N \in SUBSET Nat
  OBVIOUS
<1> HIDE DEF N
<1>3. N = Nat
  BY ONLY <1>1, <1>2, StrongInduction
<1> QED
  BY <1>3 DEF N

LEMMA RanksAre ==
    ASSUME IsFiniteSet(Tokens), NEW w \in [Tokens -> Nat], NEW u \in Tokens, w[u] > 0,
           NEW o \in Sorted(w)
    PROVE  Ranks(w, o, Cardinality(Tokens))
<1> DEFINE n == Cardinality(Tokens)
           T(k) == {o[i] : i \in 1 .. k}
<1>1. /\ n \in Nat /\ o \in [1 .. n -> Tokens] /\ IsInjective(o)
      /\ \A k \in 1 .. n : k # 1 => w[o[k - 1]] >= w[o[k]]
  BY FS_CardinalityType DEF Sorted, Rankings
<1>2. \A t \in Tokens : \E k \in 1 .. n : o[k] = t
  <2>1. o \in Injection(1 .. n, Tokens)
    BY <1>1 DEF Injection
  <2>2. IsFiniteSet(1 .. n) /\ Cardinality(1 .. n) = n
    BY <1>1, FS_Interval
  <2>3. Cardinality(1 .. n) = Cardinality(Tokens)
    BY <2>2
  <2> HIDE DEF n
  <2>4. o \in Surjection(1 .. n, Tokens)
    BY <2>1, <2>3, FS_Injection
  <2> QED
    BY <2>4 DEF Surjection
<1>3. \A k \in 1 .. n : w[o[k]] \in Nat
  BY <1>1
<1>4. \A j, k \in 1 .. n : j <= k => w[o[j]] >= w[o[k]]
  <2> DEFINE h == [k \in 1 .. n |-> w[o[k]]]
  <2>1. n \in Nat /\ (\A k \in 1 .. n : h[k] \in Nat) /\ \A k \in 1 .. n : k # 1 => h[k - 1] >= h[k]
    <3>1. \A k \in 1 .. n : k # 1 => k - 1 \in 1 .. n
      BY <1>1
    <3> QED
      BY <1>1, <1>3, <3>1
  <2>2. \A k \in 1 .. n : h[k] = w[o[k]]
    OBVIOUS
  <2> HIDE DEF h, n
  <2>3. \A j, k \in 1 .. n : j <= k => h[j] >= h[k]
    BY ONLY <2>1, DescendsFar
  <2> QED
    BY <2>2, <2>3
<1>5. 1 \in 1 .. n /\ w[o[1]] > 0
  <2>1. PICK k \in 1 .. n : o[k] = u
    BY <1>2
  <2>2. 1 \in 1 .. n /\ 1 <= k
    BY <1>1
  <2>3. w[o[1]] >= w[o[k]] /\ w[o[1]] \in Nat /\ w[o[k]] \in Nat
    BY <1>3, <1>4, <2>2
  <2> QED
    BY <2>1, <2>2, <2>3
<1>6. /\ \A X \in SUBSET Tokens : SumFunctionOnSet(w, X) \in Nat
      /\ \A X \in SUBSET Tokens : \A x \in Tokens \ X :
            SumFunctionOnSet(w, X \cup {x}) = w[x] + SumFunctionOnSet(w, X)
  <2>1. IsFiniteSet(Tokens) /\ \A x \in Tokens : w[x] \in Nat
    OBVIOUS
  <2> QED
    BY ONLY <2>1, SumAdds
<1>7. \A k \in 0 .. n : T(k) \in SUBSET Tokens /\ Cumulated(w, o, k) = SumFunctionOnSet(w, T(k))
  BY <1>1 DEF Cumulated
<1>8. \A k \in 0 .. n : Cumulated(w, o, k) \in Nat
  BY <1>6, <1>7
<1>9. ASSUME NEW k \in 1 .. n PROVE Cumulated(w, o, k) = Cumulated(w, o, k - 1) + w[o[k]]
  <2>1. k - 1 \in 0 .. n /\ k \in 0 .. n
    BY <1>1
  <2>2. T(k) = T(k - 1) \cup {o[k]}
    <3>1. 1 .. k = (1 .. k - 1) \cup {k}
      BY <1>1
    <3> QED
      BY <3>1
  <2>3. o[k] \in Tokens \ T(k - 1)
    <3>1. \A i \in 1 .. k - 1 : i \in 1 .. n /\ i # k
      BY <1>1
    <3> QED
      BY <1>1, <3>1 DEF IsInjective
  <2>4. /\ Cumulated(w, o, k) = SumFunctionOnSet(w, T(k))
        /\ Cumulated(w, o, k - 1) = SumFunctionOnSet(w, T(k - 1))
        /\ T(k - 1) \in SUBSET Tokens
        /\ Cumulated(w, o, k - 1) \in Nat
    BY <1>7, <1>8, <2>1
  <2> HIDE DEF T, n
  <2>5. Cumulated(w, o, k) = w[o[k]] + Cumulated(w, o, k - 1)
    BY <1>6, <2>2, <2>3, <2>4
  <2> QED
    BY <1>3, <2>4, <2>5
<1>10. Cumulated(w, o, n) = Total(w)
  <2>1. T(n) = Tokens
    BY <1>1, <1>2
  <2>2. n \in 0 .. n
    BY <1>1
  <2> HIDE DEF T, n
  <2> QED
    BY <1>7, <2>1, <2>2 DEF Total
<1> HIDE DEF T, n
<1>11. Ranks(w, o, n)
  BY <1>1, <1>3, <1>4, <1>5, <1>8, <1>9, <1>10 DEF Ranks
<1> QED
  BY <1>11 DEF n

\* The cumulated weights only grow, and stand still where the weights are 0.
LEMMA CumulatedGrow ==
    ASSUME NEW w, NEW o, NEW n, Ranks(w, o, n), NEW j \in 0 .. n
    PROVE  \A k \in 0 .. n : j <= k =>
              /\ Cumulated(w, o, j) <= Cumulated(w, o, k)
              /\ (\A i \in 1 .. n : j < i => w[o[i]] = 0) => Cumulated(w, o, j) = Cumulated(w, o, k)
<1> DEFINE c(k) == Cumulated(w, o, k)
           Still == \A i \in 1 .. n : j < i => w[o[i]] = 0
           N == {k \in Nat : k \in 0 .. n /\ j <= k => c(j) <= c(k) /\ (Still => c(j) = c(k))}
<1>0. /\ n \in Nat /\ \A k \in 1 .. n : w[o[k]] \in Nat
      /\ \A k \in 0 .. n : c(k) \in Nat
      /\ \A k \in 1 .. n : c(k) = c(k - 1) + w[o[k]]
  BY DEF Ranks
<1> HIDE DEF c, Still
<1>1. ASSUME NEW k \in Nat, \A m \in Nat : m < k => m \in N PROVE k \in N
  <2> SUFFICES ASSUME k \in 0 .. n, j <= k PROVE c(j) <= c(k) /\ (Still => c(j) = c(k))
    OBVIOUS
  <2>1. c(j) \in Nat /\ c(k) \in Nat
    BY <1>0
  <2>2. CASE j = k
    BY <2>1, <2>2
  <2>3. CASE j # k
    <3>1. k - 1 \in Nat /\ k - 1 < k /\ k - 1 \in 0 .. n /\ j <= k - 1 /\ k \in 1 .. n /\ j < k
      BY <1>0, <2>3
    <3>2. c(j) <= c(k - 1) /\ (Still => c(j) = c(k - 1))
      BY <1>1, <3>1
    <3>3. c(k) = c(k - 1) + w[o[k]] /\ c(k - 1) \in Nat /\ w[o[k]] \in Nat
      BY <1>0, <3>1
    <3>4. Still => w[o[k]] = 0
      BY <3>1 DEF Still
    <3> QED
      BY <2>1, <3>2, <3>3, <3>4
  <2> QED
    BY <2>2, <2>3
<1>2. N \in SUBSET Nat
  OBVIOUS
<1> HIDE DEF N
<1>3. N = Nat
  BY ONLY <1>1, <1>2, StrongInduction
<1> QED
  BY <1>0, <1>3 DEF N, c, Still

\* Behind a token of no weight everything has been counted.
LEMMA NothingLeft ==
    ASSUME NEW w, NEW o, NEW n, Ranks(w, o, n), NEW k \in 1 .. n, w[o[k]] = 0
    PROVE  Cumulated(w, o, k) = Total(w)
<1>1. /\ n \in Nat /\ Cumulated(w, o, n) = Total(w)
      /\ \A i \in 1 .. n : k < i => w[o[i]] = 0
  <2>1. n \in Nat /\ Cumulated(w, o, n) = Total(w)
    BY DEF Ranks
  <2>2. ASSUME NEW i \in 1 .. n, k < i PROVE w[o[i]] = 0
    <3>1. k <= i
      BY <2>1, <2>2
    <3>2. w[o[k]] >= w[o[i]] /\ w[o[i]] \in Nat
      BY <3>1 DEF Ranks
    <3> QED
      BY <3>2
  <2> QED
    BY <2>1, <2>2
<1>2. k \in 0 .. n /\ n \in 0 .. n /\ k <= n
  BY <1>1
<1> QED
  BY <1>1, <1>2, CumulatedGrow

LEMMA Tenths ==
    ASSUME NEW T \in Nat, T > 0, NEW p \in 0 .. 10, 10 * T <= p * T
    PROVE  p = 10
<1>1. p = 0 \/ p = 1 \/ p = 2 \/ p = 3 \/ p = 4 \/ p = 5 \/ p = 6 \/ p = 7 \/ p = 8 \/ p = 9 \/ p = 10
  OBVIOUS
<1> QED
  BY <1>1

\* What the filter keeps of a row and what its comment says it keeps.
FilteredAsDocumented(w, o, p) ==
    /\ Kept(w, o, p) \subseteq Documented(w, o, p)
    /\ Documented(w, o, p) \ Kept(w, o, p) \subseteq {Max(Nucleus(w, o, p))}
    /\ 1 \in Kept(w, o, p) /\ w[o[1]] > 0

LEMMA FilterIs ==
    ASSUME NEW w, NEW o, NEW n, Ranks(w, o, n), NEW p, p.top_k \in Nat, p.top_p \in 0 .. 10
    PROVE  FilteredAsDocumented(w, o, p)
<1> DEFINE c(k) == Cumulated(w, o, k)
           bar == p.top_p * Total(w)
<1>1. /\ n \in Nat /\ DOMAIN o = 1 .. n /\ 1 \in 1 .. n /\ w[o[1]] > 0
      /\ \A k \in 0 .. n : c(k) \in Nat
      /\ \A k \in 1 .. n : c(k) = c(k - 1) + w[o[k]] /\ w[o[k]] \in Nat
      /\ c(n) = Total(w)
  BY DEF Ranks
<1>2. Total(w) \in Nat /\ Total(w) > 0
  <2>1. 0 \in 0 .. n /\ 1 \in 0 .. n /\ n \in 0 .. n /\ 1 <= n
    BY <1>1
  <2>2. c(1) = c(1 - 1) + w[o[1]] /\ c(0) \in Nat /\ c(n) \in Nat /\ c(1) \in Nat /\ w[o[1]] \in Nat
    BY <1>1, <2>1
  <2>3. c(1) <= c(n)
    BY <2>1, CumulatedGrow
  <2> HIDE DEF c
  <2> QED
    BY <1>1, <2>2, <2>3
<1>3. bar \in Int /\ p.top_p \in Int
  BY <1>2
<1>4. /\ \A k : InTopP(w, o, k, p) <=> p.top_p = 10 \/ k = 1 \/ 10 * c(k) <= bar
      /\ Nucleus(w, o, p) = {k \in 1 .. n : p.top_p = 10 \/ k = 1 \/ 10 * c(k - 1) < bar}
      /\ Kept(w, o, p) = {k \in 1 .. n : InTopK(k, p) /\ InTopP(w, o, k, p) /\ InMinP(w, o, k, p)}
  BY <1>1 DEF InTopP, Nucleus, Kept
<1>5. Kept(w, o, p) \subseteq Documented(w, o, p)
  <2> SUFFICES ASSUME NEW k \in Kept(w, o, p) PROVE k \in Nucleus(w, o, p)
    BY <1>4 DEF Documented
  <2>1. k \in 1 .. n /\ (p.top_p = 10 \/ k = 1 \/ 10 * c(k) <= bar)
    BY <1>4
  <2>2. CASE p.top_p # 10 /\ k # 1
    <3>1. 10 * c(k) <= bar
      BY <2>1, <2>2
    <3>2. w[o[k]] > 0
      <4>1. ASSUME w[o[k]] = 0 PROVE FALSE
        <5>1. c(k) = Total(w)
          BY <2>1, <4>1, NothingLeft
        <5>2. 10 * Total(w) <= p.top_p * Total(w)
          BY <3>1, <5>1
        <5> QED
          BY <1>2, <2>2, <5>2, Tenths
      <4>2. w[o[k]] \in Nat
        BY <1>1, <2>1
      <4> QED
        BY <4>1, <4>2
    <3>3. c(k) = c(k - 1) + w[o[k]] /\ c(k) \in Nat /\ c(k - 1) \in Nat /\ w[o[k]] \in Nat
      <4>1. k \in 0 .. n /\ k - 1 \in 0 .. n
        BY <1>1, <2>1
      <4> QED
        BY <1>1, <2>1, <4>1
    <3> HIDE DEF c, bar
    <3>4. 10 * c(k - 1) < bar
      BY <1>3, <3>1, <3>2, <3>3
    <3> QED
      BY <1>4, <2>1, <3>4 DEF c, bar
  <2>3. CASE ~(p.top_p # 10 /\ k # 1)
    BY <1>4, <2>1, <2>3
  <2> QED
    BY <2>2, <2>3
<1>6. ASSUME NEW k \in Documented(w, o, p) \ Kept(w, o, p)
      PROVE  k = Max(Nucleus(w, o, p))
  <2>1. k \in Nucleus(w, o, p) /\ k \in 1 .. n /\ InTopK(k, p) /\ InMinP(w, o, k, p)
    BY <1>4 DEF Documented
  <2>2. p.top_p # 10 /\ k # 1 /\ ~(10 * c(k) <= bar)
    BY <1>4, <2>1
  <2>3. ASSUME NEW m \in Nucleus(w, o, p) PROVE m <= k
    <3> SUFFICES ASSUME k < m PROVE FALSE
      BY <1>1, <1>4, <2>1
    <3>1. m \in 1 .. n /\ 10 * c(m - 1) < bar
      BY <1>1, <1>4, <2>1, <2>2
    <3>2. k \in 0 .. n /\ m - 1 \in 0 .. n /\ k <= m - 1
      BY <1>1, <2>1, <3>1
    <3>3. c(k) <= c(m - 1) /\ c(k) \in Nat /\ c(m - 1) \in Nat
      BY <1>1, <3>2, CumulatedGrow
    <3> HIDE DEF c, bar
    <3> QED
      BY <1>3, <2>2, <3>1, <3>3
  <2>4. /\ Nucleus(w, o, p) \in SUBSET Nat /\ IsFiniteSet(Nucleus(w, o, p))
        /\ Nucleus(w, o, p) # {}
    <3>1. IsFiniteSet(1 .. n) /\ Nucleus(w, o, p) \subseteq 1 .. n
      BY <1>1, <1>4, FS_Interval
    <3>2. IsFiniteSet(Nucleus(w, o, p))
      BY ONLY <3>1, FS_Subset
    <3>3. Nucleus(w, o, p) \subseteq Nat
      BY <1>1, <3>1
    <3> QED
      BY <2>1, <3>2, <3>3
  <2>5. /\ Max(Nucleus(w, o, p)) \in Nucleus(w, o, p)
        /\ \A x \in Nucleus(w, o, p) : x <= Max(Nucleus(w, o, p))
    BY ONLY <2>4, MaxOfSet
  <2>6. k <= Max(Nucleus(w, o, p)) /\ Max(Nucleus(w, o, p)) <= k
    BY <2>1, <2>3, <2>5
  <2> QED
    BY <2>1, <2>4, <2>5, <2>6
<1>7. 1 \in Kept(w, o, p)
  <2>1. InTopK(1, p) /\ InTopP(w, o, 1, p) /\ InMinP(w, o, 1, p)
    BY DEF InTopK, InTopP, InMinP
  <2> QED
    BY <1>1, <1>4, <2>1
<1> QED
  BY <1>1, <1>5, <1>6, <1>7 DEF FilteredAsDocumented

-----------------------------------------------------------------------------
(* TokenLoop: the row in hand has a token to sample *)

\* The guide of a sequence that goes on has a token to go on with: also of one
\* that was started over.
GuideGoesOn ==
    has_guide /\ seq_status # "finished" => \E t \in Tokens : <<guide, t>> \in DOMAIN Guided

SamplingIInv ==
    /\ TokenIInv
    /\ chain \in Chains /\ sampling_params \in ParamChoices
    /\ GuideGoesOn

\* A token has a weight where the mask allows it, and only there.
LEMMA RowIs ==
    ASSUME SamplingIInv, seq_status # "finished"
    PROVE  LET w == RowWeights(History, output_token_ids, guide) IN
           /\ w \in [Tokens -> Nat]
           /\ \A t \in Tokens : w[t] > 0 <=> t \in Mask(guide)
           /\ \E t \in Tokens : w[t] > 0
<1> DEFINE p == sampling_params.repetition_penalty
           ids == Range(output_token_ids)
           last == Last(History)
           w == RowWeights(History, output_token_ids, guide)
           m == Mask(guide)
<1>1. /\ prompt_token_ids \in Seq(Tokens) /\ prompt_token_ids # <<>>
      /\ output_token_ids \in Seq(Tokens)
      /\ chain \in Chains /\ sampling_params \in ParamChoices
  BY DEF SamplingIInv, TokenIInv, TokenTypes
<1>2. last \in Tokens
  <2>1. History \in Seq(Tokens) /\ Len(History) = Len(prompt_token_ids) + Len(output_token_ids)
    BY <1>1 DEF History
  <2>2. Len(prompt_token_ids) \in Nat \ {0} /\ Len(output_token_ids) \in Nat
    BY <1>1
  <2>3. Len(History) \in 1 .. Len(History)
    BY <2>1, <2>2
  <2> QED
    BY <2>1, <2>3 DEF Last
<1>3. ids \in SUBSET Tokens
  BY <1>1 DEF Range
<1>4. \A t \in Tokens : Exp(Penalized(chain[last], ids, p)[t]) \in Nat \ {0}
  BY <1>1, <1>2, <1>3, TokenLoopAssumption
<1>5. w = [t \in Tokens |-> IF t \in m THEN Exp(Penalized(chain[last], ids, p)[t]) ELSE 0]
  BY DEF RowWeights, Weights
<1>6. \E t \in Tokens : t \in m
  <2>1. CASE has_guide
    BY <2>1 DEF SamplingIInv, GuideGoesOn, Mask
  <2>2. CASE ~has_guide
    BY <1>2, <2>2 DEF Mask
  <2> QED
    BY <2>1, <2>2
<1> HIDE DEF p, ids, last, w, m
<1>7. /\ w \in [Tokens -> Nat]
      /\ \A t \in Tokens : w[t] > 0 <=> t \in m
  <2>1. \A t \in Tokens : w[t] = IF t \in m THEN Exp(Penalized(chain[last], ids, p)[t]) ELSE 0
    BY <1>5
  <2>2. \A t \in Tokens : w[t] \in Nat
    BY <1>4, <2>1
  <2> QED
    BY <1>4, <1>5, <2>1, <2>2
<1> QED
  BY <1>6, <1>7 DEF w, m

LEMMA SampledAllowed ==
    ASSUME SamplingIInv, seq_status # "finished",
           NEW t \in Sampled(RowWeights(History, output_token_ids, guide), sampling_params)
    PROVE  t \in Tokens /\ t \in Mask(guide)
<1> DEFINE w == RowWeights(History, output_token_ids, guide)
<1>1. /\ w \in [Tokens -> Nat]
      /\ \A u \in Tokens : w[u] > 0 <=> u \in Mask(guide)
      /\ \E u \in Tokens : w[u] > 0
  BY RowIs
<1> HIDE DEF w
<1>2. t \in Sampled(w, sampling_params)
  BY DEF w
<1>3. t \in Tokens /\ w[t] > 0
  <2>1. CASE sampling_params.temperature = 0
    <3>1. t \in Tokens /\ \A u \in Tokens : w[t] >= w[u]
      BY <1>2, <2>1 DEF Sampled, Best
    <3> QED
      BY <1>1, <3>1
  <2>2. CASE sampling_params.temperature # 0
    BY <1>2, <2>2 DEF Sampled
  <2> QED
    BY <2>1, <2>2
<1> QED
  BY <1>1, <1>3

LEMMA SamplingStarts == TokenInit => SamplingIInv
<1>1. TokenInit => guide = 0 /\ chain \in Chains /\ sampling_params \in ParamChoices
  BY DEF TokenInit
<1>2. TokenInit => GuideGoesOn
  BY <1>1, GuideAssumption DEF GuideGoesOn
<1> QED
  BY <1>1, <1>2, StartsSound DEF SamplingIInv

LEMMA SamplingStepKeeps == SamplingIInv /\ [TokenNext]_tokenVars => SamplingIInv'
<1> SUFFICES ASSUME SamplingIInv, [TokenNext]_tokenVars PROVE SamplingIInv'
  OBVIOUS
<1>1. TokenIInv'
  BY TokenStepKeeps DEF SamplingIInv
<1>2. chain' = chain /\ sampling_params' = sampling_params /\ has_guide' = has_guide
  BY DEF TokenNext, Generate, Speculate, Preempt, tokenVars
<1>3. GuideGoesOn'
  <2>1. CASE Generate
    <3>1. seq_status # "finished"
      BY <2>1 DEF Generate
    <3>2. PICK t \in Sampled(RowWeights(History, output_token_ids, guide), sampling_params) :
             AppendToken(t, Logprob(RowWeights(History, output_token_ids, guide), t))
      BY <2>1, Zenon DEF Generate
    <3>3. t \in Tokens /\ t \in Mask(guide)
      BY <3>1, SampledAllowed
    <3> SUFFICES ASSUME has_guide, seq_status' # "finished"
                 PROVE  \E u \in Tokens : <<guide', u>> \in DOMAIN Guided
      BY <1>2 DEF GuideGoesOn
    <3>4. guide' = Guided[guide, t] /\ <<guide, t>> \in DOMAIN Guided
      BY <3>2, <3>3, Zenon DEF AppendToken, GuideAfter, Mask
    <3>5. guide' # GuideEnd
      BY <3>2 DEF AppendToken, Finishes
    <3> QED
      BY <3>4, <3>5, GuideAssumption
  <2>2. CASE Speculate
    BY <1>2, <2>2 DEF Speculate, GuideGoesOn
  <2>3. CASE Preempt
    BY <1>2, <2>3 DEF Preempt, GuideGoesOn, SamplingIInv
  <2>4. CASE UNCHANGED tokenVars
    BY <2>4 DEF tokenVars, GuideGoesOn, SamplingIInv
  <2> QED
    BY <2>1, <2>2, <2>3, <2>4 DEF TokenNext
<1> QED
  BY <1>1, <1>2, <1>3 DEF SamplingIInv

\* The filter of sampling.py keeps what its comments say, at most short of the
\* token that crosses top_p, and never drops the most probable token, for every
\* row of logits, every order the sort may give it, and every setting.
THEOREM SampledAsPromised == TokenSpec => []SampledAsDocumented
<1>1. SamplingIInv => SampledAsDocumented
  <2> SUFFICES ASSUME SamplingIInv, seq_status # "finished"
               PROVE  \A o \in Sorted(RowWeights(History, output_token_ids, guide)) :
                         FilteredAsDocumented(RowWeights(History, output_token_ids, guide), o, sampling_params)
    BY DEF SampledAsDocumented, FilteredAsDocumented
  <2> DEFINE w == RowWeights(History, output_token_ids, guide)
  <2>1. w \in [Tokens -> Nat] /\ \E t \in Tokens : w[t] > 0
    BY RowIs
  <2> HIDE DEF w
  <2>2. IsFiniteSet(Tokens) /\ sampling_params.top_k \in Nat /\ sampling_params.top_p \in 0 .. 10
    BY TokenLoopAssumption DEF SamplingIInv
  <2>3. ASSUME NEW o \in Sorted(w) PROVE FilteredAsDocumented(w, o, sampling_params)
    <3>1. PICK u \in Tokens : w[u] > 0
      BY <2>1
    <3>2. Ranks(w, o, Cardinality(Tokens))
      BY <2>1, <2>2, <3>1, RanksAre
    <3> QED
      BY <2>2, <3>2, FilterIs
  <2> QED
    BY <2>3 DEF w
<1> QED
  BY <1>1, SamplingStarts, SamplingStepKeeps, PTL DEF TokenSpec

-----------------------------------------------------------------------------
(* DecodeLanes: the inductive invariant *)

\* The blocks that are not the scratch sequences'.
Real == 0 .. LaneBlocks - MaxBucket

\* No block is twice in the tables and the free list.
Layout(T, free) ==
    /\ T \in [LaneSeqs -> Seq(Real)] /\ free \in Seq(Real) /\ IsInjective(free)
    /\ \A s \in LaneSeqs : IsInjective(T[s]) /\ Elems(T[s]) \cap Elems(free) = {}
    /\ \A s, r \in LaneSeqs : s # r => Elems(T[s]) \cap Elems(T[r]) = {}

\* What the first n cells of s hold, read through the table tab.
Holds(kv, tab, s, n) ==
    \A p \in 1 .. n :
        /\ OwnKey(s, p, kv[SlotOf(tab, p - 1)])
        /\ reloaded[s] \/ kv[SlotOf(tab, p - 1)].with = Delta(lora_id[s])

AllCells == (0 .. LaneBlocks - 1) \X (0 .. LaneSlots - 1)

LaneTypes ==
    /\ running \in Seq(LaneSeqs) /\ IsInjective(running)
    /\ context_len \in [LaneSeqs -> Nat]
    /\ lora_id \in [LaneSeqs -> Adapters \cup {NoLora}]
    /\ adapters \in [Adapters -> Nat] /\ loads \in Nat
    /\ reloaded \in [LaneSeqs -> BOOLEAN]
    /\ cells = [c \in AllCells |-> cells[c]]

\* A table has room for the positions of its sequence.
TablesReach == \A s \in LaneSeqs : context_len[s] <= LaneSlots * Len(block_table[s])

CellsHeld == \A s \in Live : Holds(cells, block_table[s], s, context_len[s])

LaneIInv == LaneTypes /\ Layout(block_table, free_blocks) /\ TablesReach /\ CellsHeld

-----------------------------------------------------------------------------
(* Sizes and positions *)

LEMMA LaneSizes ==
    /\ LaneSlots \in Nat /\ LaneSlots > 0 /\ LaneBlocks \in Nat /\ LaneMaxLen \in Nat
    /\ MaxBucket \in Nat /\ MaxBucket >= 2 /\ LaneBlocks >= MaxBucket
    /\ \A b \in BucketSizes : b \in Nat /\ b <= MaxBucket
    /\ \A b \in Real : b \in Nat /\ b < LaneBlocks
<1>1. /\ BucketSizes \subseteq Nat \ {0} /\ BucketSizes # {} /\ BucketSizes # {1} /\ IsFiniteSet(BucketSizes)
      /\ LaneSlots \in Nat \ {0} /\ LaneMaxLen \in Nat \ {0}
      /\ LaneBlocks \in Nat /\ LaneBlocks >= MaxBucket
  BY LanesAssumption
<1>2. \E b \in BucketSizes : \A c \in BucketSizes : c <= b
  <2>1. BucketSizes \in SUBSET Nat
    BY <1>1
  <2> QED
    BY <1>1, <2>1, MaxOfSet
<1>3. MaxBucket \in BucketSizes /\ \A c \in BucketSizes : c <= MaxBucket
  BY <1>2 DEF MaxBucket
<1>4. \E b \in BucketSizes : b # 1
  BY <1>1
<1>5. \A b \in BucketSizes : b \in Nat /\ b >= 1
  BY <1>1
<1>6. MaxBucket \in Nat /\ MaxBucket >= 2
  BY <1>3, <1>4, <1>5
<1> QED
  BY <1>1, <1>3, <1>5, <1>6 DEF Real

\* What a table of so many blocks has room for.
LEMMA RoomInNat ==
    ASSUME NEW n \in Nat
    PROVE  LaneSlots * n \in Nat
<1> DEFINE B == LaneSlots
<1>1. B \in Nat
  BY LaneSizes
<1> HIDE DEF B
<1>2. B * n \in Nat
  BY <1>1, SMTT(30)
<1> QED
  BY <1>2 DEF B

LEMMA RoomGrows ==
    ASSUME NEW m \in Nat, NEW n \in Nat, m <= n
    PROVE  LaneSlots * m \in Nat /\ LaneSlots * n \in Nat /\ LaneSlots * m <= LaneSlots * n
<1> DEFINE B == LaneSlots
<1>1. B \in Nat
  BY LaneSizes
<1> HIDE DEF B
<1>2. B * m \in Nat /\ B * n \in Nat /\ B * m <= B * n
  BY <1>1, SMTT(30)
<1> QED
  BY <1>2 DEF B

\* A position is a block of the table and a slot.
LEMMA SlotSplits ==
    ASSUME NEW pos \in Nat
    PROVE  /\ pos \div LaneSlots \in Nat /\ pos % LaneSlots \in 0 .. LaneSlots - 1
           /\ pos = LaneSlots * (pos \div LaneSlots) + (pos % LaneSlots)
           /\ \A n \in Nat : pos < LaneSlots * n => pos \div LaneSlots + 1 \in 1 .. n
<1> DEFINE q == pos \div LaneSlots
           r == pos % LaneSlots
           B == LaneSlots
<1>1. B \in Nat /\ B > 0
  BY LaneSizes
<1>2. q \in Nat /\ r \in Nat /\ r < B /\ pos = B * q + r
  BY <1>1, SMTT(30)
<1> HIDE DEF q, r, B
<1>3. ASSUME NEW n \in Nat, pos < B * n PROVE q < n
  <2> SUFFICES ASSUME n <= q PROVE FALSE
    BY <1>2
  <2>1. B * n <= B * q /\ B * n \in Nat /\ B * q \in Nat
    BY <1>1, <1>2, SMTT(30)
  <2> QED
    BY <1>2, <1>3, <2>1
<1>4. \A n \in Nat : pos < B * n => q + 1 \in 1 .. n
  BY <1>2, <1>3
<1>5. r \in 0 .. B - 1
  BY <1>1, <1>2
<1> QED
  BY ONLY <1>2, <1>4, <1>5, Zenon DEF q, r, B

\* The cells of one table, of two that share no block, and of one that grew.
LEMMA CellsOfTables ==
    ASSUME NEW T \in Seq(Real), IsInjective(T), NEW p \in Nat, p < LaneSlots * Len(T)
    PROVE  /\ SlotOf(T, p) \in AllCells /\ SlotOf(T, p)[1] \in Elems(T)
           /\ \A q \in Nat : q < LaneSlots * Len(T) /\ SlotOf(T, p) = SlotOf(T, q) => p = q
           /\ \A U : (\A i \in 1 .. Len(T) : U[i] = T[i]) => SlotOf(U, p) = SlotOf(T, p)
<1> DEFINE I(q) == q \div LaneSlots + 1
<1>1. Len(T) \in Nat /\ DOMAIN T = 1 .. Len(T) /\ \A i \in 1 .. Len(T) : T[i] \in Real
  OBVIOUS
<1>2. \A q \in Nat : q < LaneSlots * Len(T) => I(q) \in 1 .. Len(T)
  BY <1>1, SlotSplits
<1>3. \A q : SlotOf(T, q) = <<T[I(q)], q % LaneSlots>>
  BY DEF SlotOf
<1>4. SlotOf(T, p) \in AllCells /\ SlotOf(T, p)[1] \in Elems(T)
  <2>1. T[I(p)] \in Real /\ T[I(p)] \in Elems(T)
    BY <1>1, <1>2 DEF Elems
  <2>2. T[I(p)] \in 0 .. LaneBlocks - 1
    BY <2>1, LaneSizes
  <2>3. p % LaneSlots \in 0 .. LaneSlots - 1
    BY SlotSplits
  <2> QED
    BY <1>3, <2>1, <2>2, <2>3 DEF AllCells
<1>5. ASSUME NEW q \in Nat, q < LaneSlots * Len(T), SlotOf(T, p) = SlotOf(T, q)
      PROVE  p = q
  <2>1. T[I(p)] = T[I(q)] /\ p % LaneSlots = q % LaneSlots
    BY <1>3, <1>5
  <2>2. I(p) = I(q)
    BY <1>1, <1>2, <1>5, <2>1 DEF IsInjective
  <2>3. p \div LaneSlots = q \div LaneSlots
    <3>1. p \div LaneSlots \in Nat /\ q \div LaneSlots \in Nat
      BY SlotSplits
    <3> QED
      BY <2>2, <3>1
  <2>4. /\ p = LaneSlots * (p \div LaneSlots) + (p % LaneSlots)
        /\ q = LaneSlots * (q \div LaneSlots) + (q % LaneSlots)
    BY SlotSplits
  <2> QED
    BY <2>1, <2>3, <2>4
<1>6. ASSUME NEW U, \A i \in 1 .. Len(T) : U[i] = T[i]
      PROVE  SlotOf(U, p) = SlotOf(T, p)
  <2>1. U[I(p)] = T[I(p)]
    BY <1>2, <1>6
  <2> QED
    BY <2>1 DEF SlotOf
<1> QED
  BY <1>4, <1>5, <1>6

-----------------------------------------------------------------------------
(* Writing rows *)

LEMMA RowsWrite ==
    ASSUME NEW kv, NEW rows
    PROVE  /\ DOMAIN Written(kv, rows) = DOMAIN kv
           /\ Written(kv, rows) = [c \in DOMAIN kv |-> Written(kv, rows)[c]]
           /\ \A c \in DOMAIN kv : (\A i \in DOMAIN rows : rows[i].write # c) => Written(kv, rows)[c] = kv[c]
           /\ \A c \in DOMAIN kv, i \in DOMAIN rows :
                 rows[i].write = c /\ DOMAIN rows \subseteq Nat /\ (\A j \in DOMAIN rows : rows[j].write = c => j = i) =>
                    Written(kv, rows)[c] = [of |-> rows[i].of, pos |-> rows[i].pos, with |-> rows[i].with]
<1> DEFINE on(c) == {i \in DOMAIN rows : rows[i].write = c}
           last(c) == CHOOSE i \in on(c) : \A j \in on(c) : j <= i
           w == Written(kv, rows)
<1>1. w = [c \in DOMAIN kv |->
             IF on(c) = {} THEN kv[c]
             ELSE [of |-> rows[last(c)].of, pos |-> rows[last(c)].pos, with |-> rows[last(c)].with]]
  BY DEF Written
<1>2. DOMAIN w = DOMAIN kv /\ w = [c \in DOMAIN kv |-> w[c]]
  BY <1>1
<1>3. \A c \in DOMAIN kv : (\A i \in DOMAIN rows : rows[i].write # c) => w[c] = kv[c]
  BY <1>1
<1>4. ASSUME NEW c \in DOMAIN kv, NEW i \in DOMAIN rows,
             rows[i].write = c, DOMAIN rows \subseteq Nat, \A j \in DOMAIN rows : rows[j].write = c => j = i
      PROVE  w[c] = [of |-> rows[i].of, pos |-> rows[i].pos, with |-> rows[i].with]
  <2>1. on(c) = {i} /\ i \in Nat
    BY <1>4
  <2>2. last(c) = i
    <3>1. \A j \in on(c) : j <= i
      BY <2>1
    <3> HIDE DEF on
    <3> QED
      BY <2>1, <3>1
  <2>3. on(c) # {}
    BY <2>1
  <2> HIDE DEF on, last, w
  <2>4. w[c] = [of |-> rows[last(c)].of, pos |-> rows[last(c)].pos, with |-> rows[last(c)].with]
    BY <1>1, <2>3
  <2> QED
    BY <2>2, <2>4
<1> HIDE DEF w
<1>5. w = Written(kv, rows)
  BY DEF w
<1> QED
  BY ONLY <1>2, <1>3, <1>4, <1>5

-----------------------------------------------------------------------------
(* Blocks for a batch *)

LEMMA GrantsGrow ==
    ASSUME NEW batch \in Seq(LaneSeqs)
    PROVE  /\ \A i \in 0 .. Len(batch) : Grants(batch, i) \in Nat
           /\ \A i, j \in 0 .. Len(batch) : i <= j => Grants(batch, i) <= Grants(batch, j)
           /\ \A i, j \in 0 .. Len(batch) : i < j /\ Full(batch[j]) => Grants(batch, i) < Grants(batch, j)
<1> DEFINE F(i) == {j \in 1 .. i : Full(batch[j])}
<1>1. \A i : Grants(batch, i) = Cardinality(F(i))
  BY DEF Grants
<1>2. ASSUME NEW i \in 0 .. Len(batch) PROVE IsFiniteSet(F(i)) /\ Cardinality(F(i)) \in Nat
  <2>1. IsFiniteSet(1 .. i)
    BY FS_Interval
  <2>2. IsFiniteSet(F(i))
    BY <2>1, FS_Subset
  <2> QED
    BY <2>2, FS_CardinalityType
<1>3. ASSUME NEW i \in 0 .. Len(batch), NEW j \in 0 .. Len(batch), i <= j
      PROVE  Cardinality(F(i)) <= Cardinality(F(j))
  <2>1. F(i) \subseteq F(j)
    BY <1>3
  <2> HIDE DEF F
  <2> QED
    BY <1>2, <2>1, FS_Subset
<1>4. ASSUME NEW i \in 0 .. Len(batch), NEW j \in 0 .. Len(batch), i < j, Full(batch[j])
      PROVE  Cardinality(F(i)) < Cardinality(F(j))
  <2>1. F(i) \subseteq F(j) /\ j \in F(j) /\ j \notin F(i)
    BY <1>4
  <2> HIDE DEF F
  <2>2. F(i) # F(j)
    BY <2>1
  <2>3. IsFiniteSet(F(j)) /\ Cardinality(F(i)) \in Nat /\ Cardinality(F(j)) \in Nat
    BY <1>2
  <2>4. Cardinality(F(i)) <= Cardinality(F(j)) /\ (Cardinality(F(i)) = Cardinality(F(j)) => F(i) = F(j))
    BY <2>1, <2>3, FS_Subset
  <2> QED
    BY <2>2, <2>3, <2>4
<1> HIDE DEF F
<1> QED
  BY <1>1, <1>2, <1>3, <1>4

\* Which rows of a batch are granted a block, and which block.
IsGranted(batch, s) == \E i \in Granted(batch) : batch[i] = s
RowFor(batch, s) == CHOOSE i \in Granted(batch) : batch[i] = s

LEMMA GrantsDiffer ==
    ASSUME Layout(block_table, free_blocks), NEW batch \in Seq(LaneSeqs), IsInjective(batch)
    PROVE  /\ \A s \in LaneSeqs : IsGranted(batch, s) =>
                /\ RowFor(batch, s) \in Granted(batch) /\ batch[RowFor(batch, s)] = s
                /\ \E x \in 1 .. Len(free_blocks) :
                      /\ Grant(batch, RowFor(batch, s)) = free_blocks[x]
                      /\ x > Len(free_blocks) - Grants(batch, Len(batch))
                /\ \A r \in LaneSeqs : IsGranted(batch, r)
                      /\ Grant(batch, RowFor(batch, s)) = Grant(batch, RowFor(batch, r)) => s = r
           /\ \A i \in Granted(batch) : IsGranted(batch, batch[i]) /\ RowFor(batch, batch[i]) = i
<1> DEFINE N == Len(free_blocks)
           n == Len(batch)
           X(i) == N + 1 - Grants(batch, i)
<1>1. N \in Nat /\ n \in Nat /\ DOMAIN batch = 1 .. n /\ DOMAIN free_blocks = 1 .. N
  BY DEF Layout
<1>2. /\ \A i \in 0 .. n : Grants(batch, i) \in Nat
      /\ \A i, j \in 0 .. n : i <= j => Grants(batch, i) <= Grants(batch, j)
      /\ \A i, j \in 0 .. n : i < j /\ Full(batch[j]) => Grants(batch, i) < Grants(batch, j)
  BY ONLY GrantsGrow, batch \in Seq(LaneSeqs)
<1>3. \A i \in Granted(batch) : i \in 1 .. n /\ Full(batch[i]) /\ Grants(batch, i) <= N
  BY <1>1 DEF Granted
<1>4. \A i \in Granted(batch) : X(i) \in 1 .. N /\ X(i) > N - Grants(batch, n) /\ Grant(batch, i) = free_blocks[X(i)]
  <2>1. ASSUME NEW i \in Granted(batch)
        PROVE  X(i) \in 1 .. N /\ X(i) > N - Grants(batch, n)
    <3>1. i \in 0 .. n /\ 0 \in 0 .. n /\ n \in 0 .. n /\ 0 < i /\ i <= n
      BY <1>1, <1>3
    <3>2. Grants(batch, 0) < Grants(batch, i) /\ Grants(batch, i) <= Grants(batch, n)
      BY <1>2, <1>3, <3>1
    <3>3. Grants(batch, 0) \in Nat /\ Grants(batch, i) \in Nat /\ Grants(batch, n) \in Nat /\ Grants(batch, i) <= N
      BY <1>2, <1>3, <3>1
    <3> QED
      BY <1>1, <3>2, <3>3
  <2>2. \A i \in Granted(batch) : Grant(batch, i) = free_blocks[X(i)]
    BY DEF Grant
  <2> QED
    BY <2>1, <2>2
<1>5. ASSUME NEW i \in Granted(batch), NEW j \in Granted(batch), Grant(batch, i) = Grant(batch, j)
      PROVE  i = j
  <2>1. X(i) = X(j)
    <3>1. free_blocks[X(i)] = free_blocks[X(j)] /\ X(i) \in DOMAIN free_blocks /\ X(j) \in DOMAIN free_blocks
      BY <1>1, <1>4, <1>5
    <3> HIDE DEF X
    <3> QED
      BY <3>1 DEF Layout, IsInjective
  <2>2. i \in 0 .. n /\ j \in 0 .. n /\ i \in Nat /\ j \in Nat
    BY <1>1, <1>3
  <2>3. Grants(batch, i) = Grants(batch, j)
    BY <1>1, <1>2, <2>1, <2>2
  <2>4. ~(i < j) /\ ~(j < i)
    <3>1. Full(batch[i]) /\ Full(batch[j]) /\ Grants(batch, i) \in Nat
      BY <1>2, <1>3, <2>2
    <3>2. ASSUME i < j PROVE FALSE
      <4>1. Grants(batch, i) < Grants(batch, j)
        BY <1>2, <2>2, <3>1, <3>2
      <4> QED
        BY <2>3, <3>1, <4>1
    <3>3. ASSUME j < i PROVE FALSE
      <4>1. Grants(batch, j) < Grants(batch, i)
        BY <1>2, <2>2, <3>1, <3>3
      <4> QED
        BY <2>3, <3>1, <4>1
    <3> QED
      BY <3>2, <3>3
  <2> QED
    BY <2>2, <2>4
<1>6. \A s : IsGranted(batch, s) => RowFor(batch, s) \in Granted(batch) /\ batch[RowFor(batch, s)] = s
  BY DEF IsGranted, RowFor
<1>7. \A i \in Granted(batch) : IsGranted(batch, batch[i]) /\ RowFor(batch, batch[i]) = i
  <2>1. \A i \in Granted(batch) : IsGranted(batch, batch[i])
    BY DEF IsGranted
  <2> QED
    BY <1>1, <1>3, <1>6, <2>1 DEF IsInjective
<1>8. ASSUME NEW s \in LaneSeqs, IsGranted(batch, s)
      PROVE  /\ \E x \in 1 .. N : Grant(batch, RowFor(batch, s)) = free_blocks[x] /\ x > N - Grants(batch, n)
             /\ \A r \in LaneSeqs : IsGranted(batch, r)
                   /\ Grant(batch, RowFor(batch, s)) = Grant(batch, RowFor(batch, r)) => s = r
  <2>1. RowFor(batch, s) \in Granted(batch) /\ batch[RowFor(batch, s)] = s
    BY <1>6, <1>8
  <2>2. \E x \in 1 .. N : Grant(batch, RowFor(batch, s)) = free_blocks[x] /\ x > N - Grants(batch, n)
    BY <1>4, <2>1
  <2>3. ASSUME NEW r \in LaneSeqs, IsGranted(batch, r), Grant(batch, RowFor(batch, s)) = Grant(batch, RowFor(batch, r))
        PROVE  s = r
    <3>1. RowFor(batch, r) \in Granted(batch) /\ batch[RowFor(batch, r)] = r
      BY <1>6, <2>3
    <3> QED
      BY <1>5, <2>1, <2>3, <3>1
  <2> QED
    BY <2>2, <2>3
<1> HIDE DEF X, N, n
<1> QED
  BY <1>6, <1>7, <1>8 DEF N, n

\* U begins with T.
Begins(U, T) == Len(T) <= Len(U) /\ \A i \in 1 .. Len(T) : U[i] = T[i]

LEMMA ReservedIs ==
    ASSUME NEW batch
    PROVE  Reserved(batch) = [s \in LaneSeqs |->
              IF IsGranted(batch, s) THEN Append(block_table[s], Grant(batch, RowFor(batch, s)))
              ELSE block_table[s]]
BY DEF Reserved, IsGranted, RowFor

\* The tables grow at their ends, into blocks that were free and that nobody
\* else of the batch gets.
LEMMA ReservedGrows ==
    ASSUME Layout(block_table, free_blocks),
           NEW batch \in Seq(LaneSeqs), IsInjective(batch),
           NEW m \in 0 .. Len(free_blocks),
           m = 0 \/ m + Grants(batch, Len(batch)) <= Len(free_blocks)
    PROVE  /\ Layout(Reserved(batch), SubSeq(free_blocks, 1, m))
           /\ \A s \in LaneSeqs : Begins(Reserved(batch)[s], block_table[s])
<1> DEFINE R    == Reserved(batch)
           rest == SubSeq(free_blocks, 1, m)
           b(s) == Grant(batch, RowFor(batch, s))
           G(s) == IsGranted(batch, s)
           N    == Len(free_blocks)
           T(s) == block_table[s]
<1>1. /\ \A s \in LaneSeqs : T(s) \in Seq(Real) /\ IsInjective(T(s)) /\ Elems(T(s)) \cap Elems(free_blocks) = {}
      /\ \A s, r \in LaneSeqs : s # r => Elems(T(s)) \cap Elems(T(r)) = {}
      /\ free_blocks \in Seq(Real) /\ IsInjective(free_blocks)
  BY DEF Layout
<1>2. N \in Nat /\ m \in Nat /\ DOMAIN free_blocks = 1 .. N /\ \A x \in 1 .. N : free_blocks[x] \in Real
  BY <1>1
<1>3. ASSUME NEW s \in LaneSeqs, G(s)
      PROVE  /\ \E x \in 1 .. N : b(s) = free_blocks[x] /\ x > N - Grants(batch, Len(batch))
             /\ \A r \in LaneSeqs : G(r) /\ b(s) = b(r) => s = r
  BY <1>3, GrantsDiffer
<1>4. rest \in Seq(Real) /\ Len(rest) = m /\ DOMAIN rest = 1 .. m /\ \A i \in 1 .. m : rest[i] = free_blocks[i]
  BY <1>1, <1>2
<1>5. IsInjective(rest) /\ Elems(rest) \subseteq Elems(free_blocks)
  <2> HIDE DEF rest
  <2>1. \A i \in 1 .. m : i \in DOMAIN free_blocks
    BY <1>2
  <2> QED
    BY <1>1, <1>4, <2>1 DEF IsInjective, Elems
<1>6. ASSUME NEW s \in LaneSeqs, G(s)
      PROVE  b(s) \in Real /\ b(s) \in Elems(free_blocks) /\ b(s) \notin Elems(rest)
  <2>1. PICK x \in 1 .. N : b(s) = free_blocks[x] /\ x > N - Grants(batch, Len(batch))
    BY <1>3, <1>6
  <2>2. b(s) \in Real /\ b(s) \in Elems(free_blocks)
    BY <1>2, <2>1 DEF Elems
  <2>3. ASSUME NEW i \in 1 .. m PROVE rest[i] # b(s)
    <3>1. rest[i] = free_blocks[i] /\ i \in 1 .. N
      BY <1>2, <1>4
    <3>2. i # x
      <4>1. Grants(batch, Len(batch)) \in Nat
        <5>1. Len(batch) \in 0 .. Len(batch)
          OBVIOUS
        <5> QED
          BY <5>1, GrantsGrow
      <4> QED
        BY <1>2, <2>1, <4>1
    <3> QED
      BY <1>1, <1>2, <2>1, <3>1, <3>2 DEF IsInjective
  <2>4. b(s) \notin Elems(rest)
    <3> HIDE DEF rest, b
    <3> QED
      BY <1>4, <2>3 DEF Elems
  <2> QED
    BY <2>2, <2>4
<1>7. R = [s \in LaneSeqs |-> IF G(s) THEN Append(T(s), b(s)) ELSE T(s)]
  BY ReservedIs
<1> HIDE DEF R, rest, b, G, N, T
<1>8. ASSUME NEW s \in LaneSeqs
      PROVE  /\ R[s] \in Seq(Real) /\ IsInjective(R[s]) /\ Begins(R[s], T(s))
             /\ Elems(R[s]) = Elems(T(s)) \cup (IF G(s) THEN {b(s)} ELSE {})
  <2>1. CASE G(s)
    <3>1. R[s] = Append(T(s), b(s)) /\ T(s) \in Seq(Real) /\ b(s) \in Real /\ b(s) \notin Elems(T(s)) /\ IsInjective(T(s))
      BY <1>1, <1>6, <1>7, <2>1
    <3>2. /\ Append(T(s), b(s)) \in Seq(Real) /\ Elems(Append(T(s), b(s))) = Elems(T(s)) \cup {b(s)}
          /\ IsInjective(T(s)) /\ b(s) \notin Elems(T(s)) => IsInjective(Append(T(s), b(s)))
      BY ONLY <3>1, AppendList
    <3>3. Begins(Append(T(s), b(s)), T(s))
      BY <3>1 DEF Begins
    <3> QED
      BY <2>1, <3>1, <3>2, <3>3
  <2>2. CASE ~G(s)
    <3>1. R[s] = T(s)
      BY <1>7, <2>2
    <3>2. Begins(T(s), T(s))
      BY <1>1 DEF Begins
    <3> QED
      BY <1>1, <2>2, <3>1, <3>2
  <2> QED
    BY <2>1, <2>2
<1>9. R \in [LaneSeqs -> Seq(Real)]
  BY <1>7, <1>8
<1>10. ASSUME NEW s \in LaneSeqs PROVE Elems(R[s]) \cap Elems(rest) = {}
  BY <1>1, <1>5, <1>6, <1>8
<1>11. ASSUME NEW s \in LaneSeqs, NEW r \in LaneSeqs, s # r
       PROVE  Elems(R[s]) \cap Elems(R[r]) = {}
  <2>1. /\ Elems(R[s]) = Elems(T(s)) \cup (IF G(s) THEN {b(s)} ELSE {})
        /\ Elems(R[r]) = Elems(T(r)) \cup (IF G(r) THEN {b(r)} ELSE {})
        /\ Elems(T(s)) \cap Elems(T(r)) = {}
        /\ Elems(T(s)) \cap Elems(free_blocks) = {} /\ Elems(T(r)) \cap Elems(free_blocks) = {}
    BY <1>1, <1>8, <1>11
  <2>2. /\ G(s) => b(s) \in Elems(free_blocks)
        /\ G(r) => b(r) \in Elems(free_blocks)
        /\ G(s) /\ G(r) => b(s) # b(r)
    BY <1>3, <1>6, <1>11
  <2> QED
    BY <2>1, <2>2
<1>12. Layout(R, rest)
  BY <1>4, <1>5, <1>8, <1>9, <1>10, <1>11 DEF Layout
<1> QED
  BY <1>8, <1>12 DEF R, rest, T

\* Who is served has room for one more.
LEMMA ReservedRoom ==
    ASSUME Layout(block_table, free_blocks), context_len \in [LaneSeqs -> Nat], TablesReach,
           NEW batch \in Seq(LaneSeqs), IsInjective(batch),
           NEW i \in 1 .. Len(batch), Grants(batch, i) <= Len(free_blocks)
    PROVE  context_len[batch[i]] < LaneSlots * Len(Reserved(batch)[batch[i]])
<1> DEFINE s == batch[i]
           n == Len(block_table[s])
<1>1. /\ s \in LaneSeqs /\ context_len[s] \in Nat /\ n \in Nat /\ block_table[s] \in Seq(Real)
      /\ context_len[s] <= LaneSlots * n
  BY DEF Layout, TablesReach
<1>2. LaneSlots \in Nat /\ LaneSlots > 0
  BY LaneSizes
<1>3. LaneSlots * (n + 1) = LaneSlots * n + LaneSlots /\ LaneSlots * n \in Nat
  BY <1>1, <1>2, SMTT(30)
<1>4. CASE Full(s)
  <2>1. i \in Granted(batch)
    BY <1>4 DEF Granted
  <2>2. IsGranted(batch, s)
    BY <2>1 DEF IsGranted
  <2>3. Reserved(batch)[s] = Append(block_table[s], Grant(batch, RowFor(batch, s)))
    BY <1>1, <2>2, ReservedIs
  <2>4. Len(Reserved(batch)[s]) = n + 1
    BY <1>1, <2>3
  <2>5. context_len[s] = LaneSlots * n
    BY <1>4 DEF Full
  <2> HIDE DEF n, s
  <2> QED
    BY <1>1, <1>2, <1>3, <2>4, <2>5 DEF s
<1>5. CASE ~Full(s)
  <2>1. ~IsGranted(batch, s)
    <3>1. \A j \in Granted(batch) : Full(batch[j])
      BY DEF Granted
    <3> QED
      BY <1>5, <3>1 DEF IsGranted
  <2>2. Reserved(batch)[s] = block_table[s]
    BY <1>1, <2>1, ReservedIs
  <2>3. context_len[s] # LaneSlots * n
    BY <1>5 DEF Full
  <2> QED
    BY <1>1, <1>3, <2>2, <2>3
<1> QED
  BY <1>4, <1>5

\* With blocks for everybody, everybody is served.
LEMMA ServedHaveRoom ==
    ASSUME Layout(block_table, free_blocks), context_len \in [LaneSeqs -> Nat], TablesReach,
           NEW batch \in Seq(LaneSeqs), IsInjective(batch), Grants(batch, Len(batch)) <= Len(free_blocks)
    PROVE  \A s \in Elems(batch) : context_len[s] < LaneSlots * Len(Reserved(batch)[s])
<1> DEFINE T == Reserved(batch)
<1>1. ASSUME NEW i \in 1 .. Len(batch) PROVE context_len[batch[i]] < LaneSlots * Len(T[batch[i]])
  <2>1. i \in 0 .. Len(batch) /\ Len(batch) \in 0 .. Len(batch) /\ i <= Len(batch)
    OBVIOUS
  <2>2. Grants(batch, i) <= Grants(batch, Len(batch)) /\ Grants(batch, i) \in Nat /\ Grants(batch, Len(batch)) \in Nat
    BY <2>1, GrantsGrow
  <2>3. Len(free_blocks) \in Nat
    BY DEF Layout
  <2>4. Grants(batch, i) <= Len(free_blocks)
    BY <2>2, <2>3
  <2> QED
    BY <2>4, ReservedRoom
<1> HIDE DEF T
<1>2. \A s \in Elems(batch) : \E i \in 1 .. Len(batch) : batch[i] = s
  BY ElemsOf
<1>3. \A s \in Elems(batch) : context_len[s] < LaneSlots * Len(T[s])
  BY <1>1, <1>2
<1> QED
  BY <1>3 DEF T

\* The batch that is decoded first is served first.
LEMMA FrontReserved ==
    ASSUME Layout(block_table, free_blocks),
           NEW front \in Seq(LaneSeqs), NEW more \in Seq(LaneSeqs), IsInjective(front \o more)
    PROVE  /\ \A i \in 0 .. Len(front) : Grants(front \o more, i) = Grants(front, i)
           /\ \A s \in LaneSeqs : Begins(Reserved(front \o more)[s], Reserved(front)[s])
<1> DEFINE whole == front \o more
           n == Len(front)
<1>1. /\ whole \in Seq(LaneSeqs) /\ Len(whole) = n + Len(more) /\ n \in Nat /\ Len(more) \in Nat
      /\ \A i \in 1 .. n : whole[i] = front[i]
  OBVIOUS
<1>2. DOMAIN whole = 1 .. n + Len(more) /\ DOMAIN front = 1 .. n
  <2> HIDE DEF whole
  <2> QED
    BY <1>1
<1> HIDE DEF whole, n
<1>3. ASSUME NEW i \in 0 .. n PROVE Grants(whole, i) = Grants(front, i)
  <2>1. \A j \in 1 .. i : j \in 1 .. n
    BY <1>1
  <2>2. {j \in 1 .. i : Full(whole[j])} = {j \in 1 .. i : Full(front[j])}
    BY <1>1, <2>1
  <2> QED
    BY <2>2 DEF Grants
<1>4. ASSUME NEW i \in Granted(front)
      PROVE  i \in Granted(whole) /\ Grant(whole, i) = Grant(front, i) /\ whole[i] = front[i]
  <2>1. i \in 1 .. n /\ i \in 0 .. n /\ i \in 1 .. n + Len(more)
    BY <1>1, <1>2 DEF Granted
  <2>2. Grants(whole, i) = Grants(front, i) /\ whole[i] = front[i]
    BY <1>1, <1>3, <2>1
  <2> QED
    BY <1>2, <2>1, <2>2 DEF Granted, Grant
<1>5. IsInjective(whole)
  BY DEF whole
<1>6. ASSUME NEW s \in LaneSeqs PROVE Begins(Reserved(whole)[s], Reserved(front)[s])
  <2>1. CASE IsGranted(front, s)
    <3>1. RowFor(front, s) \in Granted(front) /\ front[RowFor(front, s)] = s
      BY <2>1 DEF IsGranted, RowFor
    <3> DEFINE i == RowFor(front, s)
    <3>2. i \in Granted(whole) /\ Grant(whole, i) = Grant(front, i) /\ whole[i] = s
      BY <1>4, <3>1
    <3>3. IsGranted(whole, s) /\ RowFor(whole, s) = i
      <4>1. \A j \in Granted(whole) : IsGranted(whole, whole[j]) /\ RowFor(whole, whole[j]) = j
        BY <1>1, <1>5, GrantsDiffer
      <4> QED
        BY <3>2, <4>1
    <3>4. Reserved(whole)[s] = Reserved(front)[s]
      BY <2>1, <3>2, <3>3, ReservedIs
    <3>5. Len(Reserved(front)[s]) \in Nat
      <4>1. Reserved(front)[s] = Append(block_table[s], Grant(front, i)) /\ block_table[s] \in Seq(Real)
        BY <2>1, ReservedIs DEF Layout
      <4> HIDE DEF i
      <4>2. block_table[s] \in Seq(Real \cup {Grant(front, i)})
        BY <4>1
      <4> QED
        BY <4>1, <4>2
    <3> QED
      BY <3>4, <3>5 DEF Begins
  <2>2. CASE ~IsGranted(front, s)
    <3>1. Reserved(front)[s] = block_table[s]
      BY <2>2, ReservedIs
    <3>2. Begins(Reserved(whole)[s], block_table[s])
      <4>1. 0 \in 0 .. Len(free_blocks)
        BY DEF Layout
      <4> QED
        BY <1>1, <1>5, <4>1, ReservedGrows
    <3> QED
      BY <3>1, <3>2
  <2> QED
    BY <2>1, <2>2
<1> QED
  BY <1>3, <1>6 DEF whole, n

-----------------------------------------------------------------------------
(* One forward pass *)

\* The row of the last token of s, on the tables T.
RowOf(row, s, T) ==
    /\ row.of = s /\ row.pos = context_len[s] /\ row.with = Delta(lora_id[s])
    /\ row.write = SlotOf(T[s], context_len[s])

\* The rows of a pass: those of a batch, and padding.
RowsOf(rows, batch, T) ==
    /\ \E n \in Nat : DOMAIN rows = 1 .. n /\ Len(batch) <= n
    /\ \A i \in 1 .. Len(batch) : RowOf(rows[i], batch[i], T)
    /\ \A i \in DOMAIN rows : i \notin 1 .. Len(batch) => rows[i].write[1] \notin Real

\* Nobody writes where a sequence reads, except its own last cell.
PassLeaves(w, kv, batch, T) ==
    /\ DOMAIN w = AllCells /\ w = [c \in AllCells |-> w[c]]
    /\ \A s \in Elems(batch) : Holds(kv, T[s], s, context_len[s]) => Holds(w, T[s], s, context_len[s] + 1)
    /\ \A s \in LaneSeqs \ Elems(batch) : \A n \in Nat :
          n <= LaneSlots * Len(T[s]) /\ Holds(kv, T[s], s, n) => Holds(w, T[s], s, n)

LEMMA PassIsOwn ==
    ASSUME context_len \in [LaneSeqs -> Nat], NEW T, NEW free, Layout(T, free),
           NEW kv, DOMAIN kv = AllCells,
           NEW batch \in Seq(LaneSeqs), IsInjective(batch), NEW rows, RowsOf(rows, batch, T),
           \A s \in Elems(batch) : context_len[s] < LaneSlots * Len(T[s])
    PROVE  PassLeaves(Written(kv, rows), kv, batch, T)
<1> DEFINE w == Written(kv, rows)
           n == Len(batch)
<1>1. /\ DOMAIN w = AllCells /\ w = [c \in AllCells |-> w[c]]
      /\ \A c \in AllCells : (\A i \in DOMAIN rows : rows[i].write # c) => w[c] = kv[c]
      /\ \A c \in AllCells, i \in DOMAIN rows :
            rows[i].write = c /\ DOMAIN rows \subseteq Nat /\ (\A j \in DOMAIN rows : rows[j].write = c => j = i) =>
               w[c] = [of |-> rows[i].of, pos |-> rows[i].pos, with |-> rows[i].with]
  <2>1. /\ DOMAIN w = DOMAIN kv /\ w = [c \in DOMAIN kv |-> w[c]]
        /\ \A c \in DOMAIN kv : (\A i \in DOMAIN rows : rows[i].write # c) => w[c] = kv[c]
        /\ \A c \in DOMAIN kv, i \in DOMAIN rows :
              rows[i].write = c /\ DOMAIN rows \subseteq Nat /\ (\A j \in DOMAIN rows : rows[j].write = c => j = i) =>
                 w[c] = [of |-> rows[i].of, pos |-> rows[i].pos, with |-> rows[i].with]
    BY ONLY RowsWrite
  <2> HIDE DEF w
  <2> QED
    BY ONLY <2>1, DOMAIN kv = AllCells, Zenon
<1> HIDE DEF w
<1>2. n \in Nat /\ DOMAIN batch = 1 .. n /\ \A i \in 1 .. n : batch[i] \in LaneSeqs /\ batch[i] \in Elems(batch)
  BY DEF Elems
<1>3. /\ DOMAIN rows \subseteq Nat /\ \A i \in 1 .. n : i \in DOMAIN rows
      /\ \A i \in 1 .. n : RowOf(rows[i], batch[i], T)
      /\ \A i \in DOMAIN rows : i \notin 1 .. n => rows[i].write[1] \notin Real
  <2>1. PICK k \in Nat : DOMAIN rows = 1 .. k /\ n <= k
    BY DEF RowsOf
  <2>2. DOMAIN rows \subseteq Nat /\ \A i \in 1 .. n : i \in DOMAIN rows
    BY <1>2, <2>1
  <2> QED
    BY <2>2 DEF RowsOf
<1>4. \A s \in LaneSeqs : /\ T[s] \in Seq(Real) /\ IsInjective(T[s]) /\ Len(T[s]) \in Nat /\ context_len[s] \in Nat
                          /\ Elems(T[s]) \subseteq Real
  <2>1. \A s \in LaneSeqs : T[s] \in Seq(Real) /\ IsInjective(T[s])
    BY DEF Layout
  <2>2. \A s \in LaneSeqs : Elems(T[s]) \subseteq Real
    BY <2>1, ElemsOf
  <2>3. ASSUME NEW s \in LaneSeqs PROVE Len(T[s]) \in Nat
    <3>1. T[s] \in Seq(Real)
      BY <2>1
    <3> QED
      BY ONLY <3>1
  <2>4. \A s \in LaneSeqs : context_len[s] \in Nat
    OBVIOUS
  <2> QED
    BY <2>1, <2>2, <2>3, <2>4
\* Where row i writes: into a block of its own sequence's table, or a scratch block.
<1>5. ASSUME NEW i \in DOMAIN rows, NEW s \in LaneSeqs, rows[i].write[1] \in Elems(T[s])
      PROVE  i \in 1 .. n /\ batch[i] = s
  <2>1. i \in 1 .. n
    BY <1>3, <1>4, <1>5
  <2>2. /\ batch[i] \in LaneSeqs /\ batch[i] \in Elems(batch)
        /\ rows[i].write = SlotOf(T[batch[i]], context_len[batch[i]])
    BY <1>2, <1>3, <2>1 DEF RowOf
  <2>3. rows[i].write[1] \in Elems(T[batch[i]])
    BY <1>4, <2>2, CellsOfTables
  <2> QED
    BY <1>5, <2>1, <2>2, <2>3 DEF Layout
\* A cell of s that is not the one s writes to stays.
<1>6. ASSUME NEW s \in LaneSeqs, NEW p \in Nat, p < LaneSlots * Len(T[s]), s \in Elems(batch) => p # context_len[s]
      PROVE  w[SlotOf(T[s], p)] = kv[SlotOf(T[s], p)]
  <2> DEFINE c == SlotOf(T[s], p)
  <2>1. c \in AllCells /\ c[1] \in Elems(T[s])
    BY <1>4, <1>6, CellsOfTables
  <2>2. ASSUME NEW i \in DOMAIN rows, rows[i].write = c PROVE FALSE
    <3>1. i \in 1 .. n /\ batch[i] = s
      BY <1>5, <2>1, <2>2
    <3>2. s \in Elems(batch) /\ rows[i].write = SlotOf(T[s], context_len[s])
      BY <1>2, <1>3, <3>1 DEF RowOf
    <3>3. context_len[s] \in Nat /\ context_len[s] < LaneSlots * Len(T[s])
      BY <1>4, <3>2
    <3>4. SlotOf(T[s], p) = SlotOf(T[s], context_len[s])
      BY <2>2, <3>2
    <3>5. p = context_len[s]
      BY <1>4, <1>6, <3>3, <3>4, CellsOfTables
    <3> QED
      BY <1>6, <3>2, <3>5
  <2> QED
    BY <1>1, <2>1, <2>2
\* The last cell of a row is its own.
<1>7. ASSUME NEW i \in 1 .. n
      PROVE  w[SlotOf(T[batch[i]], context_len[batch[i]])] =
                [of |-> batch[i], pos |-> context_len[batch[i]], with |-> Delta(lora_id[batch[i]])]
  <2> DEFINE s == batch[i]
             c == SlotOf(T[s], context_len[s])
  <2>1. s \in LaneSeqs /\ s \in Elems(batch) /\ i \in DOMAIN rows /\ RowOf(rows[i], s, T)
    BY <1>2, <1>3
  <2>2. c \in AllCells /\ c[1] \in Elems(T[s])
    BY <1>4, <2>1, CellsOfTables
  <2>3. ASSUME NEW j \in DOMAIN rows, rows[j].write = c PROVE j = i
    <3>1. j \in 1 .. n /\ batch[j] = s
      BY <1>5, <2>1, <2>2, <2>3
    <3> QED
      BY <1>2, <3>1 DEF IsInjective
  <2>4. rows[i].write = c /\ rows[i].of = s /\ rows[i].pos = context_len[s] /\ rows[i].with = Delta(lora_id[s])
    BY <2>1 DEF RowOf
  <2> HIDE DEF s, c
  <2>5. w[c] = [of |-> rows[i].of, pos |-> rows[i].pos, with |-> rows[i].with]
    BY <1>1, <1>3, <2>1, <2>2, <2>3, <2>4
  <2>6. w[c] = [of |-> s, pos |-> context_len[s], with |-> Delta(lora_id[s])]
    BY <2>4, <2>5
  <2> QED
    BY <2>6 DEF s, c
<1>8. ASSUME NEW s \in Elems(batch), Holds(kv, T[s], s, context_len[s])
      PROVE  Holds(w, T[s], s, context_len[s] + 1)
  <2>1. PICK i \in 1 .. n : batch[i] = s
    BY <1>2, <1>8 DEF Elems
  <2>2. s \in LaneSeqs /\ context_len[s] \in Nat /\ context_len[s] < LaneSlots * Len(T[s]) /\ Len(T[s]) \in Nat
    BY <1>2, <1>4, <2>1
  <2>3. ASSUME NEW p \in 1 .. context_len[s] + 1
        PROVE  /\ OwnKey(s, p, w[SlotOf(T[s], p - 1)])
               /\ reloaded[s] \/ w[SlotOf(T[s], p - 1)].with = Delta(lora_id[s])
    <3>1. CASE p = context_len[s] + 1
      <4>1. p - 1 = context_len[s]
        BY <2>2, <3>1
      <4>2. w[SlotOf(T[s], p - 1)] = [of |-> s, pos |-> context_len[s], with |-> Delta(lora_id[s])]
        BY <1>7, <2>1, <4>1
      <4> QED
        BY <4>1, <4>2 DEF OwnKey
    <3>2. CASE p # context_len[s] + 1
      <4>1. p \in 1 .. context_len[s] /\ p - 1 \in Nat /\ p - 1 # context_len[s] /\ p - 1 < context_len[s]
        BY <2>2, <3>2
      <4>2. p - 1 < LaneSlots * Len(T[s])
        <5>1. LaneSlots * Len(T[s]) \in Nat
          BY <2>2, RoomInNat
        <5> QED
          BY <2>2, <4>1, <5>1
      <4>3. w[SlotOf(T[s], p - 1)] = kv[SlotOf(T[s], p - 1)]
        BY <1>6, <2>2, <4>1, <4>2
      <4> QED
        BY <1>8, <4>1, <4>3 DEF Holds
    <3> QED
      BY <3>1, <3>2
  <2> QED
    BY <2>3 DEF Holds
<1>9. ASSUME NEW s \in LaneSeqs \ Elems(batch), NEW m \in Nat, m <= LaneSlots * Len(T[s]), Holds(kv, T[s], s, m)
      PROVE  Holds(w, T[s], s, m)
  <2>1. LaneSlots * Len(T[s]) \in Nat
    BY <1>4, RoomInNat
  <2>2. ASSUME NEW p \in 1 .. m PROVE w[SlotOf(T[s], p - 1)] = kv[SlotOf(T[s], p - 1)]
    <3>1. p - 1 \in Nat /\ p - 1 < LaneSlots * Len(T[s])
      BY <1>9, <2>1
    <3> QED
      BY <1>6, <3>1
  <2> QED
    BY <1>9, <2>2 DEF Holds
<1> QED
  BY <1>1, <1>8, <1>9 DEF PassLeaves, w

-----------------------------------------------------------------------------
(* Both lanes *)

\* Reading through a table that has grown.
LEMMA HoldsBegun ==
    ASSUME NEW kv, NEW T \in Seq(Real), IsInjective(T), NEW U, Begins(U, T), NEW s,
           NEW n \in Nat, n <= LaneSlots * Len(T)
    PROVE  Holds(kv, T, s, n) <=> Holds(kv, U, s, n)
<1>1. Len(T) \in Nat /\ LaneSlots * Len(T) \in Nat
  <2>1. Len(T) \in Nat
    OBVIOUS
  <2> QED
    BY <2>1, RoomGrows
<1>2. ASSUME NEW p \in 1 .. n PROVE SlotOf(U, p - 1) = SlotOf(T, p - 1)
  <2>1. p - 1 \in Nat /\ p - 1 < LaneSlots * Len(T)
    BY <1>1
  <2>2. \A i \in 1 .. Len(T) : U[i] = T[i]
    BY DEF Begins
  <2> QED
    BY <2>1, <2>2, CellsOfTables
<1> QED
  BY <1>2 DEF Holds

LEMMA LanesSplit ==
    ASSUME NEW active \in Seq(LaneSeqs), IsInjective(active)
    PROVE  LET g == GraphBatch(active)
               e == EagerBatch(active) IN
           /\ g \in Seq(LaneSeqs) /\ IsInjective(g) /\ \A s \in Elems(g) : s \in LaneSeqs /\ lora_id[s] = NoLora
           /\ e \in Seq(LaneSeqs) /\ IsInjective(e) /\ Elems(e) \subseteq LaneSeqs
           /\ Elems(g) \cap Elems(e) = {} /\ Elems(g) \cup Elems(e) = Elems(active)
           /\ g \o e \in Seq(LaneSeqs) /\ IsInjective(g \o e)
<1> DEFINE g == GraphBatch(active)
           e == EagerBatch(active)
           P == {s \in LaneSeqs : lora_id[s] = NoLora}
           Q == {s \in LaneSeqs : lora_id[s] # NoLora}
<1>1. /\ g \in Seq(LaneSeqs) /\ Elems(g) = Elems(active) \cap P /\ IsInjective(g)
      /\ e \in Seq(LaneSeqs) /\ Elems(e) = Elems(active) \cap Q /\ IsInjective(e)
  BY OnlyOf DEF GraphBatch, EagerBatch
<1>2. Elems(active) \subseteq LaneSeqs
  BY ElemsOf
<1> HIDE DEF g, e
<1>3. /\ Elems(g) \cap Elems(e) = {} /\ Elems(g) \cup Elems(e) = Elems(active)
      /\ Elems(e) \subseteq LaneSeqs /\ \A s \in Elems(g) : s \in LaneSeqs /\ lora_id[s] = NoLora
  BY <1>1, <1>2
<1>4. g \o e \in Seq(LaneSeqs) /\ IsInjective(g \o e)
  BY <1>1, <1>3, ConcatList
<1> QED
  BY <1>1, <1>3, <1>4 DEF g, e

Lane1(graph, T) ==
    IF graph # <<>> /\ Captured(graph) THEN GraphRows(graph, T)
    ELSE [i \in DOMAIN graph |-> TokenRow(graph[i], T[graph[i]], NoLora)]
Lane2(active, eager, T) ==
    [i \in DOMAIN eager |-> TokenRow(eager[i], T[eager[i]], LoraIds(active, eager)[i])]

\* What else a row of a batch is given.
Reads(rows, batch, T) ==
    \A i \in 1 .. Len(batch) : rows[i].table = T[batch[i]] /\ rows[i].context_len = context_len[batch[i]] + 1

LEMMA Bucketed ==
    ASSUME NEW n \in Nat, n <= MaxBucket
    PROVE  Bucket(n) \in Nat /\ n <= Bucket(n) /\ Bucket(n) <= MaxBucket
<1> DEFINE B == {b \in BucketSizes : b >= n}
<1>1. \A b \in BucketSizes : b \in Nat /\ b <= MaxBucket
  BY LaneSizes
<1>2. MaxBucket \in BucketSizes
  <2>1. BucketSizes \in SUBSET Nat /\ BucketSizes # {} /\ IsFiniteSet(BucketSizes)
    BY LanesAssumption
  <2>2. \E b \in BucketSizes : \A c \in BucketSizes : c <= b
    BY <2>1, MaxOfSet
  <2> QED
    BY <2>2 DEF MaxBucket
<1>3. \E b \in B : \A c \in B : b <= c
  <2>1. B \in SUBSET Nat /\ B # {}
    BY <1>1, <1>2
  <2> HIDE DEF B
  <2> QED
    BY <2>1, LeastNatural
<1>4. \E b \in BucketSizes : b >= n /\ \A c \in BucketSizes : c >= n => b <= c
  BY <1>3
<1>5. Bucket(n) \in BucketSizes /\ Bucket(n) >= n
  BY <1>4 DEF Bucket
<1> QED
  BY <1>1, <1>5

LEMMA GraphLaneRows ==
    ASSUME NEW g \in Seq(LaneSeqs), \A s \in Elems(g) : lora_id[s] = NoLora, NEW T
    PROVE  RowsOf(Lane1(g, T), g, T) /\ Reads(Lane1(g, T), g, T)
<1> DEFINE rows == Lane1(g, T)
           n    == Len(g)
           t(i) == TokenRow(g[i], T[g[i]], NoLora)
<1>1. n \in Nat /\ DOMAIN g = 1 .. n /\ \A i \in 1 .. n : g[i] \in Elems(g)
  BY DEF Elems
<1>2. \A i \in 1 .. n : /\ RowOf(t(i), g[i], T) /\ t(i).table = T[g[i]]
                        /\ t(i).context_len = context_len[g[i]] + 1
  BY <1>1 DEF RowOf, TokenRow
<1> HIDE DEF t
<1>3. CASE g # <<>> /\ Captured(g)
  <2>1. n \in 1 .. MaxBucket
    BY <1>1, <1>3, LaneSizes DEF Captured
  <2>2. Bucket(n) \in Nat /\ n <= Bucket(n) /\ Bucket(n) <= MaxBucket
    BY <1>1, <2>1, Bucketed
  <2>3. rows = [i \in 1 .. Bucket(n) |-> IF i <= n THEN t(i) ELSE PadRow(i - n)]
    BY <1>3 DEF Lane1, GraphRows, t
  <2> HIDE DEF rows, n
  <2>4. /\ DOMAIN rows = 1 .. Bucket(n)
        /\ \A i \in 1 .. n : rows[i] = t(i)
        /\ \A i \in 1 .. Bucket(n) : i \notin 1 .. n => rows[i] = PadRow(i - n)
    BY <1>1, <2>2, <2>3
  <2>5. ASSUME NEW i \in 1 .. Bucket(n), i \notin 1 .. n PROVE rows[i].write[1] \notin Real
    <3>1. i - n \in Nat /\ i - n <= MaxBucket - 1
      <4>1. i \in Nat /\ n \in Nat /\ i > n /\ i <= Bucket(n) /\ n >= 1 /\ MaxBucket \in Nat
        BY <1>1, <2>1, <2>2, <2>5, LaneSizes
      <4> QED
        BY <2>2, <4>1
    <3>2. PadRow(i - n).write[1] = LaneBlocks - (i - n)
      BY DEF PadRow, ScratchBlock
    <3>3. LaneBlocks - (i - n) > LaneBlocks - MaxBucket
      BY <3>1, LaneSizes
    <3>4. LaneBlocks - (i - n) \notin Real
      BY <3>3, LaneSizes DEF Real
    <3> QED
      BY <2>4, <2>5, <3>2, <3>4
  <2>6. RowsOf(rows, g, T)
    BY <1>2, <2>2, <2>4, <2>5 DEF RowsOf, n
  <2>7. Reads(rows, g, T)
    BY <1>2, <2>4 DEF Reads, n
  <2> QED
    BY <2>6, <2>7 DEF rows
<1>4. CASE ~(g # <<>> /\ Captured(g))
  <2>1. rows = [i \in 1 .. n |-> t(i)]
    BY <1>1, <1>4 DEF Lane1, t
  <2> HIDE DEF rows
  <2>2. DOMAIN rows = 1 .. n /\ \A i \in 1 .. n : rows[i] = t(i)
    BY <2>1
  <2>3. \A i \in DOMAIN rows : i \in 1 .. Len(g)
    BY <2>2
  <2>4. \E k \in Nat : DOMAIN rows = 1 .. k /\ Len(g) <= k
    <3>1. n \in Nat /\ DOMAIN rows = 1 .. n /\ Len(g) <= n
      BY <1>1, <2>2
    <3> HIDE DEF n
    <3> QED
      BY ONLY <3>1, Zenon
  <2>5. RowsOf(rows, g, T)
    BY <1>2, <2>2, <2>3, <2>4 DEF RowsOf
  <2>6. Reads(rows, g, T)
    BY <1>2, <2>2 DEF Reads
  <2> QED
    BY <2>5, <2>6 DEF rows
<1> QED
  BY <1>3, <1>4

LEMMA EagerLaneRows ==
    ASSUME NEW active, NEW e \in Seq(LaneSeqs), NEW T
    PROVE  RowsOf(Lane2(active, e, T), e, T) /\ Reads(Lane2(active, e, T), e, T)
<1> DEFINE rows == Lane2(active, e, T)
           n    == Len(e)
           t(i) == TokenRow(e[i], T[e[i]], lora_id[e[i]])
<1>1. n \in Nat /\ DOMAIN e = 1 .. n
  OBVIOUS
<1>2. \A i \in 1 .. n : /\ RowOf(t(i), e[i], T) /\ t(i).table = T[e[i]]
                        /\ t(i).context_len = context_len[e[i]] + 1
  BY DEF RowOf, TokenRow
<1>3. rows = [i \in 1 .. n |-> t(i)]
  BY <1>1 DEF Lane2, LoraIds
<1> HIDE DEF rows, t
<1>4. DOMAIN rows = 1 .. n /\ \A i \in 1 .. n : rows[i] = t(i)
  BY <1>3
<1>5. \A i \in DOMAIN rows : i \in 1 .. Len(e)
  BY <1>4
<1>6. \E k \in Nat : DOMAIN rows = 1 .. k /\ Len(e) <= k
  <2>1. n \in Nat /\ DOMAIN rows = 1 .. n /\ Len(e) <= n
    BY <1>1, <1>4
  <2> HIDE DEF n
  <2> QED
    BY ONLY <2>1, Zenon
<1>7. RowsOf(rows, e, T)
  BY <1>2, <1>4, <1>5, <1>6 DEF RowsOf
<1>8. Reads(rows, e, T)
  BY <1>2, <1>4 DEF Reads
<1> QED
  BY <1>7, <1>8 DEF rows

\* What a row of logits has to be.
OwnLogits(l, s) ==
    /\ l.with = Delta(lora_id[s])
    /\ Len(l.keys) = context_len[s] + 1
    /\ \A p \in DOMAIN l.keys : OwnKey(s, p, l.keys[p])

\* The cache after the tables T and the tokens of batch.
Decoded(kv, T, batch) ==
    /\ kv = [c \in AllCells |-> kv[c]]
    /\ \A s \in Elems(batch) : s \in Live => Holds(kv, T[s], s, context_len[s] + 1)
    /\ \A s \in Live \ Elems(batch) : Holds(kv, T[s], s, context_len[s])

LEMMA LogitsAreOwn ==
    ASSUME NEW T, NEW batch, NEW rows, RowsOf(rows, batch, T), Reads(rows, batch, T),
           NEW i \in 1 .. Len(batch), NEW kv, context_len[batch[i]] \in Nat,
           Holds(kv, T[batch[i]], batch[i], context_len[batch[i]] + 1)
    PROVE  OwnLogits(Attended(kv, rows[i]), batch[i])
<1> DEFINE s == batch[i]
           n == context_len[s] + 1
           keys == [p \in 1 .. n |-> kv[SlotOf(T[s], p - 1)]]
<1>1. RowOf(rows[i], s, T) /\ rows[i].table = T[s] /\ rows[i].context_len = n
  BY DEF RowsOf, Reads
<1>2. n \in Nat
  OBVIOUS
<1>3. Attended(kv, rows[i]) = [with |-> Delta(lora_id[s]), keys |-> keys]
  BY <1>1 DEF Attended, RowOf
<1>4. DOMAIN keys = 1 .. n /\ Len(keys) = n
  <2>1. keys \in [1 .. n -> {kv[SlotOf(T[s], p - 1)] : p \in 1 .. n}]
    OBVIOUS
  <2> HIDE DEF keys, n
  <2>2. Len(keys) = n
    BY <1>2, <2>1, FunctionIsSequence
  <2> QED
    BY <2>1, <2>2
<1>5. \A p \in 1 .. n : OwnKey(s, p, keys[p])
  BY DEF Holds
<1> DEFINE l == Attended(kv, rows[i])
<1>6. l.with = Delta(lora_id[s]) /\ l.keys = keys
  <2> HIDE DEF keys, s
  <2> QED
    BY <1>3
<1> HIDE DEF keys, l
<1>7. OwnLogits(l, s)
  BY <1>4, <1>5, <1>6 DEF OwnLogits
<1> QED
  BY <1>7 DEF l

\* Both lanes of a batch with blocks for everybody.
LEMMA PassesSound ==
    ASSUME LaneIInv, NEW active \in Seq(LaneSeqs), IsInjective(active), Elems(active) \subseteq Live,
           Needing(active) <= Len(free_blocks)
    PROVE  LET batch == GraphBatch(active) \o EagerBatch(active) IN
           /\ Passes(active).tables = Reserved(batch)
           /\ Decoded(Passes(active).kv, Reserved(batch), active)
           /\ \A i \in DOMAIN batch : OwnLogits(Passes(active).logits[i], batch[i])
<1> DEFINE g     == GraphBatch(active)
           e     == EagerBatch(active)
           batch == g \o e
           T     == Reserved(batch)
           rows1 == Lane1(g, T)
           rows2 == Lane2(active, e, T)
           kv1   == Written(cells, rows1)
           kv2   == Written(kv1, rows2)
           A     == [i \in DOMAIN g |-> Attended(kv1, rows1[i])]
           B     == [i \in DOMAIN e |-> Attended(kv2, rows2[i])]
<1>1. Passes(active).tables = T /\ Passes(active).kv = kv2 /\ Passes(active).logits = A \o B
  BY DEF Passes, Lane1, Lane2
<1>2. /\ g \in Seq(LaneSeqs) /\ IsInjective(g) /\ \A s \in Elems(g) : s \in LaneSeqs /\ lora_id[s] = NoLora
      /\ e \in Seq(LaneSeqs) /\ IsInjective(e) /\ Elems(e) \subseteq LaneSeqs
      /\ Elems(g) \cap Elems(e) = {} /\ Elems(g) \cup Elems(e) = Elems(active)
      /\ batch \in Seq(LaneSeqs) /\ IsInjective(batch)
  BY LanesSplit
<1>3. /\ LaneTypes /\ Layout(block_table, free_blocks) /\ TablesReach /\ CellsHeld
      /\ context_len \in [LaneSeqs -> Nat] /\ DOMAIN cells = AllCells
      /\ Live \subseteq LaneSeqs
  <2>1. LaneTypes /\ Layout(block_table, free_blocks) /\ TablesReach /\ CellsHeld
    BY DEF LaneIInv
  <2>2. Live \subseteq LaneSeqs
    BY <2>1, ElemsOf DEF LaneTypes, Live
  <2> QED
    BY <2>1, <2>2 DEF LaneTypes
<1>4. Grants(batch, Len(batch)) <= Len(free_blocks)
  BY DEF Needing
<1> HIDE DEF batch
<1>5. Layout(T, <<>>) /\ \A s \in LaneSeqs : Begins(T[s], block_table[s])
  <2>1. 0 \in 0 .. Len(free_blocks)
    BY <1>3 DEF Layout
  <2>2. Layout(T, SubSeq(free_blocks, 1, 0)) /\ \A s \in LaneSeqs : Begins(T[s], block_table[s])
    BY <1>2, <1>3, <2>1, ReservedGrows
  <2>3. SubSeq(free_blocks, 1, 0) = <<>>
    BY <1>3 DEF Layout
  <2> QED
    BY <2>2, <2>3
<1>6. \A s \in Elems(batch) : context_len[s] < LaneSlots * Len(T[s])
  BY <1>2, <1>3, <1>4, ServedHaveRoom
<1> HIDE DEF T
<1> HIDE DEF g, e
<1>7. Elems(batch) = Elems(active)
  <2>1. g \in Seq(LaneSeqs) /\ e \in Seq(LaneSeqs)
    BY <1>2
  <2>2. Elems(g \o e) = Elems(g) \cup Elems(e)
    BY ONLY <2>1, ConcatList
  <2> QED
    BY <1>2, <2>2 DEF batch
<1>8. \A s \in Live : /\ Holds(cells, T[s], s, context_len[s]) /\ context_len[s] \in Nat
                      /\ context_len[s] <= LaneSlots * Len(T[s])
  <2>1. ASSUME NEW s \in Live
        PROVE  Holds(cells, T[s], s, context_len[s]) /\ context_len[s] <= LaneSlots * Len(T[s]) /\ context_len[s] \in Nat
    <3>1. /\ s \in LaneSeqs /\ context_len[s] \in Nat /\ context_len[s] <= LaneSlots * Len(block_table[s])
          /\ Holds(cells, block_table[s], s, context_len[s]) /\ Begins(T[s], block_table[s])
          /\ block_table[s] \in Seq(Real) /\ IsInjective(block_table[s]) /\ T[s] \in Seq(Real)
      BY <1>3, <1>5 DEF CellsHeld, TablesReach, Layout
    <3>2. Holds(cells, T[s], s, context_len[s])
      BY <3>1, HoldsBegun
    <3>3. Len(block_table[s]) \in Nat /\ Len(T[s]) \in Nat /\ Len(block_table[s]) <= Len(T[s])
      BY <3>1 DEF Begins
    <3>4. /\ LaneSlots * Len(block_table[s]) \in Nat /\ LaneSlots * Len(T[s]) \in Nat
          /\ LaneSlots * Len(block_table[s]) <= LaneSlots * Len(T[s])
      BY <3>3, RoomGrows
    <3> QED
      BY <3>1, <3>2, <3>3, <3>4
  <2> QED
    BY <2>1
<1>9. /\ RowsOf(rows1, g, T) /\ Reads(rows1, g, T)
      /\ RowsOf(rows2, e, T) /\ Reads(rows2, e, T)
  BY <1>2, GraphLaneRows, EagerLaneRows
<1> HIDE DEF rows1, rows2
<1>10. PassLeaves(kv1, cells, g, T)
  <2>1. \A s \in Elems(g) : context_len[s] < LaneSlots * Len(T[s])
    BY <1>2, <1>6, <1>7
  <2> QED
    BY <1>2, <1>3, <1>5, <1>9, <2>1, PassIsOwn
<1> HIDE DEF kv1
<1>11. PassLeaves(kv2, kv1, e, T)
  <2>1. \A s \in Elems(e) : context_len[s] < LaneSlots * Len(T[s])
    BY <1>2, <1>6, <1>7
  <2>2. DOMAIN kv1 = AllCells
    BY <1>10 DEF PassLeaves
  <2> QED
    BY <1>2, <1>3, <1>5, <1>9, <2>1, <2>2, PassIsOwn
<1> HIDE DEF kv2
<1>12. \A s \in Elems(g) : Holds(kv1, T[s], s, context_len[s] + 1)
  <2>1. Elems(g) \subseteq Live
    BY <1>2
  <2> QED
    BY <1>8, <1>10, <2>1 DEF PassLeaves
<1>13. \A s \in Live \ Elems(g) : Holds(kv1, T[s], s, context_len[s])
  BY <1>3, <1>8, <1>10 DEF PassLeaves
<1>14. \A s \in Elems(e) : Holds(kv2, T[s], s, context_len[s] + 1)
  <2>1. \A s \in Elems(e) : s \in Live \ Elems(g)
    BY <1>2
  <2> QED
    BY <1>11, <1>13, <2>1 DEF PassLeaves
<1>15. \A s \in Elems(g) : Holds(kv2, T[s], s, context_len[s] + 1)
  <2>1. ASSUME NEW s \in Elems(g) PROVE Holds(kv2, T[s], s, context_len[s] + 1)
    <3>1. s \in LaneSeqs \ Elems(e) /\ s \in Live /\ s \in Elems(batch)
      BY <1>2, <1>3, <1>7
    <3>2. context_len[s] + 1 \in Nat /\ context_len[s] + 1 <= LaneSlots * Len(T[s])
      <4>1. context_len[s] \in Nat /\ context_len[s] < LaneSlots * Len(T[s])
        BY <1>6, <1>8, <3>1
      <4>2. LaneSlots * Len(T[s]) \in Nat
        <5>1. Len(T[s]) \in Nat
          BY <1>5, <3>1 DEF Layout
        <5> QED
          BY <5>1, RoomInNat
      <4> QED
        BY <4>1, <4>2
    <3> QED
      BY <1>11, <1>12, <3>1, <3>2 DEF PassLeaves
  <2> QED
    BY <2>1
<1>16. \A s \in Live \ Elems(active) : Holds(kv2, T[s], s, context_len[s])
  <2>1. \A s \in Live \ Elems(active) : s \in Live \ Elems(g) /\ s \in LaneSeqs \ Elems(e)
    BY <1>2, <1>3
  <2> QED
    BY <1>8, <1>11, <1>13, <2>1 DEF PassLeaves
<1>17. Decoded(kv2, T, active)
  <2>1. kv2 = [c \in AllCells |-> kv2[c]]
    BY <1>11 DEF PassLeaves
  <2> QED
    BY <1>2, <1>14, <1>15, <1>16, <2>1 DEF Decoded
<1>18. \A i \in 1 .. Len(g) : OwnLogits(Attended(kv1, rows1[i]), g[i])
  <2>1. ASSUME NEW i \in 1 .. Len(g) PROVE OwnLogits(Attended(kv1, rows1[i]), g[i])
    <3>1. g[i] \in Elems(g) /\ g[i] \in Live
      BY <1>2, ElemsOf
    <3> QED
      BY <1>8, <1>9, <1>12, <3>1, LogitsAreOwn
  <2> QED
    BY <2>1
<1>19. \A i \in 1 .. Len(e) : OwnLogits(Attended(kv2, rows2[i]), e[i])
  <2>1. ASSUME NEW i \in 1 .. Len(e) PROVE OwnLogits(Attended(kv2, rows2[i]), e[i])
    <3>1. e[i] \in Elems(e) /\ e[i] \in Live
      BY <1>2, ElemsOf
    <3> QED
      BY <1>8, <1>9, <1>14, <3>1, LogitsAreOwn
  <2> QED
    BY <2>1
<1>20. \A i \in DOMAIN batch : OwnLogits((A \o B)[i], batch[i])
  <2> DEFINE S == {A[i] : i \in DOMAIN A} \cup {B[i] : i \in DOMAIN B}
             m == Len(g)
             n == Len(e)
  <2>1. m \in Nat /\ n \in Nat /\ DOMAIN g = 1 .. m /\ DOMAIN e = 1 .. n
    BY <1>2
  <2>2. /\ DOMAIN A = 1 .. m /\ \A i \in 1 .. m : OwnLogits(A[i], g[i])
        /\ DOMAIN B = 1 .. n /\ \A i \in 1 .. n : OwnLogits(B[i], e[i])
    BY <1>18, <1>19, <2>1
  <2>3. A \in [1 .. m -> S] /\ B \in [1 .. n -> S]
    BY <2>1
  <2> HIDE DEF A, B, S, m, n
  <2>4. A \in Seq(S) /\ Len(A) = m /\ B \in Seq(S) /\ Len(B) = n
    BY <2>1, <2>3, FunctionIsSequence
  <2>5. Joins(A \o B, S, A, B)
    BY <2>4, Joined
  <2>6. Joins(batch, LaneSeqs, g, e)
    BY <1>2, Joined DEF batch
  <2>7. DOMAIN batch = 1 .. m + n
    BY <1>2, <2>6 DEF Joins, m, n
  <2>8. ASSUME NEW i \in 1 .. m + n PROVE OwnLogits((A \o B)[i], batch[i])
    <3>1. CASE i \in 1 .. m
      <4>1. (A \o B)[i] = A[i] /\ batch[i] = g[i]
        BY <2>4, <2>5, <2>6, <3>1 DEF Joins, m
      <4> QED
        BY <2>2, <3>1, <4>1
    <3>2. CASE i \notin 1 .. m
      <4>1. i - m \in 1 .. n /\ i = m + (i - m)
        BY <2>1, <3>2
      <4>2. PICK j \in 1 .. n : i = m + j
        BY <4>1
      <4>3. (A \o B)[m + j] = B[j] /\ batch[m + j] = e[j]
        BY <2>4, <2>5, <2>6 DEF Joins, m, n
      <4> QED
        BY <2>2, <4>2, <4>3
    <3> QED
      BY <3>1, <3>2
  <2> QED
    BY <2>7, <2>8
<1> QED
  BY <1>1, <1>17, <1>20 DEF T, batch, g, e

-----------------------------------------------------------------------------
(* The steps *)

\* A step that decodes a batch, or a part of it, on tables that have grown.
LEMMA DecodeKeeps ==
    ASSUME LaneIInv, NEW batch \in Seq(LaneSeqs), Elems(batch) \subseteq Live,
           Layout(block_table', free_blocks'),
           \A s \in LaneSeqs : Begins(block_table'[s], block_table[s]),
           \A s \in Elems(batch) : context_len[s] < LaneSlots * Len(block_table'[s]),
           Decoded(cells', block_table', batch),
           context_len' = [s \in LaneSeqs |-> IF s \in Elems(batch) THEN context_len[s] + 1 ELSE context_len[s]],
           UNCHANGED <<running, lora_id, adapters, loads, reloaded>>
    PROVE  LaneIInv'
<1>1. /\ LaneTypes /\ Layout(block_table, free_blocks) /\ TablesReach
      /\ running' = running /\ lora_id' = lora_id /\ adapters' = adapters /\ loads' = loads
      /\ reloaded' = reloaded
  BY DEF LaneIInv
<1>2. \A s \in LaneSeqs : context_len[s] \in Nat
  BY <1>1 DEF LaneTypes
<1>3. LaneTypes'
  <2>1. context_len' \in [LaneSeqs -> Nat]
    BY <1>2
  <2>2. cells' = [c \in AllCells |-> cells'[c]]
    BY DEF Decoded
  <2> QED
    BY <1>1, <2>1, <2>2 DEF LaneTypes, AllCells
<1>4. TablesReach'
  <2>1. ASSUME NEW s \in LaneSeqs PROVE context_len'[s] <= LaneSlots * Len(block_table'[s])
    <3>1. /\ block_table[s] \in Seq(Real) /\ block_table'[s] \in Seq(Real)
          /\ context_len[s] <= LaneSlots * Len(block_table[s])
          /\ Len(block_table[s]) <= Len(block_table'[s])
      BY <1>1 DEF Layout, TablesReach, Begins
    <3>2. Len(block_table[s]) \in Nat /\ Len(block_table'[s]) \in Nat
      BY <3>1
    <3>3. /\ LaneSlots * Len(block_table[s]) \in Nat /\ LaneSlots * Len(block_table'[s]) \in Nat
          /\ LaneSlots * Len(block_table[s]) <= LaneSlots * Len(block_table'[s])
      BY <3>1, <3>2, RoomGrows
    <3>4. CASE s \in Elems(batch)
      <4>1. context_len'[s] = context_len[s] + 1 /\ context_len[s] < LaneSlots * Len(block_table'[s])
        BY <3>4
      <4> QED
        BY <1>2, <3>3, <4>1
    <3>5. CASE s \notin Elems(batch)
      <4>1. context_len'[s] = context_len[s]
        BY <3>5
      <4> QED
        BY <1>2, <3>1, <3>3, <4>1
    <3> QED
      BY <3>4, <3>5
  <2> QED
    BY <2>1 DEF TablesReach
<1>5. CellsHeld'
  <2>1. Live' = Live /\ Live \subseteq LaneSeqs
    BY <1>1, ElemsOf DEF Live, LaneTypes
  <2>2. ASSUME NEW s \in Live PROVE Holds(cells', block_table'[s], s, context_len'[s])
    <3>1. CASE s \in Elems(batch)
      <4>1. context_len'[s] = context_len[s] + 1
        BY <2>1, <3>1
      <4>2. Holds(cells', block_table'[s], s, context_len[s] + 1)
        BY <2>2, <3>1 DEF Decoded
      <4> QED
        BY <4>1, <4>2
    <3>2. CASE s \notin Elems(batch)
      <4>1. context_len'[s] = context_len[s]
        BY <2>1, <3>2
      <4>2. Holds(cells', block_table'[s], s, context_len[s])
        BY <2>2, <3>2 DEF Decoded
      <4> QED
        BY <4>1, <4>2
    <3> QED
      BY <3>1, <3>2
  <2>3. ASSUME NEW s \in Live PROVE Holds(cells, block_table[s], s, context_len[s])'
    <3>1. \A p \in 1 .. context_len'[s] :
             /\ OwnKey(s, p, cells'[SlotOf(block_table'[s], p - 1)])
             /\ reloaded[s] \/ cells'[SlotOf(block_table'[s], p - 1)].with = Delta(lora_id[s])
      BY <2>2, <2>3 DEF Holds
    <3> QED
      BY <1>1, <3>1 DEF Holds, Delta, OwnKey, SlotOf
  <2> QED
    BY <2>1, <2>3 DEF CellsHeld
<1> QED
  BY <1>3, <1>4, <1>5 DEF LaneIInv

LEMMA BatchesRun ==
    ASSUME LaneIInv, NEW active \in Batches
    PROVE  active \in Seq(LaneSeqs) /\ IsInjective(active) /\ Elems(active) \subseteq Live
<1> DEFINE P == {s \in LaneSeqs : context_len[s] < LaneMaxLen}
           q == Only(running, P)
           r == Only(q, LaneSeqs \ {Last(running)})
<1>1. running \in Seq(LaneSeqs) /\ IsInjective(running)
  BY DEF LaneIInv, LaneTypes
<1>2. q \in Seq(LaneSeqs) /\ Elems(q) = Elems(running) \cap P /\ IsInjective(q)
  BY <1>1, OnlyOf
<1>3. active = q \/ active = r
  BY DEF Batches
<1> HIDE DEF q, P
<1>4. r \in Seq(LaneSeqs) /\ Elems(r) = Elems(q) \cap (LaneSeqs \ {Last(running)}) /\ IsInjective(r)
  BY <1>2, OnlyOf
<1> QED
  BY <1>2, <1>3, <1>4 DEF Live

LEMMA LaneDecodeKeeps ==
    ASSUME LaneIInv, NEW active \in Batches, LaneDecode(active)
    PROVE  LaneIInv'
<1> DEFINE batch == GraphBatch(active) \o EagerBatch(active)
           n     == Needing(active)
           m     == Len(free_blocks) - n
<1>1. active \in Seq(LaneSeqs) /\ IsInjective(active) /\ Elems(active) \subseteq Live
  BY BatchesRun
<1>2. /\ n <= Len(free_blocks) /\ block_table' = Passes(active).tables /\ cells' = Passes(active).kv
      /\ free_blocks' = SubSeq(free_blocks, 1, m)
      /\ context_len' = [s \in LaneSeqs |-> IF s \in Elems(active) THEN context_len[s] + 1 ELSE context_len[s]]
      /\ UNCHANGED <<running, lora_id, adapters, loads, reloaded>>
  BY DEF LaneDecode
<1>3. block_table' = Reserved(batch) /\ Decoded(cells', block_table', active)
  BY <1>1, <1>2, PassesSound
<1>4. batch \in Seq(LaneSeqs) /\ IsInjective(batch) /\ Elems(batch) = Elems(active)
  <2> DEFINE g == GraphBatch(active)
             e == EagerBatch(active)
  <2>1. /\ g \in Seq(LaneSeqs) /\ e \in Seq(LaneSeqs) /\ Elems(g) \cup Elems(e) = Elems(active)
        /\ g \o e \in Seq(LaneSeqs) /\ IsInjective(g \o e)
    BY <1>1, LanesSplit
  <2> HIDE DEF g, e
  <2>2. Elems(g \o e) = Elems(g) \cup Elems(e)
    BY <2>1, ConcatList
  <2> QED
    BY <2>1, <2>2 DEF g, e
<1>5. n = Grants(batch, Len(batch))
  BY DEF Needing
<1> HIDE DEF batch, n
<1>6. /\ Layout(block_table, free_blocks) /\ context_len \in [LaneSeqs -> Nat] /\ TablesReach
      /\ Len(free_blocks) \in Nat
  BY DEF LaneIInv, LaneTypes, Layout
<1>7. m \in 0 .. Len(free_blocks) /\ m + n <= Len(free_blocks)
  <2>1. n \in Nat
    <3>1. Len(batch) \in 0 .. Len(batch)
      BY <1>4
    <3> QED
      BY <1>4, <1>5, <3>1, GrantsGrow
  <2> QED
    BY <1>2, <1>6, <2>1
<1> HIDE DEF m
<1>8. /\ Layout(Reserved(batch), SubSeq(free_blocks, 1, m))
      /\ \A s \in LaneSeqs : Begins(Reserved(batch)[s], block_table[s])
  <2>1. Layout(block_table, free_blocks) /\ m \in 0 .. Len(free_blocks) /\ m + Grants(batch, Len(batch)) <= Len(free_blocks)
    BY <1>5, <1>6, <1>7
  <2> QED
    BY <1>4, <2>1, ReservedGrows
<1>9. \A s \in Elems(batch) : context_len[s] < LaneSlots * Len(Reserved(batch)[s])
  BY <1>2, <1>4, <1>5, <1>6, ServedHaveRoom
<1> QED
  BY <1>1, <1>2, <1>3, <1>4, <1>8, <1>9, DecodeKeeps

\* A graph lane that has decoded before the eager lane runs out of blocks.
LEMMA FrontDecoded ==
    ASSUME LaneIInv, NEW d \in Seq(LaneSeqs), IsInjective(d), Elems(d) \subseteq Live,
           \A s \in Elems(d) : lora_id[s] = NoLora, Needing(d) <= Len(free_blocks),
           NEW more \in Seq(LaneSeqs), IsInjective(d \o more)
    PROVE  /\ Decoded(Passes(d).kv, Reserved(d \o more), d)
           /\ \A s \in Elems(d) : context_len[s] < LaneSlots * Len(Reserved(d \o more)[s])
<1> DEFINE T  == Reserved(d)
           U  == Reserved(d \o more)
           kv == Passes(d).kv
<1>1. Elems(d) \subseteq LaneSeqs
  BY ElemsOf
<1>2. GraphBatch(d) = d
  <2>1. Elems(d) \subseteq {s \in LaneSeqs : lora_id[s] = NoLora}
    BY <1>1
  <2> QED
    BY <2>1, OnlyAll DEF GraphBatch
<1>3. EagerBatch(d) = <<>>
  <2> DEFINE Q == {s \in LaneSeqs : lora_id[s] # NoLora}
  <2>1. Elems(d) \cap Q = {}
    OBVIOUS
  <2> HIDE DEF Q
  <2>2. Only(d, Q) \in Seq(LaneSeqs) /\ Elems(Only(d, Q)) = {}
    BY <2>1, OnlyOf
  <2>3. Only(d, Q) = <<>>
    BY <2>2, ElemsOf
  <2> QED
    BY <2>3 DEF EagerBatch, Q
<1>4. GraphBatch(d) \o EagerBatch(d) = d
  <2>1. d \o <<>> = d
    OBVIOUS
  <2> QED
    BY <1>2, <1>3, <2>1
<1>5. Grants(d, Len(d)) <= Len(free_blocks)
  BY <1>4 DEF Needing
<1>6. Decoded(kv, T, d)
  BY <1>4, PassesSound
<1>7. /\ Layout(block_table, free_blocks) /\ context_len \in [LaneSeqs -> Nat] /\ TablesReach
      /\ 0 \in 0 .. Len(free_blocks) /\ running \in Seq(LaneSeqs)
  BY DEF LaneIInv, LaneTypes, Layout
<1> HIDE DEF kv
<1>8. \A s \in Elems(d) : context_len[s] < LaneSlots * Len(T[s])
  BY <1>5, <1>7, ServedHaveRoom
<1>9. /\ Layout(T, SubSeq(free_blocks, 1, 0))
      /\ \A s \in LaneSeqs : Begins(T[s], block_table[s])
  BY <1>7, ReservedGrows
<1>10. /\ d \o more \in Seq(LaneSeqs)
       /\ \A s \in LaneSeqs : Begins(U[s], T[s])
  BY <1>7, FrontReserved
<1>11. Layout(U, SubSeq(free_blocks, 1, 0))
  BY <1>7, <1>10, ReservedGrows
<1> HIDE DEF T, U
<1>12. \A s \in LaneSeqs :
          /\ block_table[s] \in Seq(Real) /\ T[s] \in Seq(Real) /\ IsInjective(T[s]) /\ U[s] \in Seq(Real)
          /\ context_len[s] \in Nat /\ context_len[s] <= LaneSlots * Len(block_table[s])
          /\ Len(block_table[s]) <= Len(T[s]) /\ Len(T[s]) <= Len(U[s])
  BY <1>7, <1>9, <1>10, <1>11 DEF Layout, TablesReach, Begins
<1>13. ASSUME NEW s \in LaneSeqs
       PROVE  /\ LaneSlots * Len(block_table[s]) \in Nat /\ LaneSlots * Len(T[s]) \in Nat /\ LaneSlots * Len(U[s]) \in Nat
              /\ LaneSlots * Len(block_table[s]) <= LaneSlots * Len(T[s])
              /\ LaneSlots * Len(T[s]) <= LaneSlots * Len(U[s])
  <2>1. Len(block_table[s]) \in Nat /\ Len(T[s]) \in Nat /\ Len(U[s]) \in Nat
    BY <1>12
  <2> QED
    BY <1>12, <2>1, RoomGrows
<1>14. ASSUME NEW s \in LaneSeqs, NEW n \in Nat, n <= LaneSlots * Len(T[s]), Holds(kv, T[s], s, n)
       PROVE  Holds(kv, U[s], s, n)
  <2>1. T[s] \in Seq(Real) /\ IsInjective(T[s]) /\ Begins(U[s], T[s])
    BY <1>10, <1>12
  <2> QED
    BY <1>14, <2>1, HoldsBegun
<1>15. ASSUME NEW s \in Elems(d), s \in Live PROVE Holds(kv, U[s], s, context_len[s] + 1)
  <2>1. s \in LaneSeqs /\ context_len[s] \in Nat /\ context_len[s] < LaneSlots * Len(T[s]) /\ LaneSlots * Len(T[s]) \in Nat
    BY <1>1, <1>8, <1>12, <1>13
  <2>2. context_len[s] + 1 \in Nat /\ context_len[s] + 1 <= LaneSlots * Len(T[s])
    BY <2>1
  <2>3. Holds(kv, T[s], s, context_len[s] + 1)
    BY <1>6, <1>15 DEF Decoded
  <2> QED
    BY <1>14, <2>1, <2>2, <2>3
<1>16. ASSUME NEW s \in Live \ Elems(d) PROVE Holds(kv, U[s], s, context_len[s])
  <2>1. s \in LaneSeqs
    BY <1>7, ElemsOf DEF Live
  <2>2. context_len[s] \in Nat /\ context_len[s] <= LaneSlots * Len(T[s])
    BY <1>12, <1>13, <2>1
  <2>3. Holds(kv, T[s], s, context_len[s])
    BY <1>6 DEF Decoded
  <2> QED
    BY <1>14, <2>1, <2>2, <2>3
<1>17. Decoded(kv, U, d)
  <2>1. kv = [c \in AllCells |-> kv[c]]
    BY <1>6 DEF Decoded
  <2> QED
    BY <1>15, <1>16, <2>1 DEF Decoded
<1>18. ASSUME NEW s \in Elems(d) PROVE context_len[s] < LaneSlots * Len(U[s])
  <2>1. s \in LaneSeqs /\ context_len[s] \in Nat /\ context_len[s] < LaneSlots * Len(T[s])
    BY <1>1, <1>8, <1>12
  <2> QED
    BY <1>13, <2>1
<1> QED
  BY <1>17, <1>18 DEF U, kv

LEMMA LaneOutOfMemoryKeeps ==
    ASSUME LaneIInv, NEW active \in Batches, LaneOutOfMemory(active)
    PROVE  LaneIInv'
<1> DEFINE g     == GraphBatch(active)
           e     == EagerBatch(active)
           batch == g \o e
           d     == IF Needing(g) <= Len(free_blocks) THEN g ELSE <<>>
           more  == IF Needing(g) <= Len(free_blocks) THEN e ELSE batch
<1>1. active \in Seq(LaneSeqs) /\ IsInjective(active) /\ Elems(active) \subseteq Live
  BY BatchesRun
<1>2. /\ block_table' = Reserved(batch) /\ cells' = Passes(d).kv /\ free_blocks' = <<>>
      /\ context_len' = [s \in LaneSeqs |-> IF s \in Elems(d) THEN context_len[s] + 1 ELSE context_len[s]]
      /\ UNCHANGED <<running, lora_id, adapters, loads, reloaded>>
  BY DEF LaneOutOfMemory
<1>3. /\ g \in Seq(LaneSeqs) /\ IsInjective(g) /\ \A s \in Elems(g) : s \in LaneSeqs /\ lora_id[s] = NoLora
      /\ e \in Seq(LaneSeqs) /\ Elems(g) \cup Elems(e) = Elems(active)
      /\ batch \in Seq(LaneSeqs) /\ IsInjective(batch)
  BY <1>1, LanesSplit
<1>4. Layout(block_table, free_blocks) /\ Len(free_blocks) \in Nat
  BY DEF LaneIInv, Layout
<1> HIDE DEF g, e
<1>5. /\ d \in Seq(LaneSeqs) /\ IsInjective(d) /\ Elems(d) \subseteq Live
      /\ \A s \in Elems(d) : lora_id[s] = NoLora
      /\ Needing(d) <= Len(free_blocks)
      /\ more \in Seq(LaneSeqs) /\ d \o more = batch
  <2>1. CASE Needing(g) <= Len(free_blocks)
    <3>1. d = g /\ more = e
      BY <2>1
    <3> HIDE DEF d, more
    <3> QED
      BY <1>1, <1>3, <2>1, <3>1
  <2>2. CASE ~(Needing(g) <= Len(free_blocks))
    <3>1. d = <<>> /\ more = batch
      BY <2>2
    <3>2. Elems(<<>>) = {} /\ IsInjective(<<>>) /\ <<>> \in Seq(LaneSeqs)
      BY DEF Elems, IsInjective
    <3>3. <<>> \o batch = batch
      BY <1>3
    <3>4. Needing(<<>>) <= Len(free_blocks)
      <4>1. Only(<<>>, {s \in LaneSeqs : lora_id[s] = NoLora}) = <<>> /\ Only(<<>>, {s \in LaneSeqs : lora_id[s] # NoLora}) = <<>>
        BY <3>2, OnlyAll
      <4>2. Grants(<<>>, 0) = 0
        <5>1. {j \in 1 .. 0 : Full(<<>>[j])} = {}
          OBVIOUS
        <5> QED
          BY <5>1, FS_EmptySet DEF Grants
      <4>3. <<>> \o <<>> = <<>> /\ Len(<<>>) = 0
        OBVIOUS
      <4>4. Needing(<<>>) = 0
        BY <4>1, <4>2, <4>3 DEF Needing, GraphBatch, EagerBatch
      <4> QED
        BY <1>4, <4>4
    <3> HIDE DEF d, more, batch
    <3> QED
      BY <1>3, <3>1, <3>2, <3>3, <3>4
  <2> QED
    BY <2>1, <2>2
<1> HIDE DEF d, more
<1>6. /\ Decoded(Passes(d).kv, Reserved(d \o more), d)
      /\ \A s \in Elems(d) : context_len[s] < LaneSlots * Len(Reserved(d \o more)[s])
  <2>1. IsInjective(d \o more)
    BY <1>3, <1>5
  <2> QED
    BY <1>5, <2>1, FrontDecoded
<1> HIDE DEF batch
<1>7. /\ Layout(Reserved(batch), <<>>)
      /\ \A s \in LaneSeqs : Begins(Reserved(batch)[s], block_table[s])
  <2>1. 0 \in 0 .. Len(free_blocks)
    BY <1>4
  <2>2. SubSeq(free_blocks, 1, 0) = <<>>
    BY <1>4 DEF Layout
  <2> QED
    BY <1>3, <1>4, <2>1, <2>2, ReservedGrows
<1>8. /\ Layout(block_table', free_blocks')
      /\ \A s \in LaneSeqs : Begins(block_table'[s], block_table[s])
      /\ \A s \in Elems(d) : context_len[s] < LaneSlots * Len(block_table'[s])
      /\ Decoded(cells', block_table', d)
  BY <1>2, <1>5, <1>6, <1>7
<1> QED
  BY <1>2, <1>5, <1>8, DecodeKeeps

\* Blocks for n tokens.
LEMMA BlocksSuffice ==
    ASSUME NEW n \in Nat
    PROVE  /\ (n + LaneSlots - 1) \div LaneSlots \in Nat
           /\ n <= LaneSlots * ((n + LaneSlots - 1) \div LaneSlots)
<1> DEFINE B == LaneSlots
           q == (n + B - 1) \div B
           r == (n + B - 1) % B
<1>1. B \in Nat /\ B > 0
  BY LaneSizes
<1>2. q \in Nat /\ r \in Nat /\ r < B /\ n + B - 1 = B * q + r
  BY <1>1, SMTT(30)
<1> HIDE DEF q, r, B
<1>3. B * q \in Nat
  BY <1>1, <1>2, SMTT(30)
<1>4. n <= B * q
  BY <1>1, <1>2, <1>3
<1> QED
  BY <1>2, <1>4 DEF q, B

\* The top k of the stack, the first one the top.
LEMMA TakenFromTop ==
    ASSUME Layout(block_table, free_blocks), NEW k \in 0 .. Len(free_blocks)
    PROVE  LET table == Reverse(SubSeq(free_blocks, Len(free_blocks) - k + 1, Len(free_blocks)))
               rest  == SubSeq(free_blocks, 1, Len(free_blocks) - k) IN
           /\ table \in Seq(Real) /\ Len(table) = k /\ IsInjective(table)
           /\ rest \in Seq(Real) /\ IsInjective(rest)
           /\ Elems(table) \cap Elems(rest) = {}
           /\ Elems(table) \subseteq Elems(free_blocks) /\ Elems(rest) \subseteq Elems(free_blocks)
<1> DEFINE F     == Len(free_blocks)
           top   == SubSeq(free_blocks, F - k + 1, F)
           table == Reverse(top)
           rest  == SubSeq(free_blocks, 1, F - k)
<1>1. /\ F \in Nat /\ k \in Nat /\ k <= F /\ DOMAIN free_blocks = 1 .. F
      /\ free_blocks \in Seq(Real) /\ IsInjective(free_blocks) /\ \A x \in 1 .. F : free_blocks[x] \in Real
  BY DEF Layout
<1>2. Len(top) = k /\ \A i \in 1 .. k : top[i] = free_blocks[F - k + i]
  BY <1>1
<1> HIDE DEF top
<1>3. table = [i \in 1 .. k |-> top[(k - i) + 1]]
  BY <1>2 DEF Reverse
<1>4. \A i \in 1 .. k : table[i] = free_blocks[F + 1 - i] /\ F + 1 - i \in 1 .. F
  <2>1. ASSUME NEW i \in 1 .. k PROVE table[i] = free_blocks[F + 1 - i] /\ F + 1 - i \in 1 .. F
    <3>1. (k - i) + 1 \in 1 .. k /\ F - k + ((k - i) + 1) = F + 1 - i /\ F + 1 - i \in 1 .. F
      BY <1>1
    <3>2. table[i] = top[(k - i) + 1]
      BY <1>3
    <3> QED
      BY <1>2, <3>1, <3>2
  <2> QED
    BY <2>1
<1> HIDE DEF table
<1>5. DOMAIN table = 1 .. k /\ table \in [1 .. k -> Real]
  BY <1>1, <1>3, <1>4
<1>6. table \in Seq(Real) /\ Len(table) = k
  BY <1>1, <1>5, FunctionIsSequence
<1>7. rest \in Seq(Real) /\ DOMAIN rest = 1 .. F - k /\ \A i \in 1 .. F - k : rest[i] = free_blocks[i]
  BY <1>1
<1> HIDE DEF rest
<1>8. IsInjective(table)
  <2>1. ASSUME NEW i \in 1 .. k, NEW j \in 1 .. k, table[i] = table[j] PROVE i = j
    <3>1. F + 1 - i = F + 1 - j
      BY <1>1, <1>4, <2>1 DEF IsInjective
    <3> QED
      BY <1>1, <3>1
  <2> QED
    BY <1>5, <2>1 DEF IsInjective
<1>9. IsInjective(rest)
  <2>1. \A i \in 1 .. F - k : i \in 1 .. F
    BY <1>1
  <2> QED
    BY <1>1, <1>7, <2>1 DEF IsInjective
<1>10. Elems(table) \subseteq Elems(free_blocks) /\ Elems(rest) \subseteq Elems(free_blocks)
  <2>1. \A i \in 1 .. F - k : i \in 1 .. F
    BY <1>1
  <2> QED
    BY <1>1, <1>4, <1>5, <1>7, <2>1 DEF Elems
<1>11. Elems(table) \cap Elems(rest) = {}
  <2>1. ASSUME NEW i \in 1 .. k, NEW j \in 1 .. F - k PROVE table[i] # rest[j]
    <3>1. j \in 1 .. F /\ F + 1 - i \in 1 .. F /\ F + 1 - i # j
      BY <1>1, <1>4
    <3>2. free_blocks[F + 1 - i] # free_blocks[j]
      BY <1>1, <3>1 DEF IsInjective
    <3> QED
      BY <1>4, <1>7, <3>2
  <2> QED
    BY <1>5, <1>7, <2>1 DEF Elems
<1> QED
  BY <1>6, <1>7, <1>8, <1>9, <1>10, <1>11 DEF F, top, table, rest

\* Nobody wrote to its blocks.
LEMMA HoldsSame ==
    ASSUME NEW T \in Seq(Real), IsInjective(T), NEW s, NEW n \in Nat, n <= LaneSlots * Len(T),
           NEW kv, NEW w, \A c \in AllCells : c[1] \in Elems(T) => w[c] = kv[c],
           Holds(kv, T, s, n)
    PROVE  Holds(w, T, s, n)
<1>1. Len(T) \in Nat
  OBVIOUS
<1>2. LaneSlots * Len(T) \in Nat
  BY <1>1, RoomInNat
<1>3. ASSUME NEW p \in 1 .. n PROVE w[SlotOf(T, p - 1)] = kv[SlotOf(T, p - 1)]
  <2>1. p - 1 \in Nat /\ p - 1 < LaneSlots * Len(T)
    BY <1>2
  <2>2. SlotOf(T, p - 1) \in AllCells /\ SlotOf(T, p - 1)[1] \in Elems(T)
    BY <2>1, CellsOfTables
  <2> QED
    BY <2>2
<1> QED
  BY <1>3 DEF Holds

\* Its adapter is as it was.
LEMMA HoldsNext ==
    ASSUME NEW s, Holds(cells', block_table'[s], s, context_len'[s]),
           reloaded'[s] = reloaded[s], lora_id'[s] = lora_id[s], adapters' = adapters
    PROVE  Holds(cells, block_table[s], s, context_len[s])'
<1>1. \A p \in 1 .. context_len'[s] :
         /\ OwnKey(s, p, cells'[SlotOf(block_table'[s], p - 1)])
         /\ reloaded[s] \/ cells'[SlotOf(block_table'[s], p - 1)].with = Delta(lora_id[s])
  BY DEF Holds
<1> QED
  BY <1>1 DEF Holds, Delta, OwnKey, SlotOf

LEMMA LanePrefillKeeps ==
    ASSUME LaneIInv, NEW s \in LaneSeqs, NEW a \in Adapters \cup {NoLora}, NEW n \in PromptLens,
           LanePrefill(s, a, n)
    PROVE  LaneIInv'
<1> DEFINE taken == (n + LaneSlots - 1) \div LaneSlots
           F     == Len(free_blocks)
           table == Reverse(SubSeq(free_blocks, F - taken + 1, F))
           rest  == SubSeq(free_blocks, 1, F - taken)
           rows  == [i \in 1 .. n |-> [of |-> s, pos |-> i - 1, with |-> Delta(a), write |-> SlotOf(table, i - 1)]]
<1>1. /\ s \notin Live /\ taken <= F
      /\ running' = Append(running, s)
      /\ block_table' = [block_table EXCEPT ![s] = table]
      /\ free_blocks' = rest
      /\ context_len' = [context_len EXCEPT ![s] = n]
      /\ lora_id' = [lora_id EXCEPT ![s] = a]
      /\ cells' = Written(cells, rows)
      /\ reloaded' = [reloaded EXCEPT ![s] = FALSE]
      /\ adapters' = adapters /\ loads' = loads
  BY DEF LanePrefill
<1>2. n \in Nat
  BY LanesAssumption, LaneSizes
<1>3. taken \in Nat /\ n <= LaneSlots * taken
  BY <1>2, BlocksSuffice
<1> HIDE DEF taken
<1>4. LaneTypes /\ Layout(block_table, free_blocks) /\ TablesReach /\ CellsHeld
  BY DEF LaneIInv
<1>5. F \in Nat /\ taken \in 0 .. F
  BY <1>1, <1>3, <1>4 DEF Layout
<1>6. /\ table \in Seq(Real) /\ Len(table) = taken /\ IsInjective(table)
      /\ rest \in Seq(Real) /\ IsInjective(rest)
      /\ Elems(table) \cap Elems(rest) = {}
      /\ Elems(table) \subseteq Elems(free_blocks) /\ Elems(rest) \subseteq Elems(free_blocks)
  BY <1>4, <1>5, TakenFromTop
<1> HIDE DEF table, rest, F
<1>7. /\ running \in Seq(LaneSeqs) /\ IsInjective(running) /\ context_len \in [LaneSeqs -> Nat]
      /\ lora_id \in [LaneSeqs -> Adapters \cup {NoLora}] /\ reloaded \in [LaneSeqs -> BOOLEAN]
      /\ cells = [c \in AllCells |-> cells[c]] /\ DOMAIN cells = AllCells
  BY <1>4 DEF LaneTypes
<1>8. block_table \in [LaneSeqs -> Seq(Real)] /\ \A r \in LaneSeqs : block_table[r] \in Seq(Real) /\ IsInjective(block_table[r])
  BY <1>4 DEF Layout
<1>9. /\ block_table'[s] = table /\ context_len'[s] = n /\ lora_id'[s] = a /\ reloaded'[s] = FALSE
      /\ \A r \in LaneSeqs : r # s =>
            /\ block_table'[r] = block_table[r] /\ context_len'[r] = context_len[r]
            /\ lora_id'[r] = lora_id[r] /\ reloaded'[r] = reloaded[r]
  BY <1>1, <1>7, <1>8
\* The cells after.
<1>10. /\ DOMAIN cells' = AllCells /\ cells' = [c \in AllCells |-> cells'[c]]
       /\ \A c \in AllCells : c[1] \notin Elems(table) => cells'[c] = cells[c]
       /\ \A p \in 1 .. n : cells'[SlotOf(table, p - 1)] = [of |-> s, pos |-> p - 1, with |-> Delta(a)]
  <2> DEFINE w == Written(cells, rows)
  <2>1. DOMAIN rows = 1 .. n /\ DOMAIN rows \subseteq Nat
    BY <1>2
  <2>2. \A i \in 1 .. n : /\ rows[i].write = SlotOf(table, i - 1) /\ rows[i].of = s
                          /\ rows[i].pos = i - 1 /\ rows[i].with = Delta(a)
    OBVIOUS
  <2> HIDE DEF rows
  <2>3. /\ DOMAIN w = AllCells /\ w = [c \in AllCells |-> w[c]]
        /\ \A c \in AllCells : (\A i \in DOMAIN rows : rows[i].write # c) => w[c] = cells[c]
        /\ \A c \in AllCells, i \in DOMAIN rows :
              rows[i].write = c /\ DOMAIN rows \subseteq Nat /\ (\A j \in DOMAIN rows : rows[j].write = c => j = i) =>
                 w[c] = [of |-> rows[i].of, pos |-> rows[i].pos, with |-> rows[i].with]
    <3>1. /\ DOMAIN w = DOMAIN cells /\ w = [c \in DOMAIN cells |-> w[c]]
          /\ \A c \in DOMAIN cells : (\A i \in DOMAIN rows : rows[i].write # c) => w[c] = cells[c]
          /\ \A c \in DOMAIN cells, i \in DOMAIN rows :
                rows[i].write = c /\ DOMAIN rows \subseteq Nat /\ (\A j \in DOMAIN rows : rows[j].write = c => j = i) =>
                   w[c] = [of |-> rows[i].of, pos |-> rows[i].pos, with |-> rows[i].with]
      BY ONLY RowsWrite
    <3>2. DOMAIN cells = AllCells
      BY <1>7
    <3> HIDE DEF w
    <3> QED
      BY ONLY <3>1, <3>2, Zenon
  <2>4. w = cells'
    BY <1>1
  <2> HIDE DEF w
  <2>5. LaneSlots * taken \in Nat
    BY <1>3, RoomInNat
  <2>6. \A i \in 1 .. n : i - 1 \in Nat /\ i - 1 < LaneSlots * Len(table)
    BY <1>2, <1>3, <1>6, <2>5
  <2>7. ASSUME NEW i \in 1 .. n
        PROVE  /\ SlotOf(table, i - 1) \in AllCells /\ SlotOf(table, i - 1)[1] \in Elems(table)
               /\ \A j \in 1 .. n : SlotOf(table, j - 1) = SlotOf(table, i - 1) => j = i
    <3>1. /\ SlotOf(table, i - 1) \in AllCells /\ SlotOf(table, i - 1)[1] \in Elems(table)
          /\ \A q \in Nat : q < LaneSlots * Len(table) /\ SlotOf(table, i - 1) = SlotOf(table, q) => i - 1 = q
      BY <1>6, <2>6, CellsOfTables
    <3>2. ASSUME NEW j \in 1 .. n, SlotOf(table, j - 1) = SlotOf(table, i - 1) PROVE j = i
      <4>1. i - 1 = j - 1
        BY <2>6, <3>1, <3>2
      <4> QED
        BY <1>2, <4>1
    <3> QED
      BY <3>1, <3>2
  <2>8. ASSUME NEW c \in AllCells, c[1] \notin Elems(table) PROVE w[c] = cells[c]
    <3>1. \A i \in DOMAIN rows : rows[i].write # c
      BY <2>1, <2>2, <2>7, <2>8
    <3> QED
      BY <2>3, <3>1
  <2>9. ASSUME NEW p \in 1 .. n
        PROVE  w[SlotOf(table, p - 1)] = [of |-> s, pos |-> p - 1, with |-> Delta(a)]
    <3>1. SlotOf(table, p - 1) \in AllCells /\ p \in DOMAIN rows /\ rows[p].write = SlotOf(table, p - 1)
      BY <2>1, <2>2, <2>7
    <3>2. \A j \in DOMAIN rows : rows[j].write = SlotOf(table, p - 1) => j = p
      BY <2>1, <2>2, <2>7
    <3>3. w[SlotOf(table, p - 1)] = [of |-> rows[p].of, pos |-> rows[p].pos, with |-> rows[p].with]
      BY <2>1, <2>3, <3>1, <3>2
    <3> QED
      BY <2>2, <3>3
  <2> QED
    BY <2>3, <2>4, <2>8, <2>9
<1> HIDE DEF rows
<1>11. Live' = Live \cup {s} /\ running' \in Seq(LaneSeqs) /\ IsInjective(running') /\ Live \subseteq LaneSeqs
  <2>1. /\ Append(running, s) \in Seq(LaneSeqs) /\ Elems(Append(running, s)) = Elems(running) \cup {s}
        /\ IsInjective(running) /\ s \notin Elems(running) => IsInjective(Append(running, s))
    BY <1>7, AppendList
  <2>2. Elems(running) \subseteq LaneSeqs
    BY <1>7, ElemsOf
  <2>3. Live' = Elems(running')
    BY DEF Live, Elems
  <2> QED
    BY <1>1, <1>7, <2>1, <2>2, <2>3 DEF Live
<1>12. LaneTypes'
  <2>1. context_len' \in [LaneSeqs -> Nat] /\ lora_id' \in [LaneSeqs -> Adapters \cup {NoLora}] /\ reloaded' \in [LaneSeqs -> BOOLEAN]
    BY <1>1, <1>2, <1>7
  <2>2. adapters' \in [Adapters -> Nat] /\ loads' \in Nat
    BY <1>1, <1>4 DEF LaneTypes
  <2> QED
    BY <1>10, <1>11, <2>1, <2>2 DEF LaneTypes, AllCells, IsInjective
<1>13. Layout(block_table', free_blocks')
  <2>1. block_table' \in [LaneSeqs -> Seq(Real)]
    BY <1>1, <1>6, <1>8
  <2>2. \A r \in LaneSeqs : /\ IsInjective(block_table'[r])
                            /\ Elems(block_table'[r]) \cap Elems(free_blocks') = {}
    <3>1. \A r \in LaneSeqs : Elems(block_table[r]) \cap Elems(free_blocks) = {}
      BY <1>4 DEF Layout
    <3> QED
      BY <1>1, <1>6, <1>8, <1>9, <3>1
  <2>3. ASSUME NEW q \in LaneSeqs, NEW r \in LaneSeqs, q # r
        PROVE  Elems(block_table'[q]) \cap Elems(block_table'[r]) = {}
    <3>1. /\ Elems(block_table[q]) \cap Elems(block_table[r]) = {}
          /\ Elems(block_table[q]) \cap Elems(free_blocks) = {} /\ Elems(block_table[r]) \cap Elems(free_blocks) = {}
      BY <1>4, <2>3 DEF Layout
    <3> QED
      BY <1>6, <1>9, <2>3, <3>1
  <2> QED
    BY <1>1, <1>6, <2>1, <2>2, <2>3 DEF Layout
<1>14. TablesReach'
  <2>1. ASSUME NEW r \in LaneSeqs PROVE context_len'[r] <= LaneSlots * Len(block_table'[r])
    <3>1. CASE r = s
      BY <1>3, <1>6, <1>9, <3>1
    <3>2. CASE r # s
      BY <1>4, <1>9, <3>2 DEF TablesReach
    <3> QED
      BY <3>1, <3>2
  <2> QED
    BY <2>1 DEF TablesReach
<1>15. CellsHeld'
  <2>1. ASSUME NEW r \in Live PROVE Holds(cells, block_table[r], r, context_len[r])'
    <3>1. r \in LaneSeqs /\ r # s
      BY <1>1, <1>11
    <3>2. /\ block_table[r] \in Seq(Real) /\ IsInjective(block_table[r]) /\ context_len[r] \in Nat
          /\ context_len[r] <= LaneSlots * Len(block_table[r]) /\ Holds(cells, block_table[r], r, context_len[r])
      BY <1>4, <1>7, <1>8, <3>1 DEF TablesReach, CellsHeld
    <3>3. \A c \in AllCells : c[1] \in Elems(block_table[r]) => cells'[c] = cells[c]
      <4>1. Elems(block_table[r]) \cap Elems(table) = {}
        BY <1>4, <1>6, <3>1 DEF Layout
      <4> QED
        BY <1>10, <4>1
    <3>4. Holds(cells', block_table[r], r, context_len[r])
      <4> DEFINE w == cells'
      <4>1. \A c \in AllCells : c[1] \in Elems(block_table[r]) => w[c] = cells[c]
        BY <3>3
      <4> HIDE DEF w
      <4>2. Holds(w, block_table[r], r, context_len[r])
        BY <3>2, <4>1, HoldsSame
      <4> QED
        BY <4>2 DEF w
    <3>5. Holds(cells', block_table'[r], r, context_len'[r])
      BY <1>9, <3>1, <3>4
    <3> QED
      BY <1>1, <1>9, <3>1, <3>5, HoldsNext
  <2>2. Holds(cells, block_table[s], s, context_len[s])'
    <3>1. ASSUME NEW p \in 1 .. n
          PROVE  /\ OwnKey(s, p, cells'[SlotOf(table, p - 1)])
                 /\ cells'[SlotOf(table, p - 1)].with = Delta(a)
      <4> DEFINE key == cells'[SlotOf(table, p - 1)]
      <4>1. key = [of |-> s, pos |-> p - 1, with |-> Delta(a)]
        BY <1>10
      <4> HIDE DEF key
      <4>2. OwnKey(s, p, key) /\ key.with = Delta(a)
        BY <4>1 DEF OwnKey
      <4> QED
        BY <4>2 DEF key
    <3> QED
      BY <1>1, <1>9, <3>1 DEF Holds, Delta, OwnKey, SlotOf
  <2> QED
    BY <1>11, <2>1, <2>2 DEF CellsHeld
<1> QED
  BY <1>12, <1>13, <1>14, <1>15 DEF LaneIInv, Layout

LEMMA LaneFreeKeeps ==
    ASSUME LaneIInv, NEW s \in LaneSeqs, LaneFree(s)
    PROVE  LaneIInv'
<1> DEFINE old == block_table[s]
           w   == [c \in DOMAIN cells |-> IF c[1] \in Elems(old) THEN Junk ELSE cells[c]]
<1>1. /\ running' = Only(running, LaneSeqs \ {s})
      /\ free_blocks' = free_blocks \o old
      /\ block_table' = [block_table EXCEPT ![s] = <<>>]
      /\ context_len' = [context_len EXCEPT ![s] = 0]
      /\ lora_id' = [lora_id EXCEPT ![s] = NoLora]
      /\ reloaded' = [reloaded EXCEPT ![s] = FALSE]
      /\ cells' = w
      /\ adapters' = adapters /\ loads' = loads
  BY DEF LaneFree
<1>2. LaneTypes /\ Layout(block_table, free_blocks) /\ TablesReach /\ CellsHeld
  BY DEF LaneIInv
<1>3. /\ running \in Seq(LaneSeqs) /\ IsInjective(running) /\ context_len \in [LaneSeqs -> Nat]
      /\ lora_id \in [LaneSeqs -> Adapters \cup {NoLora}] /\ reloaded \in [LaneSeqs -> BOOLEAN]
      /\ DOMAIN cells = AllCells
  BY <1>2 DEF LaneTypes
<1>4. /\ block_table \in [LaneSeqs -> Seq(Real)] /\ free_blocks \in Seq(Real) /\ IsInjective(free_blocks)
      /\ \A r \in LaneSeqs : /\ block_table[r] \in Seq(Real) /\ IsInjective(block_table[r])
                             /\ Elems(block_table[r]) \cap Elems(free_blocks) = {}
      /\ \A q, r \in LaneSeqs : q # r => Elems(block_table[q]) \cap Elems(block_table[r]) = {}
  BY <1>2 DEF Layout
<1>5. /\ DOMAIN w = AllCells /\ w = [c \in AllCells |-> w[c]]
      /\ \A c \in AllCells : c[1] \notin Elems(old) => w[c] = cells[c]
  BY <1>3
<1> HIDE DEF w
<1>6. /\ block_table'[s] = <<>> /\ context_len'[s] = 0
      /\ \A r \in LaneSeqs : r # s =>
            /\ block_table'[r] = block_table[r] /\ context_len'[r] = context_len[r]
            /\ lora_id'[r] = lora_id[r] /\ reloaded'[r] = reloaded[r]
  BY <1>1, <1>3, <1>4
<1>7. /\ running' \in Seq(LaneSeqs) /\ IsInjective(running')
      /\ \A r \in Live' : r \in Live /\ r \in LaneSeqs /\ r # s
  <2> DEFINE K == LaneSeqs \ {s}
             q == Only(running, K)
  <2> HIDE DEF K
  <2>1. q \in Seq(LaneSeqs) /\ Elems(q) = Elems(running) \cap K /\ IsInjective(q)
    BY <1>3, OnlyOf
  <2>2. Elems(running) \cap K \subseteq Live \ {s} /\ Elems(running) \subseteq LaneSeqs
    BY <1>3, ElemsOf DEF Live, K
  <2>3. running' = q
    BY <1>1 DEF K
  <2> HIDE DEF q
  <2>4. Live' = Elems(running')
    BY DEF Live, Elems
  <2> QED
    BY <2>1, <2>2, <2>3, <2>4
<1>8. LaneTypes'
  <2>1. context_len' \in [LaneSeqs -> Nat] /\ lora_id' \in [LaneSeqs -> Adapters \cup {NoLora}] /\ reloaded' \in [LaneSeqs -> BOOLEAN]
    BY <1>1, <1>3
  <2>2. adapters' \in [Adapters -> Nat] /\ loads' \in Nat
    BY <1>1, <1>2 DEF LaneTypes
  <2>3. cells' = [c \in AllCells |-> cells'[c]]
    BY <1>1, <1>5
  <2> QED
    BY <1>7, <2>1, <2>2, <2>3 DEF LaneTypes, AllCells, IsInjective
<1>9. Layout(block_table', free_blocks')
  <2>1. block_table' \in [LaneSeqs -> Seq(Real)]
    BY <1>1, <1>4
  <2>2. /\ free_blocks' \in Seq(Real) /\ IsInjective(free_blocks')
        /\ Elems(free_blocks') = Elems(free_blocks) \cup Elems(old)
    <3>1. old \in Seq(Real) /\ IsInjective(old) /\ Elems(free_blocks) \cap Elems(old) = {}
      BY <1>4
    <3> HIDE DEF old
    <3>2. /\ free_blocks \o old \in Seq(Real) /\ Elems(free_blocks \o old) = Elems(free_blocks) \cup Elems(old)
          /\ IsInjective(free_blocks \o old)
      BY <1>4, <3>1, ConcatList
    <3> QED
      BY <1>1, <3>2
  <2>3. IsInjective(<<>>) /\ Elems(<<>>) = {}
    BY DEF IsInjective, Elems
  <2>4. ASSUME NEW r \in LaneSeqs
        PROVE  IsInjective(block_table'[r]) /\ Elems(block_table'[r]) \cap Elems(free_blocks') = {}
    <3>1. CASE r = s
      BY <1>6, <2>3, <3>1
    <3>2. CASE r # s
      BY <1>4, <1>6, <2>2, <3>2
    <3> QED
      BY <3>1, <3>2
  <2>5. ASSUME NEW q \in LaneSeqs, NEW r \in LaneSeqs, q # r
        PROVE  Elems(block_table'[q]) \cap Elems(block_table'[r]) = {}
    <3>1. CASE q = s \/ r = s
      BY <1>6, <2>3, <3>1
    <3>2. CASE q # s /\ r # s
      BY <1>4, <1>6, <2>5, <3>2
    <3> QED
      BY <3>1, <3>2
  <2> QED
    BY <2>1, <2>2, <2>4, <2>5 DEF Layout
<1>10. TablesReach'
  <2>1. ASSUME NEW r \in LaneSeqs PROVE context_len'[r] <= LaneSlots * Len(block_table'[r])
    <3>1. CASE r = s
      <4>1. Len(block_table'[r]) = 0 /\ context_len'[r] = 0
        BY <1>6, <3>1
      <4>2. LaneSlots * 0 \in Nat
        BY RoomInNat
      <4> QED
        BY <4>1, <4>2
    <3>2. CASE r # s
      BY <1>2, <1>6, <3>2 DEF TablesReach
    <3> QED
      BY <3>1, <3>2
  <2> QED
    BY <2>1 DEF TablesReach
<1>11. CellsHeld'
  <2>1. ASSUME NEW r \in LaneSeqs, r \in Live, r # s PROVE Holds(cells, block_table[r], r, context_len[r])'
    <3>1. /\ block_table[r] \in Seq(Real) /\ IsInjective(block_table[r]) /\ context_len[r] \in Nat
          /\ context_len[r] <= LaneSlots * Len(block_table[r]) /\ Holds(cells, block_table[r], r, context_len[r])
      BY <1>2, <1>3, <1>4, <2>1 DEF TablesReach, CellsHeld
    <3>2. \A c \in AllCells : c[1] \in Elems(block_table[r]) => w[c] = cells[c]
      <4>1. Elems(block_table[r]) \cap Elems(old) = {}
        BY <1>4, <2>1
      <4> QED
        BY <1>5, <4>1
    <3>3. Holds(w, block_table[r], r, context_len[r])
      BY <3>1, <3>2, HoldsSame
    <3>4. Holds(cells', block_table'[r], r, context_len'[r])
      BY <1>1, <1>6, <2>1, <3>3
    <3> QED
      BY <1>1, <1>6, <2>1, <3>4, HoldsNext
  <2> QED
    BY <1>7, <2>1 DEF CellsHeld
<1> QED
  BY <1>8, <1>9, <1>10, <1>11 DEF LaneIInv, Layout

LEMMA SetAdapterKeeps ==
    ASSUME LaneIInv, NEW a \in Adapters, NEW version \in Nat, SetAdapter(a, version), loads' \in Nat
    PROVE  LaneIInv'
<1>1. /\ adapters' = [adapters EXCEPT ![a] = version]
      /\ reloaded' = [s \in LaneSeqs |-> reloaded[s] \/ (s \in Live /\ lora_id[s] = a)]
      /\ running' = running /\ block_table' = block_table /\ context_len' = context_len
      /\ lora_id' = lora_id /\ free_blocks' = free_blocks /\ cells' = cells
  BY DEF SetAdapter
<1>2. LaneTypes /\ Layout(block_table, free_blocks) /\ TablesReach /\ CellsHeld
  BY DEF LaneIInv
<1>3. LaneTypes'
  <2>1. reloaded' \in [LaneSeqs -> BOOLEAN]
    BY <1>1, <1>2 DEF LaneTypes
  <2>2. adapters' \in [Adapters -> Nat]
    BY <1>1, <1>2 DEF LaneTypes
  <2>3. cells' = [c \in AllCells |-> cells'[c]]
    BY <1>1, <1>2 DEF LaneTypes
  <2> QED
    BY <1>1, <1>2, <2>1, <2>2, <2>3 DEF LaneTypes, AllCells, IsInjective
<1>4. Layout(block_table', free_blocks') /\ TablesReach'
  BY <1>1, <1>2 DEF TablesReach
<1>5. CellsHeld'
  <2>1. Live' = Live /\ Live \subseteq LaneSeqs
    BY <1>1, <1>2, ElemsOf DEF Live, Elems, LaneTypes
  <2>2. ASSUME NEW s \in Live PROVE Holds(cells, block_table[s], s, context_len[s])'
    <3>1. Holds(cells, block_table[s], s, context_len[s])
      BY <1>2 DEF CellsHeld
    <3>2. reloaded'[s] \/ (reloaded'[s] = reloaded[s] /\ Delta(lora_id[s])' = Delta(lora_id[s]))
      <4>1. CASE lora_id[s] = a
        BY <1>1, <2>1, <4>1
      <4>2. CASE lora_id[s] # a
        <5>1. reloaded'[s] = reloaded[s]
          BY <1>1, <1>2, <2>1, <4>2 DEF LaneTypes
        <5>2. lora_id[s] \in Adapters \cup {NoLora} /\ adapters \in [Adapters -> Nat]
          BY <1>2, <2>1 DEF LaneTypes
        <5>3. Delta(lora_id[s])' = Delta(lora_id[s])
          BY <1>1, <4>2, <5>2 DEF Delta
        <5> QED
          BY <5>1, <5>3
      <4> QED
        BY <4>1, <4>2
    <3>3. \A p \in 1 .. context_len[s] :
             /\ OwnKey(s, p, cells[SlotOf(block_table[s], p - 1)])
             /\ reloaded[s] \/ cells[SlotOf(block_table[s], p - 1)].with = Delta(lora_id[s])
      BY <3>1 DEF Holds
    <3>4. \A p \in 1 .. context_len'[s] :
             /\ OwnKey(s, p, cells'[SlotOf(block_table'[s], p - 1)])
             /\ reloaded'[s] \/ cells'[SlotOf(block_table'[s], p - 1)].with = Delta(lora_id[s])'
      BY <1>1, <3>2, <3>3
    <3> QED
      BY <3>4 DEF Holds, OwnKey, SlotOf
  <2> QED
    BY <2>1, <2>2 DEF CellsHeld
<1> QED
  BY <1>3, <1>4, <1>5 DEF LaneIInv, Layout

LEMMA LaneInvInit == LaneInit => LaneIInv
<1> SUFFICES ASSUME LaneInit PROVE LaneIInv
  OBVIOUS
<1> DEFINE n == LaneBlocks - (MaxBucket - 1)
<1>1. /\ running = <<>> /\ block_table = [s \in LaneSeqs |-> <<>>] /\ context_len = [s \in LaneSeqs |-> 0]
      /\ lora_id = [s \in LaneSeqs |-> NoLora] /\ adapters = [a \in Adapters |-> 0] /\ loads = 0
      /\ reloaded = [s \in LaneSeqs |-> FALSE] /\ cells = [c \in AllCells |-> Junk]
      /\ free_blocks = [i \in 1 .. n |-> i - 1]
  BY DEF LaneInit, AllCells
<1>2. n \in Nat /\ n = LaneBlocks - MaxBucket + 1
  BY LaneSizes
<1> HIDE DEF n
<1>3. <<>> \in Seq(LaneSeqs) /\ <<>> \in Seq(Real) /\ IsInjective(<<>>) /\ Elems(<<>>) = {} /\ Len(<<>>) = 0
  BY DEF IsInjective, Elems
<1>4. LaneTypes
  <2>1. /\ context_len \in [LaneSeqs -> Nat] /\ lora_id \in [LaneSeqs -> Adapters \cup {NoLora}]
        /\ adapters \in [Adapters -> Nat] /\ loads \in Nat /\ reloaded \in [LaneSeqs -> BOOLEAN]
    BY <1>1
  <2>2. cells = [c \in AllCells |-> cells[c]]
    BY <1>1
  <2> QED
    BY <1>1, <1>3, <2>1, <2>2 DEF LaneTypes
<1>5. free_blocks \in Seq(Real) /\ IsInjective(free_blocks)
  <2>1. DOMAIN free_blocks = 1 .. n /\ \A i \in 1 .. n : free_blocks[i] = i - 1 /\ i - 1 \in Real
    BY <1>1, <1>2, LaneSizes DEF Real
  <2>2. free_blocks \in [1 .. n -> Real]
    BY <1>1, <2>1
  <2>3. free_blocks \in Seq(Real)
    BY <1>2, <2>2, FunctionIsSequence
  <2>4. IsInjective(free_blocks)
    BY <1>2, <2>1 DEF IsInjective
  <2> QED
    BY <2>3, <2>4
<1>6. Layout(block_table, free_blocks)
  <2>1. block_table \in [LaneSeqs -> Seq(Real)]
    BY <1>1, <1>3
  <2>2. \A s \in LaneSeqs : block_table[s] = <<>>
    BY <1>1
  <2> QED
    BY <1>3, <1>5, <2>1, <2>2 DEF Layout
<1>7. TablesReach
  <2>1. LaneSlots * 0 \in Nat
    BY RoomInNat
  <2> QED
    BY <1>1, <1>3, <2>1 DEF TablesReach
<1>8. CellsHeld
  BY <1>1, <1>3 DEF CellsHeld, Live
<1> QED
  BY <1>4, <1>6, <1>7, <1>8 DEF LaneIInv

LEMMA LaneInvNext == LaneIInv /\ [LaneNext]_laneVars => LaneIInv'
<1> SUFFICES ASSUME LaneIInv, [LaneNext]_laneVars PROVE LaneIInv'
  OBVIOUS
<1>1. ASSUME NEW s \in LaneSeqs, NEW a \in Adapters \cup {NoLora}, NEW n \in PromptLens, LanePrefill(s, a, n)
      PROVE  LaneIInv'
  BY <1>1, LanePrefillKeeps
<1>2. ASSUME NEW q \in Batches, LaneDecode(q) \/ LaneOutOfMemory(q)
      PROVE  LaneIInv'
  BY <1>2, LaneDecodeKeeps, LaneOutOfMemoryKeeps
<1>3. ASSUME NEW s \in LaneSeqs, LaneFree(s)
      PROVE  LaneIInv'
  BY <1>3, LaneFreeKeeps
<1>4. ASSUME NEW a \in Adapters, LoadAdapter(a) \/ UnloadAdapter(a)
      PROVE  LaneIInv'
  <2>1. loads \in Nat
    BY DEF LaneIInv, LaneTypes
  <2>2. CASE LoadAdapter(a)
    <3>1. loads' = loads + 1 /\ SetAdapter(a, loads + 1)
      BY <2>2 DEF LoadAdapter
    <3>2. loads + 1 \in Nat /\ loads' \in Nat
      BY <2>1, <3>1
    <3> QED
      BY <3>1, <3>2, SetAdapterKeeps
  <2>3. CASE UnloadAdapter(a)
    <3>1. loads' = loads /\ SetAdapter(a, 0)
      BY <2>3 DEF UnloadAdapter
    <3> QED
      BY <2>1, <3>1, SetAdapterKeeps
  <2> QED
    BY <1>4, <2>2, <2>3
<1>5. CASE UNCHANGED laneVars
  <2>1. /\ running' = running /\ block_table' = block_table /\ context_len' = context_len /\ lora_id' = lora_id
        /\ free_blocks' = free_blocks /\ cells' = cells /\ adapters' = adapters /\ loads' = loads
        /\ reloaded' = reloaded
    BY <1>5 DEF laneVars
  <2>2. LaneTypes /\ Layout(block_table, free_blocks) /\ TablesReach /\ CellsHeld
    BY DEF LaneIInv
  <2>3. LaneTypes'
    <3>1. cells' = [c \in AllCells |-> cells'[c]]
      BY <2>1, <2>2 DEF LaneTypes
    <3> QED
      BY <2>1, <2>2, <3>1 DEF LaneTypes, AllCells, IsInjective
  <2>4. Layout(block_table', free_blocks') /\ TablesReach'
    BY <2>1, <2>2 DEF TablesReach
  <2>5. CellsHeld'
    <3>1. Live' = Live
      BY <2>1 DEF Live, Elems
    <3>2. ASSUME NEW s \in Live PROVE Holds(cells, block_table[s], s, context_len[s])'
      <4>1. Holds(cells', block_table'[s], s, context_len'[s])
        BY <2>1, <2>2 DEF CellsHeld
      <4> QED
        BY <2>1, <4>1, HoldsNext
    <3> QED
      BY <3>1, <3>2 DEF CellsHeld
  <2> QED
    BY <2>3, <2>4, <2>5 DEF LaneIInv, Layout
<1> QED
  BY <1>1, <1>2, <1>3, <1>4, <1>5 DEF LaneNext

\* Every cell of a sequence that is running was written for that sequence and
\* position, with its own adapter as it is loaded now, unless that was loaded
\* again or unloaded under it: whatever both lanes, the padding rows, a
\* lane that runs out of blocks and the freed blocks of others write.
THEOREM CellsStayIntact == LaneSpec => []CellsIntact
<1>1. LaneIInv => CellsIntact
  <2> SUFFICES ASSUME LaneIInv, NEW s \in Live, NEW p \in 1 .. LaneMaxLen, p <= context_len[s]
               PROVE  /\ OwnKey(s, p, cells[SlotOf(block_table[s], p - 1)])
                      /\ reloaded[s] \/ cells[SlotOf(block_table[s], p - 1)].with = Delta(lora_id[s])
    BY DEF CellsIntact
  <2>1. Holds(cells, block_table[s], s, context_len[s])
    BY DEF LaneIInv, CellsHeld
  <2>2. context_len[s] \in Nat
    <3>1. running \in Seq(LaneSeqs) /\ context_len \in [LaneSeqs -> Nat]
      BY DEF LaneIInv, LaneTypes
    <3>2. s \in LaneSeqs
      BY <3>1, ElemsOf DEF Live
    <3> QED
      BY <3>1, <3>2
  <2>3. p \in 1 .. context_len[s]
    BY <2>2, LaneSizes
  <2> QED
    BY <2>1, <2>3 DEF Holds
<1> QED
  BY LaneInvInit, LaneInvNext, <1>1, PTL DEF LaneSpec

\* Each row of logits of the batch that is decoded next is computed from the
\* cells of the sequence it is given to, all of them and in order, and with
\* that sequence's adapter: cuda_graph_decoder.py's padding and buffers and the
\* order the scheduler splits the batch in never mix two sequences up.
THEOREM LogitsStayOwn == LaneSpec => []RowsAreTheirOwn
<1>1. LaneIInv => RowsAreTheirOwn
  <2> SUFFICES ASSUME LaneIInv, NEW active \in Batches, Needing(active) <= Len(free_blocks),
                      NEW logits \in {Passes(active).logits},
                      NEW i \in DOMAIN (GraphBatch(active) \o EagerBatch(active))
               PROVE  OwnLogits(logits[i], (GraphBatch(active) \o EagerBatch(active))[i])
    BY DEF RowsAreTheirOwn, OwnLogits
  <2>1. active \in Seq(LaneSeqs) /\ IsInjective(active) /\ Elems(active) \subseteq Live
    BY BatchesRun
  <2>2. \A j \in DOMAIN (GraphBatch(active) \o EagerBatch(active)) :
           OwnLogits(Passes(active).logits[j], (GraphBatch(active) \o EagerBatch(active))[j])
    BY <2>1, PassesSound
  <2>3. logits = Passes(active).logits
    OBVIOUS
  <2> QED
    BY <2>2, <2>3
<1> QED
  BY LaneInvInit, LaneInvNext, <1>1, PTL DEF LaneSpec

-----------------------------------------------------------------------------
(* The sorted candidates *)

Hypotheses == [token_ids : Seq(BeamTokens), cum_logprob : Int]

\* Candidates the sort can tell apart, and whose hypotheses differ.
Sortable(cs) ==
    /\ IsFiniteSet(cs) /\ cs \subseteq [parent : Nat, child : Hypotheses]
    /\ \A c, d \in cs : c.child.cum_logprob = d.child.cum_logprob /\ c.parent = d.parent => c = d
    /\ \A c, d \in cs : c.child.token_ids = d.child.token_ids => c = d

AheadIn(cs) == {p \in cs \X cs : Ahead(p[1], p[2])}

LEMMA SortableSubset ==
    ASSUME NEW cs, Sortable(cs), NEW ds \in SUBSET cs
    PROVE  Sortable(ds)
<1>1. IsFiniteSet(ds)
  BY FS_Subset DEF Sortable
<1> QED
  BY <1>1 DEF Sortable

LEMMA AheadOrders ==
    ASSUME NEW cs, Sortable(cs)
    PROVE  /\ Orders(AheadIn(cs), cs)
           /\ \A c, d \in cs : <<c, d>> \in AheadIn(cs) <=> Ahead(c, d)
           /\ \A c \in cs : Before(AheadIn(cs), cs, c) = Cardinality({d \in cs : Ahead(d, c)})
<1>1. \A c, d \in cs : <<c, d>> \in AheadIn(cs) <=> Ahead(c, d)
  BY DEF AheadIn
<1>2. \A c \in cs : c.parent \in Int /\ c.child.cum_logprob \in Int
  BY DEF Sortable, Hypotheses
<1>3. \A c \in cs : ~Ahead(c, c)
  BY <1>2 DEF Ahead
<1>4. \A c, d \in cs : c # d => Ahead(c, d) \/ Ahead(d, c)
  BY <1>2 DEF Ahead, Sortable
<1>5. \A c, d, e \in cs : Ahead(c, d) /\ Ahead(d, e) => Ahead(c, e)
  BY <1>2 DEF Ahead
<1>6. Orders(AheadIn(cs), cs)
  BY <1>1, <1>3, <1>4, <1>5 DEF Orders
<1>7. ASSUME NEW c \in cs
      PROVE  Before(AheadIn(cs), cs, c) = Cardinality({d \in cs : Ahead(d, c)})
  <2>1. {d \in cs : <<d, c>> \in AheadIn(cs)} = {d \in cs : Ahead(d, c)}
    BY <1>1
  <2> QED
    BY <2>1 DEF Before
<1> QED
  BY <1>1, <1>6, <1>7

\* The sorted list has every candidate, once.
LEMMA OrderedIs ==
    ASSUME NEW cs, Sortable(cs)
    PROVE  /\ Ordered(cs) \in Seq(Hypotheses) /\ Len(Ordered(cs)) = Cardinality(cs)
           /\ Elems(Ordered(cs)) = {c.child : c \in cs}
           /\ \A i, j \in 1 .. Len(Ordered(cs)) :
                Ordered(cs)[i].token_ids = Ordered(cs)[j].token_ids => i = j
<1> DEFINE n == Cardinality(cs)
           R == AheadIn(cs)
           At(k) == CHOOSE c \in cs : Cardinality({d \in cs : Ahead(d, c)}) = k - 1
           p == [k \in 1 .. n |-> At(k)]
           q == Ordered(cs)
<1>1. n \in Nat /\ IsFiniteSet(cs)
  BY FS_CardinalityType DEF Sortable
<1>2. /\ Orders(R, cs)
      /\ \A c \in cs : Before(R, cs, c) = Cardinality({d \in cs : Ahead(d, c)})
  BY AheadOrders
<1>3. /\ \A k \in 0 .. n - 1 : \E c \in cs : Before(R, cs, c) = k
      /\ \A c \in cs : Before(R, cs, c) \in 0 .. n - 1
      /\ \A c, d \in cs : Before(R, cs, c) = Before(R, cs, d) => c = d
  BY <1>1, <1>2, FirstsOf, BeforeGrows
<1>4. \A k \in 1 .. n : At(k) \in cs /\ Before(R, cs, At(k)) = k - 1
  <2> SUFFICES ASSUME NEW k \in 1 .. n
               PROVE  At(k) \in cs /\ Before(R, cs, At(k)) = k - 1
    OBVIOUS
  <2>1. k - 1 \in 0 .. n - 1
    BY <1>1
  <2>2. \E c \in cs : Cardinality({d \in cs : Ahead(d, c)}) = k - 1
    BY <1>2, <1>3, <2>1
  <2>3. At(k) \in cs /\ Cardinality({d \in cs : Ahead(d, At(k))}) = k - 1
    BY <2>2
  <2> HIDE DEF At
  <2> QED
    BY <1>2, <2>3
<1>5. q = [k \in 1 .. n |-> At(k).child]
  BY DEF Ordered
<1> HIDE DEF At, R, q
<1>6. \A k \in 1 .. n : q[k] = At(k).child
  BY <1>5
<1>7. \A c \in cs : \E k \in 1 .. n : At(k) = c
  <2> SUFFICES ASSUME NEW c \in cs PROVE \E k \in 1 .. n : At(k) = c
    OBVIOUS
  <2> DEFINE k == Before(R, cs, c) + 1
  <2>1. k \in 1 .. n /\ Before(R, cs, c) = k - 1
    BY <1>1, <1>3
  <2> HIDE DEF k
  <2>2. At(k) = c
    BY <1>3, <1>4, <2>1
  <2> QED
    BY <2>1, <2>2
<1>8. q \in Seq(Hypotheses) /\ Len(q) = n
  <2>1. \A k \in 1 .. n : At(k).child \in Hypotheses
    BY <1>4 DEF Sortable
  <2>2. q \in [1 .. n -> Hypotheses]
    BY <1>5, <2>1
  <2> QED
    BY <1>1, <2>2, FunctionIsSequence
<1>9. Elems(q) = {c.child : c \in cs}
  <2>1. \A h : h \in Elems(q) <=> \E k \in 1 .. n : q[k] = h
    BY <1>8, ElemsOf
  <2>2. \A h \in Elems(q) : h \in {c.child : c \in cs}
    BY <1>4, <1>6, <2>1
  <2>3. \A c \in cs : c.child \in Elems(q)
    BY <1>6, <1>7, <2>1
  <2> QED
    BY <2>2, <2>3
<1>10. \A i, j \in 1 .. n : q[i].token_ids = q[j].token_ids => i = j
  <2> SUFFICES ASSUME NEW i \in 1 .. n, NEW j \in 1 .. n, q[i].token_ids = q[j].token_ids
               PROVE  i = j
    OBVIOUS
  <2>1. At(i) = At(j)
    BY <1>4, <1>6 DEF Sortable
  <2>2. i - 1 = j - 1
    BY <1>4, <2>1
  <2> QED
    BY <1>1, <2>2
<1> QED
  BY <1>8, <1>9, <1>10 DEF q

\* The loop over the candidates: no more go on than there are slots, and one
\* that could have gone on is left only for as many as there are slots.
LEMMA VisitedAre ==
    ASSUME NEW cs, Sortable(cs), params.num_beams \in Nat \ {0}
    PROVE  LET W == {c \in Visited(cs) : ~Stopped(c.child)} IN
           /\ Visited(cs) \subseteq cs
           /\ cs # {} => Visited(cs) # {}
           /\ IsFiniteSet(W) /\ Cardinality(W) <= params.num_beams
           /\ \A c \in cs \ Visited(cs) : ~Stopped(c.child) =>
                Cardinality(W) = params.num_beams /\ \A d \in W : Ahead(d, c)
<1> DEFINE n == params.num_beams
           V == Visited(cs)
           N == {c \in cs : ~Stopped(c.child)}
           R == AheadIn(N)
           W == {c \in V : ~Stopped(c.child)}
           F == {c \in N : Before(R, N, c) < n}
<1>1. V \subseteq cs
  BY DEF Visited
<1>2. cs # {} => V # {}
  <2> SUFFICES ASSUME cs # {} PROVE V # {}
    OBVIOUS
  <2>1. Cardinality(cs) \in Nat /\ Cardinality(cs) # 0
    BY FS_CardinalityType, FS_EmptySet DEF Sortable
  <2>2. 0 \in 0 .. Cardinality(cs) - 1
    BY <2>1
  <2>3. PICK c \in cs : Before(AheadIn(cs), cs, c) = 0
    BY <2>2, AheadOrders, FirstsOf DEF Sortable
  <2>4. Cardinality({d \in cs : Ahead(d, c)}) = 0
    BY <2>3, AheadOrders
  <2>5. IsFiniteSet({d \in cs : Ahead(d, c)})
    BY FS_Subset DEF Sortable
  <2>6. {d \in cs : Ahead(d, c)} = {}
    BY <2>4, <2>5, FS_EmptySet
  <2>7. {d \in cs : ~Stopped(d.child) /\ Ahead(d, c)} = {}
    BY <2>6
  <2>8. Cardinality({d \in cs : ~Stopped(d.child) /\ Ahead(d, c)}) < n
    BY <2>7, FS_EmptySet
  <2> QED
    BY <2>8 DEF Visited
<1>3. Sortable(N)
  BY SortableSubset
<1> HIDE DEF R
<1>4. /\ Orders(R, N)
      /\ \A c, d \in N : <<c, d>> \in R <=> Ahead(c, d)
      /\ \A c \in N : Before(R, N, c) = Cardinality({d \in N : Ahead(d, c)})
  <2> HIDE DEF N
  <2> QED
    BY <1>3, AheadOrders DEF R
<1>5. W = F
  <2>1. \A c : {d \in cs : ~Stopped(d.child) /\ Ahead(d, c)} = {d \in N : Ahead(d, c)}
    OBVIOUS
  <2>2. \A c \in N : c \in V <=> Before(R, N, c) < n
    BY <1>4, <2>1 DEF Visited
  <2> QED
    BY <1>1, <2>2
<1>6. IsFiniteSet(N) /\ Cardinality(N) \in Nat
  BY <1>3, FS_CardinalityType DEF Sortable
<1> HIDE DEF N
<1>7. /\ IsFiniteSet(F) /\ Cardinality(F) <= n
      /\ n <= Cardinality(N) => Cardinality(F) = n
  BY <1>4, <1>6, FirstsOf
<1>8. /\ \A c \in N : Before(R, N, c) \in 0 .. Cardinality(N) - 1
      /\ \A c, d \in N : <<c, d>> \in R <=> Before(R, N, c) < Before(R, N, d)
  BY <1>4, <1>6, BeforeGrows
<1>9. ASSUME NEW c \in cs \ V, ~Stopped(c.child)
      PROVE  Cardinality(F) = n /\ \A d \in F : Ahead(d, c)
  <2>1. c \in N /\ c \notin F
    BY <1>5, <1>9 DEF N
  <2>2. n <= Before(R, N, c) /\ Before(R, N, c) \in 0 .. Cardinality(N) - 1
    BY <1>8, <2>1
  <2>3. n <= Cardinality(N)
    BY <1>6, <2>2
  <2>4. ASSUME NEW d \in F PROVE Ahead(d, c)
    <3>1. d \in N /\ Before(R, N, d) < n /\ Before(R, N, d) \in Int
      BY <1>8
    <3>2. Before(R, N, d) < Before(R, N, c)
      BY <2>2, <3>1
    <3> QED
      BY <1>4, <1>8, <2>1, <3>1, <3>2
  <2> QED
    BY <1>7, <2>3, <2>4
<1> HIDE DEF F, V
<1>10. /\ V \subseteq cs /\ (cs # {} => V # {})
       /\ IsFiniteSet(W) /\ Cardinality(W) <= n
       /\ \A c \in cs \ V : ~Stopped(c.child) => Cardinality(W) = n /\ \A d \in W : Ahead(d, c)
  BY <1>1, <1>2, <1>5, <1>7, <1>9
<1> QED
  BY <1>10 DEF V

-----------------------------------------------------------------------------
(* The tokens of a beam *)

LEMMA TopTokensAre ==
    ASSUME NEW row \in LogProbRows, params.num_beams \in BeamTokens
    PROVE  /\ TopTokens(row) \subseteq BeamTokens
           /\ IsFiniteSet(TopTokens(row)) /\ Cardinality(TopTokens(row)) = params.num_beams
           /\ \A u \in TopTokens(row), t \in BeamTokens \ TopTokens(row) : row[u] > row[t]
           /\ params.num_beams = 1 =>
                \A u \in TopTokens(row), t \in BeamTokens : row[u] >= row[t]
<1> DEFINE n == params.num_beams
           R == {p \in BeamTokens \X BeamTokens : row[p[1]] > row[p[2]]}
           F == {t \in BeamTokens : Before(R, BeamTokens, t) < n}
<1>1. BeamVocab \in Nat /\ n \in 1 .. BeamVocab
  BY BeamAssumption DEF BeamTokens
<1>2. IsFiniteSet(BeamTokens) /\ Cardinality(BeamTokens) = BeamVocab
  BY <1>1, FS_Interval DEF BeamTokens
<1>3. row \in [BeamTokens -> Int] /\ \A s, t \in BeamTokens : row[s] = row[t] => s = t
  BY BeamAssumption DEF IsInjective
<1>4. \A s, t \in BeamTokens : <<s, t>> \in R <=> row[s] > row[t]
  OBVIOUS
<1> HIDE DEF R
<1>5. Orders(R, BeamTokens)
  <2>1. \A s \in BeamTokens : row[s] \in Int
    BY <1>3
  <2>2. \A s \in BeamTokens : ~(row[s] > row[s])
    BY <2>1
  <2>3. \A s, t \in BeamTokens : s # t => row[s] > row[t] \/ row[t] > row[s]
    BY <1>3, <2>1
  <2>4. \A r, s, t \in BeamTokens : row[r] > row[s] /\ row[s] > row[t] => row[r] > row[t]
    BY <2>1
  <2> QED
    BY <1>4, <2>2, <2>3, <2>4 DEF Orders
<1>6. \A t \in BeamTokens : Before(R, BeamTokens, t) = Rank(row, t)
  <2>1. \A t \in BeamTokens : {s \in BeamTokens : <<s, t>> \in R} = {s \in BeamTokens : row[s] > row[t]}
    BY <1>4
  <2> QED
    BY <2>1 DEF Before, Rank
<1>7. TopTokens(row) = F
  BY <1>6 DEF TopTokens
<1>8. IsFiniteSet(F) /\ Cardinality(F) = n
  <2> HIDE DEF n
  <2> QED
    BY <1>1, <1>2, <1>5, FirstsOf
<1>9. /\ \A t \in BeamTokens : Before(R, BeamTokens, t) \in Int
      /\ \A s, t \in BeamTokens : row[s] > row[t] <=>
                                    Before(R, BeamTokens, s) < Before(R, BeamTokens, t)
  <2>1. /\ \A t \in BeamTokens : Before(R, BeamTokens, t) \in 0 .. Cardinality(BeamTokens) - 1
        /\ \A s, t \in BeamTokens : <<s, t>> \in R <=>
                                       Before(R, BeamTokens, s) < Before(R, BeamTokens, t)
    BY <1>2, <1>5, BeforeGrows
  <2>2. \A t \in BeamTokens : Before(R, BeamTokens, t) \in Int
    BY <2>1
  <2> QED
    BY <1>4, <2>1, <2>2
<1>10. ASSUME NEW u \in F, NEW t \in BeamTokens \ F PROVE row[u] > row[t]
  <2>1. Before(R, BeamTokens, u) < n /\ ~(Before(R, BeamTokens, t) < n)
    OBVIOUS
  <2>2. Before(R, BeamTokens, u) < Before(R, BeamTokens, t)
    BY <1>1, <1>9, <2>1
  <2> QED
    BY <1>9, <2>2
<1>11. ASSUME n = 1, NEW u \in F, NEW t \in BeamTokens PROVE row[u] >= row[t]
  <2>1. Before(R, BeamTokens, u) < 1
    BY <1>11
  <2>2. Before(R, BeamTokens, t) \in 0 .. BeamVocab - 1
    BY <1>2, <1>5, BeforeGrows
  <2>3. ~(Before(R, BeamTokens, t) < Before(R, BeamTokens, u))
    BY <1>9, <2>1, <2>2
  <2>4. ~(row[t] > row[u])
    BY <1>9, <2>3
  <2> QED
    BY <1>3, <2>4
<1> HIDE DEF F
<1> QED
  BY <1>7, <1>8, <1>10, <1>11 DEF TopTokens

-----------------------------------------------------------------------------
(* The score of a path *)

LEMMA Appended ==
    ASSUME NEW S, NEW q \in Seq(S), NEW x \in S
    PROVE  LET p == Append(q, x) IN
           /\ p \in Seq(S) /\ Len(p) = Len(q) + 1 /\ Len(q) \in Nat /\ DOMAIN p = 1 .. Len(q) + 1
           /\ \A i \in 1 .. Len(q) : p[i] = q[i]
           /\ p[Len(q) + 1] = x /\ Last(p) = x /\ p # <<>>
           /\ \A i \in 1 .. Len(q) + 1 : SubSeq(p, 1, i - 1) = SubSeq(q, 1, i - 1)
           /\ SubSeq(p, 1, Len(q)) = q
<1> DEFINE p == Append(q, x)
<1>1. /\ p \in Seq(S) /\ Len(p) = Len(q) + 1 /\ Len(q) \in Nat /\ DOMAIN p = 1 .. Len(q) + 1
      /\ \A i \in 1 .. Len(q) : p[i] = q[i]
      /\ p[Len(q) + 1] = x
  OBVIOUS
<1>2. Last(p) = x /\ p # <<>>
  BY <1>1 DEF Last
<1> HIDE DEF p
<1>3. ASSUME NEW i \in 1 .. Len(q) + 1
      PROVE  SubSeq(p, 1, i - 1) = SubSeq(q, 1, i - 1)
  <2>1. /\ SubSeq(p, 1, i - 1) \in Seq(S) /\ Len(SubSeq(p, 1, i - 1)) = i - 1
        /\ SubSeq(q, 1, i - 1) \in Seq(S) /\ Len(SubSeq(q, 1, i - 1)) = i - 1
    BY <1>1
  <2>2. \A j \in 1 .. i - 1 : SubSeq(p, 1, i - 1)[j] = SubSeq(q, 1, i - 1)[j]
    BY <1>1
  <2> QED
    BY <2>1, <2>2
<1>4. SubSeq(p, 1, Len(q)) = q
  <2>1. SubSeq(p, 1, Len(q)) = SubSeq(q, 1, Len(q))
    <3>1. Len(q) + 1 \in 1 .. Len(q) + 1 /\ (Len(q) + 1) - 1 = Len(q)
      BY <1>1
    <3> QED
      BY <1>3, <3>1
  <2>2. SubSeq(q, 1, Len(q)) = q
    BY SubSeqFull
  <2> QED
    BY <2>1, <2>2
<1> QED
  BY <1>1, <1>2, <1>3, <1>4 DEF p

RowIn(m, ids) == m[IF ids = <<>> THEN 0 ELSE Last(ids)]

\* f has the scores of the first n tokens of ids, by the model m.
Scores(f, m, ids, n) ==
    f = [i \in 0 .. n |-> IF i = 0 THEN 0 ELSE f[i - 1] + RowIn(m, SubSeq(ids, 1, i - 1))[ids[i]]]

ScoreIn(m, ids) == (CHOOSE f : Scores(f, m, ids, Len(ids)))[Len(ids)]

LEMMA ScoreNow == \A ids : PathScore(ids) = ScoreIn(lm, ids) /\ LogProbs(ids) = RowIn(lm, ids)
BY DEF PathScore, ScoreIn, Scores, RowIn, LogProbs

LEMMA ScoreNext == \A ids : PathScore(ids)' = ScoreIn(lm', ids) /\ LogProbs(ids)' = RowIn(lm', ids)
BY DEF PathScore, ScoreIn, Scores, RowIn, LogProbs

LEMMA ScoresExist ==
    ASSUME NEW m, NEW ids, NEW n \in Nat
    PROVE  \E f : Scores(f, m, ids, n)
<1> DEFINE Gain(i) == RowIn(m, SubSeq(ids, 1, i - 1))[ids[i]]
           N == {k \in Nat : \E f : Scores(f, m, ids, k)}
<1>1. ASSUME NEW k \in Nat, \A l \in Nat : l < k => l \in N
      PROVE  k \in N
  <2>1. CASE k = 0
    <3> DEFINE f == [i \in 0 .. 0 |-> 0]
    <3>1. f = [i \in 0 .. 0 |-> IF i = 0 THEN 0 ELSE f[i - 1] + Gain(i)]
      OBVIOUS
    <3>2. Scores(f, m, ids, 0)
      BY <3>1 DEF Scores
    <3> QED
      BY <2>1, <3>2
  <2>2. CASE k > 0
    <3>1. k - 1 \in Nat /\ k - 1 < k
      BY <2>2
    <3>2. PICK f : Scores(f, m, ids, k - 1)
      BY <1>1, <3>1
    <3>3. f = [i \in 0 .. k - 1 |-> IF i = 0 THEN 0 ELSE f[i - 1] + Gain(i)]
      BY <3>2 DEF Scores
    <3> DEFINE g == [i \in 0 .. k |-> IF i = 0 THEN 0 ELSE f[i - 1] + Gain(i)]
    <3> HIDE DEF Gain
    <3>4. \A i \in 0 .. k - 1 : i \in 0 .. k /\ g[i] = f[i]
      <4>1. \A i \in 0 .. k - 1 : i \in 0 .. k
        BY <3>1
      <4>2. \A i \in 0 .. k - 1 : f[i] = IF i = 0 THEN 0 ELSE f[i - 1] + Gain(i)
        BY <3>3
      <4> QED
        BY <4>1, <4>2
    <3>5. \A i \in 0 .. k : i = 0 \/ i - 1 \in 0 .. k - 1
      BY <3>1
    <3>6. g = [i \in 0 .. k |-> IF i = 0 THEN 0 ELSE g[i - 1] + Gain(i)]
      BY <3>4, <3>5
    <3> HIDE DEF g
    <3>7. Scores(g, m, ids, k)
      BY <3>6 DEF Scores, Gain
    <3> QED
      BY <3>7
  <2> QED
    BY <2>1, <2>2
<1>2. N \in SUBSET Nat
  OBVIOUS
<1> HIDE DEF N
<1>3. N = Nat
  BY ONLY <1>1, <1>2, StrongInduction
<1> QED
  BY <1>3 DEF N

\* A token more adds what the model gives it after the tokens before it.
LEMMA ScoreGrows ==
    ASSUME NEW m, NEW S, NEW ids \in Seq(S), NEW t \in S
    PROVE  ScoreIn(m, Append(ids, t)) = ScoreIn(m, ids) + RowIn(m, ids)[t]
<1> DEFINE p == Append(ids, t)
           n == Len(ids)
           f == CHOOSE h : Scores(h, m, ids, Len(ids))
           g == CHOOSE h : Scores(h, m, p, Len(p))
           N == {i \in Nat : i <= n => f[i] = g[i]}
<1>1. /\ Len(p) = n + 1 /\ n \in Nat /\ p[n + 1] = t
      /\ \A i \in 1 .. n : p[i] = ids[i]
      /\ \A i \in 1 .. n + 1 : SubSeq(p, 1, i - 1) = SubSeq(ids, 1, i - 1)
      /\ SubSeq(p, 1, n) = ids
  BY Appended
<1> HIDE DEF p
<1>2. ScoreIn(m, ids) = f[n] /\ ScoreIn(m, p) = g[n + 1]
  BY <1>1 DEF ScoreIn
<1>3. Scores(f, m, ids, n) /\ Scores(g, m, p, n + 1)
  <2>1. n \in Nat /\ n + 1 \in Nat
    BY <1>1
  <2> QED
    BY <1>1, <2>1, ScoresExist
<1> HIDE DEF f, g
<1>4. /\ f[0] = 0 /\ g[0] = 0
      /\ \A i \in 1 .. n : f[i] = f[i - 1] + RowIn(m, SubSeq(ids, 1, i - 1))[ids[i]]
      /\ \A i \in 1 .. n + 1 : g[i] = g[i - 1] + RowIn(m, SubSeq(p, 1, i - 1))[p[i]]
  <2>1. /\ 0 \in 0 .. n /\ 0 \in 0 .. n + 1
        /\ \A i \in 1 .. n : i \in 0 .. n /\ i # 0
        /\ \A i \in 1 .. n + 1 : i \in 0 .. n + 1 /\ i # 0
    BY <1>1
  <2>2. /\ \A i \in 0 .. n : f[i] = IF i = 0 THEN 0
                                    ELSE f[i - 1] + RowIn(m, SubSeq(ids, 1, i - 1))[ids[i]]
        /\ \A i \in 0 .. n + 1 : g[i] = IF i = 0 THEN 0
                                        ELSE g[i - 1] + RowIn(m, SubSeq(p, 1, i - 1))[p[i]]
    BY <1>3 DEF Scores
  <2> QED
    BY <2>1, <2>2
<1>5. ASSUME NEW i \in Nat, \A j \in Nat : j < i => j \in N
      PROVE  i \in N
  <2>1. CASE i = 0
    BY <1>4, <2>1
  <2>2. CASE i > 0 /\ i <= n
    <3>1. i - 1 \in Nat /\ i - 1 < i /\ i - 1 <= n /\ i \in 1 .. n /\ i \in 1 .. n + 1
      BY <1>1, <2>2
    <3>2. f[i - 1] = g[i - 1]
      BY <1>5, <3>1
    <3>3. f[i] = g[i]
      BY <1>1, <1>4, <3>1, <3>2
    <3> QED
      BY <3>3
  <2>3. CASE ~(i <= n)
    BY <2>3
  <2> QED
    BY <2>1, <2>2, <2>3
<1>6. N \in SUBSET Nat
  OBVIOUS
<1> HIDE DEF N
<1>7. N = Nat
  BY ONLY <1>5, <1>6, StrongInduction
<1>8. f[n] = g[n]
  BY <1>1, <1>7 DEF N
<1>9. g[n + 1] = g[n] + RowIn(m, ids)[t]
  <2>1. n + 1 \in 1 .. n + 1 /\ (n + 1) - 1 = n
    BY <1>1
  <2> QED
    BY <1>1, <1>4, <2>1
<1> QED
  BY <1>2, <1>8, <1>9 DEF p

LEMMA ScoreOfNothing ==
    ASSUME NEW m
    PROVE  ScoreIn(m, <<>>) = 0
<1>1. Len(<<>>) = 0 /\ 0 \in 0 .. 0
  OBVIOUS
<1> DEFINE f == CHOOSE h : Scores(h, m, <<>>, 0)
<1>2. Scores(f, m, <<>>, 0)
  BY ScoresExist
<1> HIDE DEF f
<1>3. f[0] = 0
  BY <1>1, <1>2 DEF Scores
<1> QED
  BY <1>1, <1>3 DEF ScoreIn, f

-----------------------------------------------------------------------------
(* The winner *)

LEMMA SameSum ==
    ASSUME NEW a \in Int, NEW b \in Int, NEW c \in Int, a + b = a + c
    PROVE  b = c
OBVIOUS

LEMMA Scaled ==
    ASSUME NEW a \in Int, NEW b \in Int, NEW n \in Nat \ {0}
    PROVE  a <= b <=> a * n <= b * n
OBVIOUS

\* Of three ratios, the first is at most the last.
LEMMA RatiosOrdered ==
    ASSUME NEW a \in Int, NEW b \in Int, NEW c \in Int,
           NEW x \in Nat \ {0}, NEW y \in Nat \ {0}, NEW z \in Nat \ {0},
           a * y <= b * x, b * z <= c * y
    PROVE  a * z <= c * x
<1>1. (a * y) * z <= (b * x) * z
  <2>1. a * y \in Int /\ b * x \in Int
    OBVIOUS
  <2> QED
    BY <2>1, Scaled
<1>2. (b * z) * x <= (c * y) * x
  <2>1. b * z \in Int /\ c * y \in Int
    OBVIOUS
  <2> QED
    BY <2>1, Scaled
<1>3. (a * y) * z = (a * z) * y /\ (b * x) * z = (b * z) * x /\ (c * y) * x = (c * x) * y
  OBVIOUS
<1>4. (a * z) * y <= (c * x) * y
  <2>1. (a * z) * y \in Int /\ (b * z) * x \in Int /\ (c * x) * y \in Int
    OBVIOUS
  <2> QED
    BY ONLY <1>1, <1>2, <1>3, <2>1
<1>5. a * z \in Int /\ c * x \in Int
  OBVIOUS
<1> QED
  BY <1>4, <1>5, Scaled

\* max() finds a hypothesis that no other one of the pool outscores.
LEMMA WinnerIs ==
    ASSUME NEW pool \in Seq(Hypotheses), pool # <<>>,
           \A i \in 1 .. Len(pool) : Weight(pool[i].token_ids) \in Nat \ {0}
    PROVE  /\ Winner(pool) \in Elems(pool)
           /\ \A c \in Elems(pool) :
                c.cum_logprob * Weight(Winner(pool).token_ids)
                  <= Winner(pool).cum_logprob * Weight(c.token_ids)
<1> DEFINE n == Len(pool)
           S(i) == pool[i].cum_logprob
           W(i) == Weight(pool[i].token_ids)
           AtMost(i, j) == S(i) * W(j) <= S(j) * W(i)
           N == {i \in Nat : i \in 1 .. n => \E k \in 1 .. i : \A j \in 1 .. i : AtMost(j, k)}
<1>1. n \in Nat /\ 1 \in 1 .. n /\ DOMAIN pool = 1 .. n
  OBVIOUS
<1>2. \A i \in 1 .. n : S(i) \in Int /\ W(i) \in Nat \ {0}
  <2>1. \A i \in 1 .. n : pool[i] \in Hypotheses
    OBVIOUS
  <2> QED
    BY <2>1 DEF Hypotheses
<1>3. \A i, j \in 1 .. n : Better(pool[j], pool[i]) <=> ~AtMost(j, i)
  <2> SUFFICES ASSUME NEW i \in 1 .. n, NEW j \in 1 .. n
               PROVE  Better(pool[j], pool[i]) <=> ~AtMost(j, i)
    OBVIOUS
  <2>1. Better(pool[j], pool[i]) <=> S(j) * W(i) > S(i) * W(j)
    BY DEF Better
  <2>2. S(i) \in Int /\ S(j) \in Int /\ W(i) \in Int /\ W(j) \in Int
    BY <1>2
  <2> HIDE DEF S, W
  <2>3. S(j) * W(i) \in Int /\ S(i) * W(j) \in Int
    BY <2>2
  <2> QED
    BY <2>1, <2>3
<1> HIDE DEF S, W
<1>4. \A i, j, k \in 1 .. n : AtMost(i, j) /\ AtMost(j, k) => AtMost(i, k)
  <2> SUFFICES ASSUME NEW i \in 1 .. n, NEW j \in 1 .. n, NEW k \in 1 .. n,
                      AtMost(i, j), AtMost(j, k)
               PROVE  AtMost(i, k)
    OBVIOUS
  <2>1. /\ S(i) \in Int /\ S(j) \in Int /\ S(k) \in Int
        /\ W(i) \in Nat \ {0} /\ W(j) \in Nat \ {0} /\ W(k) \in Nat \ {0}
        /\ S(i) * W(j) <= S(j) * W(i) /\ S(j) * W(k) <= S(k) * W(j)
    BY <1>2
  <2> QED
    BY ONLY <2>1, RatiosOrdered
<1>5. \A i, j \in 1 .. n : AtMost(i, j) \/ AtMost(j, i)
  <2> SUFFICES ASSUME NEW i \in 1 .. n, NEW j \in 1 .. n PROVE AtMost(i, j) \/ AtMost(j, i)
    OBVIOUS
  <2>1. S(i) \in Int /\ S(j) \in Int /\ W(i) \in Int /\ W(j) \in Int
    BY <1>2
  <2>2. S(j) * W(i) \in Int /\ S(i) * W(j) \in Int
    BY <2>1
  <2> QED
    BY <2>2
<1>6. ASSUME NEW i \in Nat, \A l \in Nat : l < i => l \in N
      PROVE  i \in N
  <2> SUFFICES ASSUME i \in 1 .. n PROVE \E k \in 1 .. i : \A j \in 1 .. i : AtMost(j, k)
    OBVIOUS
  <2>1. CASE i = 1
    <3>1. \A j \in 1 .. i : j = i /\ i \in 1 .. i
      BY <2>1
    <3>2. AtMost(i, i) /\ i \in 1 .. i
      BY <1>5, <2>1
    <3> HIDE DEF AtMost
    <3> QED
      BY <3>1, <3>2
  <2>2. CASE i # 1
    <3>1. i - 1 \in Nat /\ i - 1 < i /\ i - 1 \in 1 .. n /\ i \in 1 .. i
      BY <1>1, <2>2
    <3>2. PICK k \in 1 .. i - 1 : \A j \in 1 .. i - 1 : AtMost(j, k)
      BY <1>6, <3>1
    <3>3. \A j \in 1 .. i : j = i \/ j \in 1 .. i - 1
      BY <3>1
    <3>4. k \in 1 .. n /\ k \in 1 .. i /\ \A j \in 1 .. i - 1 : j \in 1 .. n
      BY <3>1
    <3> HIDE DEF AtMost
    <3>5. CASE AtMost(i, k)
      <4>1. \A j \in 1 .. i : AtMost(j, k)
        BY <3>2, <3>3, <3>5
      <4> QED
        BY <3>4, <4>1
    <3>6. CASE ~AtMost(i, k)
      <4>1. AtMost(k, i) /\ AtMost(i, i)
        BY <1>5, <3>4, <3>6
      <4>2. \A j \in 1 .. i - 1 : AtMost(j, i)
        BY <1>4, <3>2, <3>4, <4>1
      <4>3. \A j \in 1 .. i : AtMost(j, i)
        BY <3>3, <4>1, <4>2
      <4> QED
        BY <3>1, <4>3
    <3> QED
      BY <3>5, <3>6
  <2> QED
    BY <2>1, <2>2
<1>7. N \in SUBSET Nat
  OBVIOUS
<1> HIDE DEF N
<1>8. N = Nat
  BY ONLY <1>6, <1>7, StrongInduction
<1>9. \E k \in 1 .. n : \A j \in 1 .. n : AtMost(j, k)
  <2>1. n \in 1 .. n
    BY <1>1
  <2> QED
    BY <1>1, <1>8, <2>1 DEF N
<1> HIDE DEF AtMost
<1>10. /\ Unbeaten(pool) \in SUBSET Nat /\ Unbeaten(pool) # {}
       /\ \A i \in Unbeaten(pool) : i \in 1 .. n /\ \A j \in 1 .. n : AtMost(j, i)
  <2>1. Unbeaten(pool) = {i \in 1 .. n : \A j \in 1 .. n : AtMost(j, i)}
    <3>1. Unbeaten(pool) = {i \in 1 .. n : \A j \in 1 .. n : ~Better(pool[j], pool[i])}
      BY <1>1 DEF Unbeaten
    <3>2. \A i \in 1 .. n : (\A j \in 1 .. n : ~Better(pool[j], pool[i]))
                              <=> (\A j \in 1 .. n : AtMost(j, i))
      BY <1>3
    <3> QED
      BY <3>1, <3>2
  <2>2. 1 .. n \subseteq Nat
    BY <1>1
  <2> HIDE DEF n
  <2> QED
    BY <1>9, <2>1, <2>2
<1>11. Min(Unbeaten(pool)) \in Unbeaten(pool)
  <2>1. \E i \in Unbeaten(pool) : \A j \in Unbeaten(pool) : i <= j
    BY <1>10, LeastNatural
  <2> QED
    BY <2>1 DEF Min
<1>12. PICK i \in 1 .. n : Winner(pool) = pool[i] /\ \A j \in 1 .. n : AtMost(j, i)
  BY <1>10, <1>11 DEF Winner
<1>13. \A c \in Elems(pool) : \E j \in 1 .. n : c = pool[j]
  BY <1>1 DEF Elems
<1> QED
  BY <1>1, <1>12, <1>13 DEF Elems, AtMost, S, W

-----------------------------------------------------------------------------
(* BeamSearch: the inductive invariant *)

BeamTypes ==
    /\ lm \in [{0} \cup (BeamTokens \ BeamStops) -> LogProbRows]
    /\ params \in BeamParams
    /\ beams \in Seq(Hypotheses) /\ finished \in Seq(Hypotheses)
    /\ finish_reason \in {"", "stop", "length"}
    /\ IsDone => beams = <<>>

FinishedInTime ==
    \A i \in DOMAIN finished : Len(finished[i].token_ids) \in 1 .. params.max_new_tokens

\* Every choice of the model m along a path was the most probable one.
GreedyIn(m, path) ==
    \A i \in DOMAIN path :
        \A t \in BeamTokens : RowIn(m, SubSeq(path, 1, i - 1))[path[i]] >= RowIn(m, SubSeq(path, 1, i - 1))[t]

GreedyAlone ==
    params.num_beams = 1 =>
        \A h \in Elems(beams) \cup Elems(finished) : GreedyIn(lm, h.token_ids)

BeamIInv ==
    /\ BeamTypes /\ HypothesesExact /\ FinishedInTime
    /\ GreedyAlone /\ OneBeamIsGreedy

-----------------------------------------------------------------------------
(* One step *)

\* A hypothesis of n + 1 tokens, the last of which may stop it.
Extends(h, m, p, n) ==
    /\ h \in Hypotheses /\ Len(h.token_ids) = n + 1
    /\ h.cum_logprob = ScoreIn(m, h.token_ids)
    /\ \A k \in 1 .. n : h.token_ids[k] \notin BeamStops
    /\ p.num_beams = 1 => GreedyIn(m, h.token_ids)

\* The length of the beams.
Depth == Len(beams[1].token_ids)

LEMMA ParamsAre ==
    ASSUME BeamTypes
    PROVE  /\ params.num_beams \in BeamTokens /\ params.num_beams \in Nat \ {0}
           /\ params.max_new_tokens \in Nat \ {0}
           /\ \A ids : Len(ids) \in 1 .. params.max_new_tokens => Weight(ids) \in Nat \ {0}
<1>1. params \in BeamParams
  BY DEF BeamTypes
<1> QED
  BY <1>1, BeamAssumption DEF BeamTokens, Weight

LEMMA BeamIs ==
    ASSUME BeamIInv, NEW i \in DOMAIN beams
    PROVE  /\ beams[i] \in Hypotheses /\ Len(beams[i].token_ids) = Depth
           /\ i \in Nat /\ Depth \in Nat /\ Depth < params.max_new_tokens
           /\ beams[i].cum_logprob = ScoreIn(lm, beams[i].token_ids)
           /\ \A k \in 1 .. Depth : beams[i].token_ids[k] \notin BeamStops
           /\ LogProbs(beams[i].token_ids) = RowIn(lm, beams[i].token_ids)
           /\ LogProbs(beams[i].token_ids) \in LogProbRows
           /\ params.num_beams = 1 => GreedyIn(lm, beams[i].token_ids)
<1> DEFINE h == beams[i]
           ids == h.token_ids
<1>1. beams \in Seq(Hypotheses) /\ i \in 1 .. Len(beams) /\ Len(beams) \in Nat /\ beams # <<>>
  <2>1. beams \in Seq(Hypotheses)
    BY DEF BeamIInv, BeamTypes
  <2>2. DOMAIN beams = 1 .. Len(beams) /\ Len(beams) \in Nat
    BY <2>1
  <2> QED
    BY <2>1, <2>2
<1>2. h \in Hypotheses /\ beams[1] \in Hypotheses
  BY <1>1
<1>3. ids \in Seq(BeamTokens) /\ Depth \in Nat
  BY <1>2 DEF Hypotheses, Depth
<1>4. /\ h.cum_logprob = PathScore(ids) /\ Len(ids) = Depth
      /\ \A t \in Elems(ids) : t \notin BeamStops
  BY DEF BeamIInv, HypothesesExact, BeamsGoOn, Depth
<1>5. ~IsDone /\ Depth < params.max_new_tokens
  BY <1>1 DEF BeamIInv, BeamTypes, HypothesesExact, BeamsGoOn, Depth
<1>6. \A k \in 1 .. Depth : ids[k] \in Elems(ids)
  BY <1>3, <1>4 DEF Elems
<1>7. LogProbs(ids) \in LogProbRows
  <2>1. lm \in [{0} \cup (BeamTokens \ BeamStops) -> LogProbRows]
    BY DEF BeamIInv, BeamTypes
  <2>2. ids # <<>> => Last(ids) \in BeamTokens \ BeamStops
    <3> SUFFICES ASSUME ids # <<>> PROVE Last(ids) \in BeamTokens \ BeamStops
      OBVIOUS
    <3>1. Depth \in 1 .. Depth /\ Last(ids) = ids[Depth]
      BY <1>3, <1>4 DEF Last
    <3>2. ids[Depth] \in BeamTokens /\ ids[Depth] \notin BeamStops
      BY <1>3, <1>4, <1>6, <3>1
    <3> QED
      BY <3>1, <3>2
  <2> HIDE DEF ids
  <2> QED
    BY <2>1, <2>2 DEF LogProbs
<1>8. params.num_beams = 1 => GreedyIn(lm, ids)
  BY <1>1 DEF BeamIInv, GreedyAlone, Elems
<1>9. i \in Nat
  BY <1>1
<1> QED
  BY <1>2, <1>3, <1>4, <1>5, <1>6, <1>7, <1>8, <1>9, ScoreNow

LEMMA ChildIs ==
    ASSUME BeamIInv, NEW i \in DOMAIN beams, NEW t \in BeamTokens
    PROVE  LET h == Child(beams[i], t) IN
           /\ h \in Hypotheses /\ Len(h.token_ids) = Depth + 1
           /\ h.cum_logprob = beams[i].cum_logprob + LogProbs(beams[i].token_ids)[t]
           /\ h.cum_logprob = ScoreIn(lm, h.token_ids)
           /\ \A k \in 1 .. Depth : h.token_ids[k] \notin BeamStops
           /\ SubSeq(h.token_ids, 1, Depth) = beams[i].token_ids
           /\ h.token_ids[Depth + 1] = t /\ (Stopped(h) <=> t \in BeamStops)
           /\ t \in TopTokens(LogProbs(beams[i].token_ids)) => Extends(h, lm, params, Depth)
<1> DEFINE ids == beams[i].token_ids
           h == Child(beams[i], t)
           p == Append(ids, t)
           row == LogProbs(ids)
<1>1. /\ beams[i] \in Hypotheses /\ Len(ids) = Depth /\ Depth \in Nat
      /\ beams[i].cum_logprob = ScoreIn(lm, ids)
      /\ \A k \in 1 .. Depth : ids[k] \notin BeamStops
      /\ row = RowIn(lm, ids) /\ row \in LogProbRows
      /\ params.num_beams = 1 => GreedyIn(lm, ids)
  BY BeamIs
<1>2. ids \in Seq(BeamTokens) /\ beams[i].cum_logprob \in Int
  BY <1>1 DEF Hypotheses
<1>3. row[t] \in Int
  BY <1>1, BeamAssumption
<1>4. h.token_ids = p /\ h.cum_logprob = beams[i].cum_logprob + row[t]
      /\ h = [token_ids |-> p, cum_logprob |-> beams[i].cum_logprob + row[t]]
  BY DEF Child
<1> HIDE DEF h, p, row
<1>5. /\ p \in Seq(BeamTokens) /\ Len(p) = Depth + 1 /\ DOMAIN p = 1 .. Depth + 1
      /\ \A k \in 1 .. Depth : p[k] = ids[k]
      /\ p[Depth + 1] = t /\ Last(p) = t
      /\ \A k \in 1 .. Depth + 1 : SubSeq(p, 1, k - 1) = SubSeq(ids, 1, k - 1)
      /\ SubSeq(p, 1, Depth) = ids
  <2> HIDE DEF ids
  <2>1. /\ p \in Seq(BeamTokens) /\ Len(p) = Len(ids) + 1 /\ DOMAIN p = 1 .. Len(ids) + 1
        /\ \A k \in 1 .. Len(ids) : p[k] = ids[k]
        /\ p[Len(ids) + 1] = t /\ Last(p) = t
        /\ \A k \in 1 .. Len(ids) + 1 : SubSeq(p, 1, k - 1) = SubSeq(ids, 1, k - 1)
        /\ SubSeq(p, 1, Len(ids)) = ids
    BY <1>2, Appended DEF p
  <2>2. Len(ids) = Depth
    BY <1>1
  <2> QED
    BY ONLY <2>1, <2>2
<1>6. h \in Hypotheses
  <2>1. beams[i].cum_logprob + row[t] \in Int
    BY <1>2, <1>3
  <2> QED
    BY <1>4, <1>5, <2>1 DEF Hypotheses
<1>7. h.cum_logprob = ScoreIn(lm, h.token_ids)
  <2>1. ScoreIn(lm, p) = ScoreIn(lm, ids) + RowIn(lm, ids)[t]
    <3> HIDE DEF ids
    <3> QED
      BY <1>2, ScoreGrows DEF p
  <2> QED
    BY <1>1, <1>4, <2>1
<1>8. Stopped(h) <=> t \in BeamStops
  BY <1>4, <1>5 DEF Stopped
<1>9. ASSUME params.num_beams = 1, t \in TopTokens(row)
      PROVE  GreedyIn(lm, p)
  <2>1. params.num_beams \in BeamTokens
    BY ParamsAre DEF BeamIInv
  <2>2. \A s \in BeamTokens : row[t] >= row[s]
    BY <1>1, <1>9, <2>1, TopTokensAre
  <2> SUFFICES ASSUME NEW k \in 1 .. Depth + 1, NEW s \in BeamTokens
               PROVE  RowIn(lm, SubSeq(p, 1, k - 1))[p[k]] >= RowIn(lm, SubSeq(p, 1, k - 1))[s]
    BY <1>5 DEF GreedyIn
  <2>3. CASE k = Depth + 1
    <3>1. k - 1 = Depth
      BY <1>1, <2>3
    <3> QED
      BY <1>1, <1>5, <2>2, <2>3, <3>1
  <2>4. CASE k # Depth + 1
    <3>1. k \in 1 .. Depth
      BY <1>1, <2>4
    <3>2. GreedyIn(lm, ids) /\ DOMAIN ids = 1 .. Depth
      BY <1>1, <1>2, <1>9
    <3>3. RowIn(lm, SubSeq(ids, 1, k - 1))[ids[k]] >= RowIn(lm, SubSeq(ids, 1, k - 1))[s]
      BY <3>1, <3>2 DEF GreedyIn
    <3> QED
      BY <1>5, <3>1, <3>3
  <2> QED
    BY <2>3, <2>4
<1>10. \A k \in 1 .. Depth : p[k] \notin BeamStops
  BY <1>1, <1>5
<1>11. t \in TopTokens(row) => Extends(h, lm, params, Depth)
  BY <1>4, <1>5, <1>6, <1>7, <1>9, <1>10 DEF Extends
<1> QED
  BY <1>4, <1>5, <1>6, <1>7, <1>8, <1>10, <1>11 DEF h, row

\* What a step chooses from: children of the beams, no two the same, and as
\* many as the sort can tell apart.
LEMMA CandidatesAre ==
    ASSUME BeamIInv
    PROVE  /\ Sortable(Candidates)
           /\ \A c \in Candidates : Extends(c.child, lm, params, Depth)
           /\ \A c \in Candidates : Stopped(c.child) <=> c.child.token_ids[Depth + 1] \in BeamStops
           /\ \A i \in DOMAIN beams : \A t \in TopTokens(LogProbs(beams[i].token_ids)) :
                [parent |-> i, child |-> Child(beams[i], t)] \in Candidates
           /\ beams # <<>> => Candidates # {}
<1> DEFINE Top(i) == TopTokens(LogProbs(beams[i].token_ids))
           Cand(i, t) == [parent |-> i, child |-> Child(beams[i], t)]
           P == (DOMAIN beams) \X BeamTokens
           f == [p \in P |-> Cand(p[1], p[2])]
           Q == {f[p] : p \in P}
<1>1. beams \in Seq(Hypotheses) /\ DOMAIN beams = 1 .. Len(beams) /\ Len(beams) \in Nat
  <2>1. beams \in Seq(Hypotheses)
    BY DEF BeamIInv, BeamTypes
  <2> QED
    BY <2>1
<1>2. params.num_beams \in BeamTokens /\ params.num_beams \in Nat \ {0} /\ BeamVocab \in Nat
  BY ParamsAre, BeamAssumption DEF BeamIInv
<1>3. ASSUME NEW i \in DOMAIN beams
      PROVE  Top(i) \subseteq BeamTokens /\ Top(i) # {}
  <2>1. LogProbs(beams[i].token_ids) \in LogProbRows
    BY BeamIs
  <2>2. /\ Top(i) \subseteq BeamTokens
        /\ IsFiniteSet(Top(i)) /\ Cardinality(Top(i)) = params.num_beams
    BY <1>2, <2>1, TopTokensAre
  <2> HIDE DEF Top
  <2> QED
    BY <1>2, <2>2, FS_EmptySet
<1>4. \A c \in Candidates : \E i \in DOMAIN beams : \E t \in Top(i) : c = Cand(i, t)
  BY DEF Candidates
<1>5. \A i \in DOMAIN beams : \A t \in Top(i) : Cand(i, t) \in Candidates
  BY DEF Candidates
<1>6. beams # <<>> => Candidates # {}
  <2>1. beams # <<>> => 1 \in DOMAIN beams
    BY <1>1
  <2> QED
    BY <1>3, <1>5, <2>1
<1>7. \A i, t : Cand(i, t).parent = i /\ Cand(i, t).child = Child(beams[i], t)
  OBVIOUS
<1>8. IsFiniteSet(Candidates)
  <2>1. IsFiniteSet(P)
    <3>1. IsFiniteSet(DOMAIN beams) /\ IsFiniteSet(BeamTokens)
      BY <1>1, <1>2, FS_Interval DEF BeamTokens
    <3> QED
      BY <3>1, FS_Product
  <2>2. f \in Surjection(P, Q)
    BY DEF Surjection
  <2>3. Candidates \in SUBSET Q
    <3> SUFFICES ASSUME NEW c \in Candidates PROVE c \in Q
      OBVIOUS
    <3>1. PICK i \in DOMAIN beams, t \in BeamTokens : t \in Top(i) /\ c = Cand(i, t)
      BY <1>3, <1>4
    <3>2. <<i, t>> \in P
      BY <1>3
    <3>3. f[<<i, t>>] = c
      BY <3>1, <3>2
    <3> QED
      BY <3>2, <3>3
  <2> HIDE DEF f, P, Q
  <2>4. IsFiniteSet(Q)
    BY <2>1, <2>2, FS_Surjection
  <2> QED
    BY <2>3, <2>4, FS_Subset
<1> HIDE DEF Top, Cand
<1> DEFINE Born(i, t) ==
             LET h == Child(beams[i], t) IN
             /\ i \in Nat /\ t \in BeamTokens
             /\ h \in Hypotheses /\ Extends(h, lm, params, Depth)
             /\ h.cum_logprob = beams[i].cum_logprob + LogProbs(beams[i].token_ids)[t]
             /\ beams[i].cum_logprob \in Int
             /\ LogProbs(beams[i].token_ids) \in [BeamTokens -> Int]
             /\ IsInjective(LogProbs(beams[i].token_ids))
             /\ SubSeq(h.token_ids, 1, Depth) = beams[i].token_ids
             /\ h.token_ids[Depth + 1] = t /\ (Stopped(h) <=> t \in BeamStops)
<1>9. ASSUME NEW i \in DOMAIN beams, NEW t \in BeamTokens, t \in Top(i)
      PROVE  Born(i, t)
  <2>1. t \in BeamTokens /\ t \in TopTokens(LogProbs(beams[i].token_ids))
    BY <1>9 DEF Top
  <2>2. i \in Nat /\ beams[i] \in Hypotheses /\ LogProbs(beams[i].token_ids) \in LogProbRows
    BY BeamIs
  <2>3. beams[i].cum_logprob \in Int
    BY <2>2 DEF Hypotheses
  <2> QED
    BY <2>1, <2>2, <2>3, ChildIs, BeamAssumption
<1> HIDE DEF Born
<1>10. ASSUME NEW c \in Candidates
       PROVE  /\ c \in [parent : Nat, child : Hypotheses]
              /\ Extends(c.child, lm, params, Depth)
              /\ Stopped(c.child) <=> c.child.token_ids[Depth + 1] \in BeamStops
  <2>1. PICK i \in DOMAIN beams, t \in BeamTokens : t \in Top(i) /\ c = Cand(i, t)
    BY <1>3, <1>4
  <2>2. c = [parent |-> i, child |-> Child(beams[i], t)]
    BY <2>1 DEF Cand
  <2>3. Born(i, t)
    BY <1>9, <2>1
  <2> QED
    BY ONLY <2>2, <2>3 DEF Born
<1>11. ASSUME NEW c \in Candidates, NEW d \in Candidates
       PROVE  /\ c.child.cum_logprob = d.child.cum_logprob /\ c.parent = d.parent => c = d
              /\ c.child.token_ids = d.child.token_ids => c = d
  <2>1. PICK i \in DOMAIN beams, t \in BeamTokens : t \in Top(i) /\ c = Cand(i, t)
    BY <1>3, <1>4
  <2>2. PICK j \in DOMAIN beams, u \in BeamTokens : u \in Top(j) /\ d = Cand(j, u)
    BY <1>3, <1>4
  <2>3. /\ c.parent = i /\ c.child = Child(beams[i], t)
        /\ d.parent = j /\ d.child = Child(beams[j], u)
    BY <1>7, <2>1, <2>2
  <2>4. Born(i, t) /\ Born(j, u)
    BY <1>9, <2>1, <2>2
  <2>5. ASSUME i = j, c.child.cum_logprob = d.child.cum_logprob
        PROVE  t = u
    <3> DEFINE row == LogProbs(beams[i].token_ids)
               s == beams[i].cum_logprob
    <3>1. /\ s \in Int /\ row \in [BeamTokens -> Int] /\ IsInjective(row)
          /\ c.child.cum_logprob = s + row[t] /\ d.child.cum_logprob = s + row[u]
      BY ONLY <2>3, <2>4, <2>5 DEF Born
    <3> HIDE DEF row, s
    <3>2. row[t] \in Int /\ row[u] \in Int
      BY <3>1
    <3>3. s + row[t] = s + row[u]
      BY <2>5, <3>1
    <3>4. row[t] = row[u]
      <4>1. s \in Int
        BY <3>1
      <4> QED
        BY ONLY <3>2, <3>3, <4>1, SameSum
    <3> QED
      BY <3>1, <3>4 DEF IsInjective
  <2>6. ASSUME c.child.token_ids = d.child.token_ids
        PROVE  i = j /\ t = u
    <3>1. t = u /\ beams[i].token_ids = beams[j].token_ids
      BY ONLY <2>3, <2>4, <2>6 DEF Born
    <3>2. \A k, l \in DOMAIN beams : beams[k].token_ids = beams[l].token_ids => k = l
      BY DEF BeamIInv, HypothesesExact, BeamsGoOn
    <3> QED
      BY <3>1, <3>2
  <2> QED
    BY <2>1, <2>2, <2>3, <2>5, <2>6
<1>12. Sortable(Candidates)
  BY <1>8, <1>10, <1>11 DEF Sortable
<1> QED
  BY <1>5, <1>6, <1>10, <1>12 DEF Top, Cand

\* The hypotheses a step leaves: those that go on and those that end.
LEMMA StepMakes ==
    ASSUME BeamIInv, beams # <<>>
    PROVE  LET V     == Visited(Candidates)
               new   == Survivors(V)
               ended == Ordered({c \in V : Stopped(c.child)}) IN
           /\ new \in Seq(Hypotheses) /\ ended \in Seq(Hypotheses)
           /\ Len(new) \in Nat /\ Len(new) <= params.num_beams
           /\ \A h \in Elems(new) : Extends(h, lm, params, Depth) /\ h.token_ids[Depth + 1] \notin BeamStops
           /\ \A h \in Elems(ended) : Extends(h, lm, params, Depth) /\ h.token_ids[Depth + 1] \in BeamStops
           /\ \A i, j \in 1 .. Len(new) : new[i].token_ids = new[j].token_ids => i = j
           /\ new = <<>> => ended # <<>>
<1> DEFINE V     == Visited(Candidates)
           On    == {c \in V : ~Stopped(c.child)}
           Off   == {c \in V : Stopped(c.child)}
           new   == Survivors(V)
           ended == Ordered(Off)
<1>1. /\ Sortable(Candidates) /\ Candidates # {}
      /\ \A c \in Candidates : Extends(c.child, lm, params, Depth)
      /\ \A c \in Candidates : Stopped(c.child) <=> c.child.token_ids[Depth + 1] \in BeamStops
  BY CandidatesAre
<1>2. params.num_beams \in Nat \ {0}
  BY ParamsAre DEF BeamIInv
<1>3. /\ V \subseteq Candidates /\ V # {}
      /\ IsFiniteSet(On) /\ Cardinality(On) <= params.num_beams
  BY <1>1, <1>2, VisitedAre
<1> HIDE DEF V
<1>4. new = Ordered(On)
  BY DEF Survivors
<1>5. Sortable(On) /\ Sortable(Off)
  BY <1>1, <1>3, SortableSubset
<1> HIDE DEF new, ended
<1>6. /\ new \in Seq(Hypotheses) /\ Len(new) = Cardinality(On)
      /\ Elems(new) = {c.child : c \in On}
      /\ \A i, j \in 1 .. Len(new) : new[i].token_ids = new[j].token_ids => i = j
  <2> HIDE DEF On
  <2> QED
    BY <1>4, <1>5, OrderedIs
<1>7. /\ ended \in Seq(Hypotheses)
      /\ Elems(ended) = {c.child : c \in Off}
  <2> HIDE DEF Off
  <2> QED
    BY <1>5, OrderedIs DEF ended
<1>8. Len(new) \in Nat /\ Len(new) <= params.num_beams
  BY <1>3, <1>6, FS_CardinalityType
<1>9. \A h \in Elems(new) : Extends(h, lm, params, Depth) /\ h.token_ids[Depth + 1] \notin BeamStops
  BY <1>1, <1>3, <1>6
<1>10. \A h \in Elems(ended) : Extends(h, lm, params, Depth) /\ h.token_ids[Depth + 1] \in BeamStops
  BY <1>1, <1>3, <1>7
<1>11. new = <<>> => ended # <<>>
  <2> SUFFICES ASSUME new = <<>>, ended = <<>> PROVE FALSE
    OBVIOUS
  <2>1. Elems(new) = {} /\ Elems(ended) = {}
    BY DEF Elems
  <2> QED
    BY <1>3, <1>6, <1>7, <2>1
<1> QED
  BY <1>6, <1>7, <1>8, <1>9, <1>10, <1>11 DEF new, ended, Off, V

\* A hypothesis that stopped at its last token, within p's length.
Ended(h, m, p) ==
    /\ h \in Hypotheses /\ h.cum_logprob = ScoreIn(m, h.token_ids)
    /\ Len(h.token_ids) \in 1 .. p.max_new_tokens
    /\ \A k \in DOMAIN h.token_ids : h.token_ids[k] \in BeamStops <=> k = Len(h.token_ids)
    /\ p.num_beams = 1 => GreedyIn(m, h.token_ids)

LEMMA FinishedEnded ==
    ASSUME BeamIInv
    PROVE  \A h \in Elems(finished) : Ended(h, lm, params)
<1> SUFFICES ASSUME NEW h \in Elems(finished) PROVE Ended(h, lm, params)
  OBVIOUS
<1>1. PICK i \in DOMAIN finished : h = finished[i]
  BY DEF Elems
<1>2. finished \in Seq(Hypotheses)
  BY DEF BeamIInv, BeamTypes
<1>3. h \in Hypotheses
  BY <1>1, <1>2
<1>4. /\ h.cum_logprob = PathScore(h.token_ids)
      /\ \A k \in DOMAIN h.token_ids : h.token_ids[k] \in BeamStops <=> k = Len(h.token_ids)
      /\ Len(h.token_ids) \in 1 .. params.max_new_tokens
  BY <1>1 DEF BeamIInv, HypothesesExact, FinishedStop, FinishedInTime
<1>5. params.num_beams = 1 => GreedyIn(lm, h.token_ids)
  BY DEF BeamIInv, GreedyAlone
<1> QED
  BY <1>3, <1>4, <1>5, ScoreNow DEF Ended

LEMMA ExtendsEnds ==
    ASSUME NEW h, NEW n \in Nat, BeamTypes, Extends(h, lm, params, n), n < params.max_new_tokens,
           h.token_ids[n + 1] \in BeamStops
    PROVE  Ended(h, lm, params)
<1>1. /\ h \in Hypotheses /\ Len(h.token_ids) = n + 1
      /\ h.cum_logprob = ScoreIn(lm, h.token_ids)
      /\ \A k \in 1 .. n : h.token_ids[k] \notin BeamStops
      /\ params.num_beams = 1 => GreedyIn(lm, h.token_ids)
  BY DEF Extends
<1>2. DOMAIN h.token_ids = 1 .. n + 1
  BY <1>1 DEF Hypotheses
<1>3. \A k \in 1 .. n + 1 : k = n + 1 \/ (k \in 1 .. n /\ k # n + 1)
  OBVIOUS
<1>4. n + 1 \in 1 .. params.max_new_tokens
  BY ParamsAre
<1> QED
  BY <1>1, <1>2, <1>3, <1>4 DEF Ended

\* The winner of hypotheses that may win.
LEMMA WinnerOf ==
    ASSUME BeamTypes, NEW pool \in Seq(Hypotheses), pool # <<>>,
           \A h \in Elems(pool) : Len(h.token_ids) \in 1 .. params.max_new_tokens
    PROVE  /\ Winner(pool) \in Elems(pool)
           /\ \A c \in Elems(pool) :
                c.cum_logprob * Weight(Winner(pool).token_ids)
                  <= Winner(pool).cum_logprob * Weight(c.token_ids)
<1>1. \A i \in 1 .. Len(pool) : pool[i] \in Elems(pool)
  BY DEF Elems
<1>2. \A i \in 1 .. Len(pool) : Weight(pool[i].token_ids) \in Nat \ {0}
  BY <1>1, ParamsAre
<1> QED
  BY <1>2, WinnerIs

LEMMA GreedyNow == \A path : GreedyChoices(path) <=> GreedyIn(lm, path)
BY ScoreNow DEF GreedyChoices, GreedyIn

LEMMA GreedyNext == \A path : GreedyChoices(path)' <=> GreedyIn(lm', path)
BY ScoreNext DEF GreedyChoices, GreedyIn

LEMMA BeamStepKeeps == BeamIInv /\ BeamStep => BeamIInv'
<1> SUFFICES ASSUME BeamIInv, BeamStep PROVE BeamIInv'
  OBVIOUS
<1> DEFINE V     == Visited(Candidates)
           new   == Survivors(V)
           ended == Ordered({c \in V : Stopped(c.child)})
           fin   == finished \o ended
           max   == params.max_new_tokens
<1>1. /\ ~IsDone /\ beams # <<>>
      /\ finished' = fin /\ lm' = lm /\ params' = params
      /\ IF GroupEnds(new, fin)
         THEN /\ beams' = <<>>
              /\ result' = Winner(IF fin # <<>> THEN fin ELSE new).token_ids
              /\ finish_reason' = IF fin # <<>> THEN "stop" ELSE "length"
         ELSE /\ beams' = new
              /\ result' = result /\ finish_reason' = finish_reason
  BY DEF BeamStep
<1>2. /\ new \in Seq(Hypotheses) /\ ended \in Seq(Hypotheses)
      /\ Len(new) \in Nat /\ Len(new) <= params.num_beams
      /\ \A h \in Elems(new) : Extends(h, lm, params, Depth) /\ h.token_ids[Depth + 1] \notin BeamStops
      /\ \A h \in Elems(ended) : Extends(h, lm, params, Depth) /\ h.token_ids[Depth + 1] \in BeamStops
      /\ \A i, j \in 1 .. Len(new) : new[i].token_ids = new[j].token_ids => i = j
      /\ new = <<>> => ended # <<>>
  BY <1>1, StepMakes
<1> HIDE DEF V, new, ended, fin
<1>3. BeamTypes /\ finished \in Seq(Hypotheses) /\ finish_reason = ""
  BY <1>1 DEF BeamIInv, BeamTypes, IsDone
<1>4. /\ Depth \in Nat /\ Depth < max /\ max \in Nat \ {0}
      /\ params.num_beams \in Nat \ {0}
  <2>1. 1 \in DOMAIN beams
    <3>1. beams \in Seq(Hypotheses)
      BY <1>3 DEF BeamTypes
    <3> QED
      BY <1>1, <3>1
  <2> QED
    BY <1>3, <2>1, BeamIs, ParamsAre
<1>5. /\ fin \in Seq(Hypotheses) /\ Elems(fin) = Elems(finished) \cup Elems(ended)
      /\ fin = <<>> => ended = <<>>
  <2>1. /\ fin \in Seq(Hypotheses) /\ Elems(fin) = Elems(finished) \cup Elems(ended)
    <3>1. finished \in Seq(Hypotheses) /\ ended \in Seq(Hypotheses)
      BY <1>2, <1>3
    <3> QED
      BY ONLY <3>1, ConcatList DEF fin
  <2>2. fin = <<>> => ended = <<>>
    <3>1. fin = <<>> => Elems(fin) = {}
      BY DEF Elems
    <3>2. Elems(ended) = {} => ended = <<>>
      BY <1>2, ElemsOf
    <3> QED
      BY <2>1, <3>1, <3>2
  <2> QED
    BY <2>1, <2>2
<1>6. \A h \in Elems(fin) : Ended(h, lm, params)
  <2>1. \A h \in Elems(ended) : Ended(h, lm, params)
    BY <1>2, <1>3, <1>4, ExtendsEnds
  <2> QED
    BY <1>5, <2>1, FinishedEnded
<1>7. /\ \A i \in DOMAIN fin : fin[i] \in Elems(fin)
      /\ \A i \in 1 .. Len(new) : new[i] \in Elems(new)
      /\ DOMAIN new = 1 .. Len(new)
  BY <1>2 DEF Elems
<1>8. FinishedStop' /\ FinishedInTime'
  <2>1. ASSUME NEW i \in DOMAIN fin
        PROVE  /\ fin[i].cum_logprob = ScoreIn(lm, fin[i].token_ids)
               /\ \A k \in DOMAIN fin[i].token_ids :
                    fin[i].token_ids[k] \in BeamStops <=> k = Len(fin[i].token_ids)
               /\ Len(fin[i].token_ids) \in 1 .. max
    BY <1>6, <1>7 DEF Ended
  <2>2. \A ids : PathScore(ids)' = ScoreIn(lm, ids)
    BY <1>1, ScoreNext
  <2>3. FinishedStop'
    BY <1>1, <2>1, <2>2 DEF FinishedStop
  <2>4. FinishedInTime'
    BY <1>1, <2>1 DEF FinishedInTime
  <2> QED
    BY <2>3, <2>4
<1>9. \A ids : /\ PathScore(ids)' = ScoreIn(lm, ids)
               /\ GreedyChoices(ids)' <=> GreedyIn(lm, ids)
               /\ Weight(ids)' = Weight(ids)
  BY <1>1, ScoreNext, GreedyNext DEF Weight
<1>10. CASE GroupEnds(new, fin)
  <2> DEFINE pool == IF fin # <<>> THEN fin ELSE new
             w == Winner(pool)
  <2>1. /\ beams' = <<>> /\ result' = w.token_ids
        /\ finish_reason' = IF fin # <<>> THEN "stop" ELSE "length"
    BY <1>1, <1>10
  <2>2. fin = <<>> => new # <<>> /\ Depth + 1 = max
    <3> SUFFICES ASSUME fin = <<>> PROVE new # <<>> /\ Depth + 1 = max
      OBVIOUS
    <3>1. new # <<>>
      BY <1>2, <1>5
    <3>2. ~(Len(fin) >= params.num_beams)
      BY <1>4
    <3>3. 1 \in 1 .. Len(new)
      BY <1>2, <3>1
    <3>4. Len(new[1].token_ids) = Depth + 1
      BY <1>2, <1>7, <3>3 DEF Extends
    <3>5. Len(new[1].token_ids) >= max
      BY <1>10, <3>1, <3>2 DEF GroupEnds
    <3> QED
      BY <1>4, <3>1, <3>4, <3>5
  <2>3. /\ pool \in Seq(Hypotheses) /\ pool # <<>>
        /\ \A h \in Elems(pool) : Len(h.token_ids) \in 1 .. max
    <3>1. \A h \in Elems(fin) : Len(h.token_ids) \in 1 .. max
      BY <1>6 DEF Ended
    <3>2. \A h \in Elems(new) : Len(h.token_ids) \in 1 .. max
      <4>1. \A h \in Elems(new) : Len(h.token_ids) = Depth + 1
        BY <1>2 DEF Extends
      <4> QED
        BY <1>4, <4>1
    <3> QED
      BY <1>2, <1>5, <2>2, <3>1, <3>2
  <2>4. /\ w \in Elems(pool)
        /\ \A c \in Elems(pool) :
             c.cum_logprob * Weight(w.token_ids) <= w.cum_logprob * Weight(c.token_ids)
    <3> HIDE DEF pool
    <3> QED
      BY <1>3, <2>3, WinnerOf
  <2> HIDE DEF w
  <2>5. BeamsGoOn'
    <3>1. IsDone'
      BY <2>1 DEF IsDone
    <3>2. Len(<<>>) = 0 /\ DOMAIN <<>> = {}
      OBVIOUS
    <3> QED
      BY <1>1, <1>4, <2>1, <3>1, <3>2 DEF BeamsGoOn
  <2>6. ASSUME fin # <<>>
        PROVE  ResultIsBest' /\ OneBeamIsGreedy'
    <3>1. finish_reason' = "stop" /\ pool = fin
      BY <2>1, <2>6
    <3>2. Ended(w, lm, params) /\ w \in Elems(fin)
      BY <1>6, <2>4, <3>1
    <3>3. \A c \in Elems(fin) :
             ScoreIn(lm, c.token_ids) * Weight(result') <= ScoreIn(lm, result') * Weight(c.token_ids)
      <4>1. \A c \in Elems(fin) : c.cum_logprob = ScoreIn(lm, c.token_ids)
        BY <1>6 DEF Ended
      <4> QED
        BY <2>1, <2>4, <3>1, <3>2, <4>1
    <3>4. ResultIsBest'
      BY <1>1, <1>9, <2>1, <3>1, <3>2, <3>3 DEF ResultIsBest
    <3>5. OneBeamIsGreedy'
      <4> SUFFICES ASSUME params.num_beams = 1 PROVE GreedyRun(result, params.max_new_tokens)'
        BY <1>1 DEF OneBeamIsGreedy
      <4>1. /\ GreedyIn(lm, result') /\ Len(result') \in 1 .. max
            /\ \A k \in DOMAIN result' : result'[k] \in BeamStops <=> k = Len(result')
            /\ result' \in Seq(BeamTokens)
        BY <2>1, <3>2 DEF Ended, Hypotheses
      <4>2. /\ result' # <<>> /\ Len(result') <= max /\ DOMAIN result' = 1 .. Len(result')
            /\ Len(result') \in DOMAIN result'
        BY <1>4, <4>1
      <4>3. Last(result') \in BeamStops
        BY <4>1, <4>2 DEF Last
      <4>4. GreedyChoices(result)'
        BY <1>1, <4>1, GreedyNext
      <4> QED
        BY <1>1, <4>1, <4>2, <4>3, <4>4 DEF GreedyRun
    <3> QED
      BY <3>4, <3>5
  <2>7. ASSUME fin = <<>>
        PROVE  ResultIsBest' /\ OneBeamIsGreedy'
    <3>1. finish_reason' = "length" /\ pool = new /\ Depth + 1 = max
      BY <2>1, <2>2, <2>7
    <3>2. Extends(w, lm, params, Depth) /\ w.token_ids[Depth + 1] \notin BeamStops
      BY <1>2, <2>4, <3>1
    <3>3. /\ Len(result') = max /\ result' \in Seq(BeamTokens)
          /\ \A k \in 1 .. Depth : result'[k] \notin BeamStops
          /\ result'[max] \notin BeamStops
          /\ params.num_beams = 1 => GreedyIn(lm, result')
      BY <2>1, <3>1, <3>2 DEF Extends, Hypotheses
    <3>4. /\ DOMAIN result' = 1 .. max /\ result' # <<>> /\ Last(result') = result'[max]
          /\ \A k \in 1 .. max : k = max \/ k \in 1 .. Depth
      BY <1>4, <3>1, <3>3 DEF Last
    <3>5. ResultIsBest'
      BY <1>1, <3>1, <3>3, <3>4 DEF ResultIsBest
    <3>6. OneBeamIsGreedy'
      <4> SUFFICES ASSUME params.num_beams = 1 PROVE GreedyRun(result, params.max_new_tokens)'
        BY <1>1 DEF OneBeamIsGreedy
      <4>1. GreedyChoices(result)'
        BY <1>1, <3>3, GreedyNext
      <4>2. \A k \in DOMAIN result' : result'[k] \notin BeamStops
        BY <3>3, <3>4
      <4>3. Len(result') <= max
        BY <1>4, <3>3
      <4> QED
        BY <1>1, <3>3, <3>4, <4>1, <4>2, <4>3 DEF GreedyRun
    <3> QED
      BY <3>5, <3>6
  <2>8. GreedyAlone'
    <3>1. \A h \in Elems(fin) : params.num_beams = 1 => GreedyIn(lm, h.token_ids)
      BY <1>6 DEF Ended
    <3>2. Elems(<<>>) = {}
      BY DEF Elems
    <3> QED
      BY <1>1, <2>1, <3>1, <3>2 DEF GreedyAlone
  <2>9. BeamTypes'
    <3>1. <<>> \in Seq(Hypotheses) /\ finish_reason' \in {"", "stop", "length"}
      BY <2>1
    <3> QED
      BY <1>1, <1>3, <1>5, <2>1, <3>1 DEF BeamTypes
  <2> QED
    BY <1>8, <2>5, <2>6, <2>7, <2>8, <2>9 DEF BeamIInv, HypothesesExact
<1>11. CASE ~GroupEnds(new, fin)
  <2>1. beams' = new /\ result' = result /\ finish_reason' = "" /\ ~IsDone'
    BY <1>1, <1>3, <1>11 DEF IsDone
  <2>2. new # <<>> /\ ~(Len(new[1].token_ids) >= max) /\ 1 \in 1 .. Len(new)
    BY <1>2, <1>11 DEF GroupEnds
  <2>3. ASSUME NEW i \in 1 .. Len(new)
        PROVE  /\ new[i].cum_logprob = ScoreIn(lm, new[i].token_ids)
               /\ Len(new[i].token_ids) = Depth + 1
               /\ \A t \in Elems(new[i].token_ids) : t \notin BeamStops
               /\ params.num_beams = 1 => GreedyIn(lm, new[i].token_ids)
    <3> DEFINE ids == new[i].token_ids
    <3>1. /\ new[i] \in Hypotheses /\ Len(ids) = Depth + 1
          /\ new[i].cum_logprob = ScoreIn(lm, ids)
          /\ \A k \in 1 .. Depth : ids[k] \notin BeamStops
          /\ ids[Depth + 1] \notin BeamStops
          /\ params.num_beams = 1 => GreedyIn(lm, ids)
      BY <1>2, <1>7 DEF Extends
    <3>2. DOMAIN ids = 1 .. Depth + 1
      BY <3>1 DEF Hypotheses
    <3>3. \A k \in 1 .. Depth + 1 : k = Depth + 1 \/ k \in 1 .. Depth
      BY <1>4
    <3>4. \A t \in Elems(ids) : t \notin BeamStops
      BY <3>1, <3>2, <3>3 DEF Elems
    <3> QED
      BY <3>1, <3>4
  <2>4. Len(new[1].token_ids) < max
    BY <1>4, <2>2, <2>3
  <2>5. BeamsGoOn'
    BY <1>1, <1>2, <1>7, <1>9, <2>1, <2>2, <2>3, <2>4 DEF BeamsGoOn
  <2>6. ResultIsBest' /\ OneBeamIsGreedy'
    BY <2>1 DEF ResultIsBest, OneBeamIsGreedy
  <2>7. GreedyAlone'
    <3>1. \A h \in Elems(fin) : params.num_beams = 1 => GreedyIn(lm, h.token_ids)
      BY <1>6 DEF Ended
    <3>2. \A h \in Elems(new) : params.num_beams = 1 => GreedyIn(lm, h.token_ids)
      BY <1>2 DEF Extends
    <3> QED
      BY <1>1, <2>1, <3>1, <3>2 DEF GreedyAlone
  <2>8. BeamTypes'
    BY <1>1, <1>2, <1>3, <1>5, <2>1 DEF BeamTypes
  <2> QED
    BY <1>8, <2>5, <2>6, <2>7, <2>8 DEF BeamIInv, HypothesesExact
<1> QED
  BY <1>10, <1>11

\* What is lost: a child outside the top tokens of its parent is beaten by all
\* of them, and they fill the slots unless one of them stops.
LEMMA LostToTheSlots == BeamIInv => PrunedOnlyByStops
<1> SUFFICES ASSUME BeamIInv, NEW i \in DOMAIN beams, NEW t \in BeamTokens \ BeamStops
             PROVE  LET new == Survivors(Visited(Candidates))
                        hyp == Child(beams[i], t) IN
                    \/ hyp \in Elems(new)
                    \/ Len(new) = params.num_beams /\ \A b \in Elems(new) : b.cum_logprob >= hyp.cum_logprob
                    \/ \E u \in BeamStops : Rank(LogProbs(beams[i].token_ids), u) < params.num_beams
  BY DEF PrunedOnlyByStops
<1> DEFINE V   == Visited(Candidates)
           W   == {c \in V : ~Stopped(c.child)}
           new == Survivors(V)
           hyp == Child(beams[i], t)
           row == LogProbs(beams[i].token_ids)
           Top == TopTokens(row)
           n   == params.num_beams
           Cand(u) == [parent |-> i, child |-> Child(beams[i], u)]
           Filled(h) == Len(new) = n /\ \A b \in Elems(new) : b.cum_logprob >= h.cum_logprob
<1>1. /\ Sortable(Candidates)
      /\ \A u \in Top : Cand(u) \in Candidates
      /\ n \in BeamTokens /\ n \in Nat \ {0}
  BY CandidatesAre, ParamsAre DEF BeamIInv
<1>2. /\ V \subseteq Candidates /\ IsFiniteSet(W) /\ Cardinality(W) <= n
      /\ \A c \in Candidates \ V : ~Stopped(c.child) =>
           Cardinality(W) = n /\ \A d \in W : Ahead(d, c)
  BY <1>1, VisitedAre
<1>3. row \in LogProbRows /\ beams[i].cum_logprob \in Int
  BY BeamIs DEF Hypotheses
<1>4. /\ Top \subseteq BeamTokens /\ IsFiniteSet(Top) /\ Cardinality(Top) = n
      /\ \A u \in Top, s \in BeamTokens \ Top : row[u] > row[s]
  <2> HIDE DEF row
  <2> QED
    BY <1>1, <1>3, TopTokensAre
<1>5. \A u \in BeamTokens : row[u] \in Int
  BY <1>3, BeamAssumption
<1>6. \A u \in BeamTokens : /\ Child(beams[i], u).cum_logprob = beams[i].cum_logprob + row[u]
                            /\ Stopped(Child(beams[i], u)) <=> u \in BeamStops
                            /\ Child(beams[i], u).token_ids[Depth + 1] = u
  BY ChildIs
<1>7. \A u : Cand(u).child = Child(beams[i], u)
  OBVIOUS
<1> HIDE DEF V
<1>8. Sortable(W)
  BY <1>1, <1>2, SortableSubset
<1>9. new = Ordered(W)
  BY DEF Survivors
<1> HIDE DEF new, W
<1>10. Len(new) = Cardinality(W) /\ Elems(new) = {c.child : c \in W}
  BY <1>8, <1>9, OrderedIs
<1>11. \A c \in W : c.child.cum_logprob \in Int
  BY <1>8 DEF Sortable, Hypotheses
<1> HIDE DEF row, Cand
<1>12. ASSUME NEW u \in Top, u \notin BeamStops, Cand(u) \notin V
       PROVE  Filled(Child(beams[i], u))
  <2>1. Cand(u) \in Candidates \ V /\ ~Stopped(Cand(u).child)
    BY <1>1, <1>4, <1>6, <1>7, <1>12
  <2>2. Cardinality(W) = n /\ \A d \in W : Ahead(d, Cand(u))
    BY <1>2, <2>1
  <2>3. \A d \in W : d.child.cum_logprob >= Child(beams[i], u).cum_logprob
    <3> SUFFICES ASSUME NEW d \in W
                 PROVE  d.child.cum_logprob >= Child(beams[i], u).cum_logprob
      OBVIOUS
    <3>1. \/ d.child.cum_logprob > Child(beams[i], u).cum_logprob
          \/ d.child.cum_logprob = Child(beams[i], u).cum_logprob
      BY <1>7, <2>2 DEF Ahead
    <3>2. Child(beams[i], u).cum_logprob \in Int
      <4>1. /\ Child(beams[i], u).cum_logprob = beams[i].cum_logprob + row[u]
            /\ beams[i].cum_logprob \in Int /\ row[u] \in Int
        BY <1>3, <1>4, <1>5, <1>6
      <4> QED
        BY <4>1
    <3>3. d.child.cum_logprob \in Int
      BY <1>11
    <3> QED
      BY ONLY <3>1, <3>2, <3>3
  <2> QED
    BY <1>10, <2>2, <2>3
<1>13. CASE t \in Top /\ Cand(t) \in V
  <2>1. Cand(t) \in W
    BY <1>6, <1>7, <1>13 DEF W
  <2>2. hyp \in Elems(new)
    BY <1>7, <1>10, <2>1
  <2> QED
    BY <2>2 DEF new, V
<1>14. CASE t \in Top /\ Cand(t) \notin V
  <2>1. Filled(hyp)
    BY <1>12, <1>14
  <2> QED
    BY <2>1 DEF new, V
<1>15. CASE t \notin Top /\ \A u \in Top : u \notin BeamStops
  <2>1. \A u \in Top : /\ Child(beams[i], u).cum_logprob > hyp.cum_logprob
                       /\ Child(beams[i], u).cum_logprob \in Int /\ hyp.cum_logprob \in Int
    <3> SUFFICES ASSUME NEW u \in Top
                 PROVE  /\ Child(beams[i], u).cum_logprob > hyp.cum_logprob
                        /\ Child(beams[i], u).cum_logprob \in Int /\ hyp.cum_logprob \in Int
      OBVIOUS
    <3>1. /\ row[u] > row[t] /\ row[u] \in Int /\ row[t] \in Int
          /\ Child(beams[i], u).cum_logprob = beams[i].cum_logprob + row[u]
          /\ hyp.cum_logprob = beams[i].cum_logprob + row[t]
      BY <1>4, <1>5, <1>6, <1>15
    <3> QED
      BY <1>3, <3>1
  <2>2. CASE \E u \in Top : Cand(u) \notin V
    <3>1. PICK u \in Top : Cand(u) \notin V
      BY <2>2
    <3>2. Filled(Child(beams[i], u))
      BY <1>12, <1>15, <3>1
    <3>3. \A b \in Elems(new) : b.cum_logprob \in Int
      BY <1>10, <1>11
    <3>4. Filled(hyp)
      BY <2>1, <3>2, <3>3
    <3> QED
      BY <3>4 DEF new, V
  <2>3. CASE \A u \in Top : Cand(u) \in V
    <3> DEFINE C == {Cand(u) : u \in Top}
               f == [u \in Top |-> Cand(u)]
    <3>1. C \in SUBSET W
      BY <1>4, <1>6, <1>7, <1>15, <2>3 DEF W
    <3>2. f \in Injection(Top, C)
      <4>1. \A u, s \in Top : Cand(u) = Cand(s) => u = s
        <5> SUFFICES ASSUME NEW u \in Top, NEW s \in Top, Cand(u) = Cand(s) PROVE u = s
          OBVIOUS
        <5>1. Child(beams[i], u) = Child(beams[i], s)
          BY <1>7
        <5> QED
          BY <1>4, <1>6, <5>1
      <4> QED
        BY <4>1 DEF Injection, IsInjective
    <3> HIDE DEF f, C
    <3>3. IsFiniteSet(C) /\ Cardinality(C) <= Cardinality(W) /\ Cardinality(C) \in Nat
          /\ Cardinality(W) \in Nat
      BY <1>2, <3>1, FS_Subset, FS_CardinalityType
    <3>4. Cardinality(Top) <= Cardinality(C)
      BY <3>2, <3>3, FS_Injection
    <3>5. Cardinality(W) = n /\ Cardinality(C) = n
      BY <1>1, <1>2, <1>4, <3>3, <3>4
    <3>6. C = W
      BY <1>2, <3>1, <3>5, FS_Subset
    <3>7. \A b \in Elems(new) : \E u \in Top : b = Child(beams[i], u)
      BY <1>7, <1>10, <3>6 DEF C
    <3>8. \A b \in Elems(new) : b.cum_logprob >= hyp.cum_logprob
      BY <2>1, <3>7
    <3>9. Filled(hyp)
      BY <1>10, <3>5, <3>8
    <3> QED
      BY <3>9 DEF new, V
  <2> QED
    BY <2>2, <2>3
<1>16. CASE t \notin Top /\ \E u \in Top : u \in BeamStops
  <2>1. PICK u \in Top : u \in BeamStops
    BY <1>16
  <2>2. Rank(row, u) < n
    BY <2>1 DEF TopTokens
  <2> QED
    BY <2>1, <2>2 DEF row
<1> QED
  BY <1>13, <1>14, <1>15, <1>16

LEMMA BeamStarts == BeamInit => BeamIInv
<1> SUFFICES ASSUME BeamInit PROVE BeamIInv
  OBVIOUS
<1> DEFINE h == [token_ids |-> <<>>, cum_logprob |-> 0]
<1>1. /\ lm \in [{0} \cup (BeamTokens \ BeamStops) -> LogProbRows] /\ params \in BeamParams
      /\ beams = <<h>> /\ finished = <<>> /\ result = <<>> /\ finish_reason = ""
  BY DEF BeamInit
<1>2. <<>> \in Seq(BeamTokens) /\ Len(<<>>) = 0 /\ DOMAIN <<>> = {}
  OBVIOUS
<1>3. h \in Hypotheses /\ h.token_ids = <<>> /\ h.cum_logprob = 0
  BY <1>2 DEF Hypotheses
<1> HIDE DEF h
<1>4. /\ beams \in Seq(Hypotheses) /\ Len(beams) = 1 /\ DOMAIN beams = {1} /\ beams[1] = h
      /\ beams # <<>> /\ finished \in Seq(Hypotheses)
  <2>1. /\ <<h>> \in Seq(Hypotheses) /\ Len(<<h>>) = 1 /\ DOMAIN <<h>> = 1 .. 1
        /\ <<h>>[1] = h /\ <<h>> # <<>> /\ <<>> \in Seq(Hypotheses)
    BY <1>3
  <2>2. 1 .. 1 = {1}
    OBVIOUS
  <2> QED
    BY <1>1, <2>1, <2>2
<1>5. BeamTypes /\ ~IsDone
  BY <1>1, <1>4 DEF BeamTypes, IsDone
<1>6. params.num_beams \in Nat \ {0} /\ params.max_new_tokens \in Nat \ {0}
  BY <1>5, ParamsAre
<1>7. Elems(<<>>) = {}
  BY DEF Elems
<1>8. BeamsGoOn
  <2>1. PathScore(<<>>) = 0
    BY ScoreNow, ScoreOfNothing
  <2> QED
    BY <1>2, <1>3, <1>4, <1>6, <1>7, <2>1 DEF BeamsGoOn
<1>9. FinishedStop /\ FinishedInTime
  BY <1>1, <1>2 DEF FinishedStop, FinishedInTime
<1>10. ResultIsBest /\ OneBeamIsGreedy
  BY <1>1, <1>5 DEF ResultIsBest, OneBeamIsGreedy
<1>11. GreedyAlone
  <2>1. Elems(beams) \cup Elems(finished) = {h}
    BY <1>1, <1>4, <1>7 DEF Elems
  <2>2. GreedyIn(lm, <<>>)
    BY <1>2 DEF GreedyIn
  <2> QED
    BY <1>3, <2>1, <2>2 DEF GreedyAlone
<1> QED
  BY <1>5, <1>8, <1>9, <1>10, <1>11 DEF BeamIInv, HypothesesExact

LEMMA BeamNextKeeps == BeamIInv /\ [BeamStep]_beamVars => BeamIInv'
<1> SUFFICES ASSUME BeamIInv, UNCHANGED beamVars PROVE BeamIInv'
  BY BeamStepKeeps
<1>1. /\ lm' = lm /\ params' = params /\ beams' = beams /\ finished' = finished
      /\ result' = result /\ finish_reason' = finish_reason
  BY DEF beamVars
<1>2. /\ IsDone' <=> IsDone
      /\ \A ids : PathScore(ids)' = PathScore(ids) /\ Weight(ids)' = Weight(ids)
      /\ \A path : GreedyChoices(path)' <=> GreedyChoices(path)
  BY <1>1, ScoreNow, ScoreNext, GreedyNow, GreedyNext DEF IsDone, Weight
<1>3. BeamTypes' /\ FinishedInTime' /\ GreedyAlone'
  BY <1>1, <1>2 DEF BeamIInv, BeamTypes, FinishedInTime, GreedyAlone
<1>4. BeamsGoOn' /\ FinishedStop' /\ ResultIsBest'
  BY <1>1, <1>2 DEF BeamIInv, HypothesesExact, BeamsGoOn, FinishedStop, ResultIsBest
<1>5. OneBeamIsGreedy'
  BY <1>1, <1>2 DEF BeamIInv, OneBeamIsGreedy, GreedyRun
<1> QED
  BY <1>3, <1>4, <1>5 DEF BeamIInv, HypothesesExact

\* The hypotheses are what the model says of them, and the best finished one
\* is returned.
THEOREM HypothesesAreExact == BeamSpec => []HypothesesExact
<1>1. BeamIInv => HypothesesExact
  BY DEF BeamIInv
<1> QED
  BY <1>1, BeamStarts, BeamNextKeeps, PTL DEF BeamSpec

\* Scoring the top num_beams tokens of each beam loses nothing but what stop
\* tokens among them take the place of.
THEOREM PruningLosesStopsOnly == BeamSpec => []PrunedOnlyByStops
BY BeamStarts, BeamNextKeeps, LostToTheSlots, PTL DEF BeamSpec

\* With one beam the result is the greedy one.
THEOREM OneBeamDecodesGreedily == BeamSpec => []OneBeamIsGreedy
<1>1. BeamIInv => OneBeamIsGreedy
  BY DEF BeamIInv
<1> QED
  BY <1>1, BeamStarts, BeamNextKeeps, PTL DEF BeamSpec

=============================================================================
