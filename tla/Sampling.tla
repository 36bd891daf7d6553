------------------------------ MODULE Sampling ------------------------------
(***************************************************************************)
(* The next token of one row: wllm/engine/sampling.py.  Logits are         *)
(* integers, a token of logit l has the weight Exp(l) in the softmax,      *)
(* probabilities are tenths of the total weight.  The temperature is 0     *)
(* (greedy) or 1.  Which of the possible tokens multinomial draws, and how *)
(* sort and argmax break ties, is open.                                    *)
(***************************************************************************)
EXTENDS Integers, Sequences, FiniteSets, Functions, FiniteSetsExt

CONSTANTS
    Tokens,
    Exp(_)              \* the exponential, in a unit that makes it whole

\* SamplingParams: [temperature, top_k, top_p, min_p, repetition_penalty].

\* apply_repetition_penalty, for the tokens of ids.
Penalized(row, ids, penalty) ==
    [t \in Tokens |->
        IF t \notin ids THEN row[t]
        ELSE IF row[t] > 0 THEN row[t] \div penalty
        ELSE row[t] * penalty]

\* The weights of the tokens: apply_token_mask, the penalty, the softmax.
Weights(row, mask, ids, penalty) ==
    LET logits == Penalized(row, ids, penalty) IN
    [t \in Tokens |-> IF t \in mask THEN Exp(logits[t]) ELSE 0]

Total(w) == SumFunctionOnSet(w, Tokens)

\* The tokens by descending weight, in each of the ways the sort may choose.
Rankings == {o \in [1 .. Cardinality(Tokens) -> Tokens] : IsInjective(o)}

Sorted(w) == {o \in Rankings : \A k \in DOMAIN o \ {1} : w[o[k - 1]] >= w[o[k]]}

\* cumprobs, as a weight: that of the first k tokens.
Cumulated(w, o, k) == SumFunctionOnSet(w, {o[i] : i \in 1 .. k})

InTopK(k, p) == p.top_k = 0 \/ k <= p.top_k

InMinP(w, o, k, p) == k = 1 \/ 10 * w[o[k]] >= p.min_p * w[o[1]]

\* Mutant: the top token may be dropped as well.
InTopPStrict(w, o, k, p) == p.top_p = 10 \/ 10 * Cumulated(w, o, k) <= p.top_p * Total(w)

\* ~over_p: the token that crosses top_p is over it.
InTopP(w, o, k, p) ==
    \/ p.top_p = 10 \/ k = 1
    \/ 10 * Cumulated(w, o, k) <= p.top_p * Total(w)

\* _filter_top_k_top_p_min_p: the ranks that are kept.
Kept(w, o, p) == {k \in DOMAIN o : InTopK(k, p) /\ InTopP(w, o, k, p) /\ InMinP(w, o, k, p)}

Best(w) == {t \in Tokens : \A u \in Tokens : w[t] >= w[u]}

\* sample(): the tokens it may return.
Sampled(w, p) ==
    IF p.temperature = 0 THEN Best(w)
    ELSE {t \in Tokens : w[t] > 0 /\ \E o \in Sorted(w) : \E k \in Kept(w, o, p) : o[k] = t}

\* The log-probability it returns with t: before truncation.
Logprob(w, t) == <<w[t], Total(w)>>

-----------------------------------------------------------------------------
(* What the comments promise *)

\* "nucleus: smallest prefix whose cumulative prob >= p" (sampling.py:78).
Nucleus(w, o, p) ==
    {k \in DOMAIN o : p.top_p = 10 \/ k = 1 \/ 10 * Cumulated(w, o, k - 1) < p.top_p * Total(w)}

Documented(w, o, p) == {k \in Nucleus(w, o, p) : InTopK(k, p) /\ InMinP(w, o, k, p)}

=============================================================================
