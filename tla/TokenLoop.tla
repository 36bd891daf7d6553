------------------------------ MODULE TokenLoop ------------------------------
(***************************************************************************)
(* The tokens of one sequence: sampling.py and guided_decoding.py as the   *)
(* scheduler calls them for a prefill, a decode and a draft                *)
(* (speculative.py), and Sequence.append_token.  The model is a Markov     *)
(* chain chosen in the initial state.  Scheduler.tla has when each of      *)
(* these calls happens, KVCache.tla what they do to the cache.             *)
(***************************************************************************)
EXTENDS Sampling, SequencesExt

CONSTANTS
    Stop,               \* eos_token_id
    Prompts, Chains, ParamChoices,
    MaxNewTokens,
    NgramSize, MaxDraftLen,
    Guided,             \* the transitions of a schema's automaton, <<state, token>> -> state
    GuideEnd,           \* its final state
    MaxPreemptions      \* bound

ASSUME TokenLoopAssumption ==
    /\ {MaxNewTokens, NgramSize, MaxDraftLen} \subseteq Nat \ {0}
    /\ IsFiniteSet(Tokens)
    /\ \A p \in ParamChoices :
         p.repetition_penalty \in Nat \ {0} /\ p.top_k \in Nat /\ p.top_p \in 0 .. 10
    /\ \A q \in Prompts : q \in Seq(Tokens) /\ q # <<>>
    /\ \A c \in Chains, t \in Tokens : c[t] \in [Tokens -> Int]
    /\ \A c \in Chains, p \in ParamChoices : \A t, u \in Tokens, ids \in SUBSET Tokens :
         Exp(Penalized(c[t], ids, p.repetition_penalty)[u]) \in Nat \ {0}

\* The index a schema is compiled to starts with some token, and has one more
\* after each until it ends.
ASSUME GuideAssumption ==
    /\ \E t \in Tokens : <<0, t>> \in DOMAIN Guided
    /\ \A e \in DOMAIN Guided :
         Guided[e] = GuideEnd \/ \E t \in Tokens : <<Guided[e], t>> \in DOMAIN Guided

VARIABLES
    chain,              \* last token -> logits
    prompt_token_ids, sampling_params, has_guide,
    output_token_ids, logprobs, guide, seq_status,
    preempted           \* bounded ghost: recomputations so far

tokenVars == <<chain, prompt_token_ids, sampling_params, has_guide, output_token_ids, logprobs, guide, seq_status, preempted>>

History == prompt_token_ids \o output_token_ids

\* The transitions of an unguided sequence are of no interest: state 0.
GuideAfter(g, t) == IF has_guide THEN Guided[g, t] ELSE g

\* allowed_token_mask
Mask(g) == IF has_guide THEN {t \in Tokens : <<g, t>> \in DOMAIN Guided} ELSE Tokens

TokenInit ==
    /\ chain \in Chains
    /\ prompt_token_ids \in Prompts /\ sampling_params \in ParamChoices
    /\ has_guide \in BOOLEAN
    /\ output_token_ids = <<>> /\ logprobs = <<>>
    /\ guide = 0
    /\ seq_status = "waiting"
    /\ preempted = 0

-----------------------------------------------------------------------------

Finishes(outs, g) == Last(outs) = Stop \/ (has_guide /\ g = GuideEnd) \/ Len(outs) >= MaxNewTokens

\* append_token
AppendToken(t, logprob) ==
    LET outs == Append(output_token_ids, t) IN
    /\ output_token_ids' = outs
    /\ logprobs' = Append(logprobs, logprob)
    /\ guide' = GuideAfter(guide, t)
    /\ seq_status' = IF Finishes(outs, guide') THEN "finished" ELSE "running"

RowWeights(history, outs, g) ==
    Weights(chain[Last(history)], Mask(g), Range(outs), sampling_params.repetition_penalty)

\* The first token comes from the logits of the prefill, the others from those
\* of a decode of the last token.
Generate ==
    /\ seq_status \in {"waiting", "running"}
    /\ LET w == RowWeights(History, output_token_ids, guide) IN
       \E t \in Sampled(w, sampling_params) : AppendToken(t, Logprob(w, t))
    /\ UNCHANGED <<chain, prompt_token_ids, sampling_params, has_guide, preempted>>

\* propose_ngram_draft: what followed the latest earlier occurrence of the last
\* NgramSize tokens that does not overlap them.
Draft(history) ==
    LET before == Len(history) - NgramSize
        query  == SubSeq(history, before + 1, Len(history))
        starts == {i \in 1 .. before - NgramSize + 1 : SubSeq(history, i, i + NgramSize - 1) = query} IN
    IF starts = {} THEN <<>>
    ELSE LET next == Max(starts) + NgramSize IN
         SubSeq(history, next, IF next + MaxDraftLen - 1 < Len(history) THEN next + MaxDraftLen - 1 ELSE Len(history))

\* Mutant: the extra token is the prediction after the last draft token.
AcceptedAtEnd(draft, predicted) ==
    LET matched == {m \in 0 .. Len(draft) : \A j \in 1 .. m : predicted[j] = draft[j]} IN
    Append(SubSeq(draft, 1, Max(matched)), predicted[Len(draft) + 1])

\* The drafted tokens up to the first that is not predicted, then the
\* prediction that comes next.
Accepted(draft, predicted) ==
    LET matched == {m \in 0 .. Len(draft) : \A j \in 1 .. m : predicted[j] = draft[j]} IN
    Append(SubSeq(draft, 1, Max(matched)), predicted[Max(matched) + 1])

\* Those that are appended: the loop breaks where the sequence finishes.
UntilFinished(tokens) ==
    LET ends == {j \in DOMAIN tokens : Finishes(output_token_ids \o SubSeq(tokens, 1, j), guide)} IN
    SubSeq(tokens, 1, IF ends = {} THEN Len(tokens) ELSE Min(ends))

\* Mutant: each log-probability is that of the row after the token's own.
RowLogprobLate(rows, j, t) == Logprob(rows[IF j < Len(rows) THEN j + 1 ELSE j], t)

RowLogprob(rows, j, t) == Logprob(rows[j], t)

\* _maybe_propose_draft and _speculative_decode_one; preemption is Preempt.
Speculate ==
    LET draft == Draft(History)
        chunk == <<Last(History)>> \o draft
        rows  == [j \in DOMAIN chunk |-> Weights(chain[chunk[j]], Tokens, {}, 1)] IN
    /\ seq_status = "running"
    /\ sampling_params.temperature = 0 /\ sampling_params.repetition_penalty = 1 /\ ~has_guide
    /\ draft # <<>>
    /\ \E predicted \in {f \in [DOMAIN chunk -> Tokens] : \A j \in DOMAIN chunk : f[j] \in Best(rows[j])} :
         LET kept == UntilFinished(Accepted(draft, predicted))
             outs == output_token_ids \o kept IN
         /\ output_token_ids' = outs
         /\ logprobs' = logprobs \o [j \in DOMAIN kept |-> RowLogprob(rows, j, kept[j])]
         /\ seq_status' = IF Finishes(outs, guide) THEN "finished" ELSE "running"
    /\ UNCHANGED <<chain, prompt_token_ids, sampling_params, has_guide, guide, preempted>>

\* _preempt by recomputation: the output restarts, the log-probabilities and
\* the guide do not.
Preempt ==
    /\ seq_status = "running" /\ preempted < MaxPreemptions
    /\ output_token_ids' = <<>>
    /\ seq_status' = "waiting"
    /\ preempted' = preempted + 1
    /\ UNCHANGED <<chain, prompt_token_ids, sampling_params, has_guide, logprobs, guide>>

TokenNext == Generate \/ Speculate \/ Preempt

TokenSpec == TokenInit /\ [][TokenNext]_tokenVars

-----------------------------------------------------------------------------
(* Properties *)

OutputBefore(i) == SubSeq(output_token_ids, 1, i - 1)

\* The guide's state when only the tokens of outs have been shown to it.
GuideOf(outs) ==
    LET g[i \in 0 .. Len(outs)] == IF i = 0 THEN 0 ELSE Guided[g[i - 1], outs[i]]
    IN  g[Len(outs)]

WeightsAt(i) ==
    RowWeights(prompt_token_ids \o OutputBefore(i), OutputBefore(i), IF has_guide THEN GuideOf(OutputBefore(i)) ELSE 0)

\* A sequence is started over with its guide in the middle of the schema.
GuideAstray == has_guide /\ preempted > 0

\* Every token of the output is one that plain sampling may give after the
\* tokens before it, however many were drafted ("lossless",
\* test_speculative_decoding.py:51-53), and the output ends at its first stop
\* token or at max_new_tokens.
OutputAsSampled ==
    ~GuideAstray =>
        /\ \A i \in DOMAIN output_token_ids : output_token_ids[i] \in Sampled(WeightsAt(i), sampling_params)
        /\ \A i \in DOMAIN output_token_ids :
             i < Len(output_token_ids) => output_token_ids[i] # Stop
        /\ Len(output_token_ids) <= MaxNewTokens

\* What is kept for sampling is what the comments say, at most short of the
\* token that crosses top_p, and is never nothing: the most probable token is
\* kept, and has a probability.
SampledAsDocumented ==
    seq_status # "finished" /\ sampling_params.temperature # 0 =>
        LET w == RowWeights(History, output_token_ids, guide)
            p == sampling_params IN
        \A o \in Sorted(w) :
            /\ Kept(w, o, p) \subseteq Documented(w, o, p)
            /\ Documented(w, o, p) \ Kept(w, o, p) \subseteq {Max(Nucleus(w, o, p))}
            /\ 1 \in Kept(w, o, p) /\ w[o[1]] > 0

\* The log-probabilities end with those of the output, each of the token in its
\* own place, drafted or not; there are no others unless the sequence was
\* started over, which keeps those of the lost tokens.
LogprobsEndWithOutput ==
    LET lost == Len(logprobs) - Len(output_token_ids) IN
    /\ lost >= 0 /\ (preempted = 0 => lost = 0)
    /\ ~GuideAstray =>
         \A i \in DOMAIN output_token_ids : logprobs[lost + i] = Logprob(WeightsAt(i), output_token_ids[i])

=============================================================================
