----------------------------- MODULE BeamSearch -----------------------------
(***************************************************************************)
(* One beam group of wllm/engine/beam_search.py: which candidates survive  *)
(* a step, which hypotheses are finished, when the group ends and with     *)
(* what.  The model is a Markov chain chosen in the initial state, its     *)
(* log-probabilities are integers (tenths of a nat).  Token ids are those  *)
(* after the prompt.  Scheduler.tla has the blocks a step takes.           *)
(***************************************************************************)
EXTENDS Integers, Sequences, FiniteSets, SequencesExt, Lists

CONSTANTS
    BeamVocab,          \* size of the vocabulary
    BeamStops,          \* eos_token_id and stop_token_ids
    LogProbRows,        \* the distributions the model may have after a token
    BeamParams,         \* [num_beams, length_penalty, max_new_tokens] of the requests
    LengthPower(_, _)   \* length ** length_penalty, in a unit that makes it whole

BeamTokens == 1 .. BeamVocab

ASSUME BeamAssumption ==
    /\ BeamVocab \in Nat /\ BeamStops \subseteq BeamTokens
    /\ \A row \in LogProbRows : row \in [BeamTokens -> Int] /\ IsInjective(row)
    /\ \A p \in BeamParams :
         /\ p.num_beams \in BeamTokens
         /\ p.max_new_tokens \in Nat \ {0}
         /\ \A n \in 1 .. p.max_new_tokens : LengthPower(n, p.length_penalty) \in Nat \ {0}

VARIABLES
    lm,                         \* last token (0 after the prompt) -> log-probabilities
    params,                     \* BeamSearchParams and max_new_tokens
    beams, finished,            \* hypotheses [token_ids, cum_logprob]
    result, finish_reason       \* <<>> and "" until the group is done

beamVars == <<lm, params, beams, finished, result, finish_reason>>

IsDone == finish_reason # ""

LogProbs(token_ids) == lm[IF token_ids = <<>> THEN 0 ELSE Last(token_ids)]

BeamInit ==
    /\ lm \in [{0} \cup (BeamTokens \ BeamStops) -> LogProbRows]
    /\ params \in BeamParams
    /\ beams = <<[token_ids |-> <<>>, cum_logprob |-> 0]>>
    /\ finished = <<>>
    /\ result = <<>> /\ finish_reason = ""

-----------------------------------------------------------------------------
(* step() *)

Rank(row, t) == Cardinality({s \in BeamTokens : row[s] > row[t]})

\* Mutant: one candidate less per beam than there are slots.
TopTokensShort(row) == {t \in BeamTokens : Rank(row, t) < params.num_beams - 1 \/ Rank(row, t) = 0}

\* The num_beams most probable next tokens of a beam.
TopTokens(row) == {t \in BeamTokens : Rank(row, t) < params.num_beams}

Child(beam, t) ==
    [token_ids   |-> Append(beam.token_ids, t),
     cum_logprob |-> beam.cum_logprob + LogProbs(beam.token_ids)[t]]

Candidates ==
    UNION {{[parent |-> i, child |-> Child(beams[i], t)] : t \in TopTokens(LogProbs(beams[i].token_ids))}
             : i \in DOMAIN beams}

\* The sort by descending score is stable.
Ahead(c, d) ==
    \/ c.child.cum_logprob > d.child.cum_logprob
    \/ c.child.cum_logprob = d.child.cum_logprob /\ c.parent < d.parent

Ordered(cs) ==
    [k \in 1 .. Cardinality(cs) |->
        (CHOOSE c \in cs : Cardinality({d \in cs : Ahead(d, c)}) = k - 1).child]

Stopped(beam) == Last(beam.token_ids) \in BeamStops

\* The loop over the sorted candidates ends when num_beams of them are to go
\* on; the stop tokens met on the way fill no slot.
Visited(cs) ==
    {c \in cs : Cardinality({d \in cs : ~Stopped(d.child) /\ Ahead(d, c)}) < params.num_beams}

Survivors(visited) == Ordered({c \in visited : ~Stopped(c.child)})

\* Mutant: a longer hypothesis is not better for its length.
BetterUnnormalised(b, c) == b.cum_logprob > c.cum_logprob

Weight(token_ids) == LengthPower(Len(token_ids), params.length_penalty)

\* _score(b) > _score(c): cum_logprob over length ** length_penalty.
Better(b, c) ==
    b.cum_logprob * Weight(c.token_ids) > c.cum_logprob * Weight(b.token_ids)

Unbeaten(pool) == {i \in DOMAIN pool : \A j \in DOMAIN pool : ~Better(pool[j], pool[i])}

\* The first of the best, as max() finds it.
Winner(pool) == pool[Min(Unbeaten(pool))]

\* Mutant: one token more than max_new_tokens.
GroupEndsLate(new, fin) ==
    \/ new = <<>>
    \/ Len(fin) >= params.num_beams
    \/ Len(new[1].token_ids) > params.max_new_tokens

GroupEnds(new, fin) ==
    \/ new = <<>>
    \/ Len(fin) >= params.num_beams
    \/ Len(new[1].token_ids) >= params.max_new_tokens

BeamStep ==
    /\ ~IsDone /\ beams # <<>>
    /\ LET visited == Visited(Candidates)
           new     == Survivors(visited)
           fin     == finished \o Ordered({c \in visited : Stopped(c.child)}) IN
       /\ finished' = fin
       /\ IF GroupEnds(new, fin)
          THEN /\ beams' = <<>>
               /\ result' = Winner(IF fin # <<>> THEN fin ELSE new).token_ids
               /\ finish_reason' = IF fin # <<>> THEN "stop" ELSE "length"
          ELSE /\ beams' = new
               /\ UNCHANGED <<result, finish_reason>>
    /\ UNCHANGED <<lm, params>>

BeamSpec == BeamInit /\ [][BeamStep]_beamVars

-----------------------------------------------------------------------------
(* Properties *)

PathScore(token_ids) ==
    LET f[i \in 0 .. Len(token_ids)] ==
            IF i = 0 THEN 0 ELSE f[i - 1] + LogProbs(SubSeq(token_ids, 1, i - 1))[token_ids[i]]
    IN  f[Len(token_ids)]

\* The beams of a group that is not done: there are some, with tokens left to
\* go, all of one length.
BeamsGoOn ==
    /\ Len(beams) <= params.num_beams
    /\ ~IsDone => beams # <<>> /\ Len(beams[1].token_ids) < params.max_new_tokens
    /\ \A i \in DOMAIN beams :
         /\ beams[i].cum_logprob = PathScore(beams[i].token_ids)
         /\ Len(beams[i].token_ids) = Len(beams[1].token_ids)
         /\ \A t \in Elems(beams[i].token_ids) : t \notin BeamStops
         /\ \A j \in DOMAIN beams : beams[i].token_ids = beams[j].token_ids => i = j

FinishedStop ==
    \A i \in DOMAIN finished :
         /\ finished[i].cum_logprob = PathScore(finished[i].token_ids)
         /\ \A k \in DOMAIN finished[i].token_ids :
              finished[i].token_ids[k] \in BeamStops <=> k = Len(finished[i].token_ids)

ResultIsBest ==
    /\ finish_reason = "stop" =>
         \E b \in Elems(finished) :
            /\ b.token_ids = result
            /\ \A c \in Elems(finished) :
                 PathScore(c.token_ids) * Weight(result) <= PathScore(result) * Weight(c.token_ids)
    /\ finish_reason = "length" => Len(result) = params.max_new_tokens /\ Last(result) \notin BeamStops

\* The beams are distinct hypotheses of one length that have not stopped, the
\* finished ones stop at their last token only, every score is that of the
\* whole path, and what is returned is a finished hypothesis that no other one
\* outscores (the docstring's stopping rule, beam_search.py:30-34).  A group
\* that is not done has beams to go on with and tokens left to go.
HypothesesExact == BeamsGoOn /\ FinishedStop /\ ResultIsBest

\* What scoring only each beam's own top num_beams tokens can lose
\* (beam_search.py:128-132).  "Any candidate outside that set is strictly
\* dominated" is true of tokens that go on, but stop tokens in the set fill no
\* slot: a hypothesis better than a new beam is only lost when its parent has a
\* stop token among its top tokens.
PrunedOnlyByStops ==
    LET new == Survivors(Visited(Candidates)) IN
    \A i \in DOMAIN beams, t \in BeamTokens \ BeamStops :
        LET hyp == Child(beams[i], t) IN
        \/ hyp \in Elems(new)
        \/ /\ Len(new) = params.num_beams
           /\ \A b \in Elems(new) : b.cum_logprob >= hyp.cum_logprob
        \/ \E u \in BeamStops : Rank(LogProbs(beams[i].token_ids), u) < params.num_beams

\* The most probable token every time.
GreedyChoices(path) ==
    \A i \in DOMAIN path :
        LET row == LogProbs(SubSeq(path, 1, i - 1)) IN
        \A t \in BeamTokens : row[path[i]] >= row[t]

\* Greedy decoding: until it stops, or n tokens long.
GreedyRun(path, n) ==
    /\ GreedyChoices(path)
    /\ path # <<>> /\ Len(path) <= n
    /\ \A i \in DOMAIN path : path[i] \in BeamStops => i = Len(path)
    /\ Len(path) = n \/ Last(path) \in BeamStops

\* One beam is ordinary greedy decoding, to the token (test_beam_search.py:195).
OneBeamIsGreedy ==
    IsDone /\ params.num_beams = 1 => GreedyRun(result, params.max_new_tokens)

=============================================================================
