------------------------------- MODULE MCParts -------------------------------
(* The parts of the server that share no state with each other, each on its *)
(* own: a step of one leaves the variables and the properties of the others *)
(* as they are, so a behaviour explores one of them and the rest stays      *)
(* where it began.                                                          *)
EXTENDS BeamSearch, DecodeLanes, TokenLoop, MCTextStream, ApiGate, TLC

VARIABLE part

vars == <<part, beamVars, laneVars, tokenVars, textVars, gateVars>>

\* Stop tokens 3 and 4; no two candidates of a step have the same score.
MCLogProbRows ==
    {<<-5, -14, -23, -30>>, <<-14, -5, -30, -23>>, <<-30, -23, -5, -14>>, <<-8, -12, -19, -24>>,
     <<-19, -24, -12, -8>>, <<-24, -12, -8, -19>>, <<-12, -24, -19, -8>>}
MCPower(n, p) == n ^ p
MCBeamParams == [num_beams : 1 .. 3, length_penalty : 0 .. 1, max_new_tokens : {1, 3}]

MCSymmetry == Permutations(LaneSeqs)

\* Rows with ties, and with logits of both signs for the repetition penalty.
MCRows == << <<2, 0, -1, 0>>, <<-2, 2, 2, -1>>, <<0, -1, 0, 2>>, <<-1, -1, 2, 0>>, <<-1, 2, 0, -2>> >>
MCChains == {[t \in Tokens |-> MCRows[((a * t + b) % 5) + 1]] : a \in {1, 2}, b \in 0 .. 4}
MCGreedy == [temperature : {0}, repetition_penalty : {1, 2}, top_k : {0}, top_p : {10}, min_p : {0}]
MCParams ==
    MCGreedy
    \cup [temperature : {1}, repetition_penalty : {1}, top_k : {0, 2}, top_p : {4, 7}, min_p : {0, 3}]
    \cup [temperature : {1}, repetition_penalty : {2}, top_k : {3}, top_p : {6, 10}, min_p : {3}]
MCExp(l) == 2 ^ (l + 4)
MCPrompts == {<<1, 2, 1>>, <<4, 3, 4>>}
\* Token 3 closes what 1 opened, 2 may come any number of times.
MCGuided ==
    (<<0, 1>> :> 1) @@ (<<1, 2>> :> 1) @@ (<<1, 1>> :> 2) @@ (<<2, 3>> :> 3) @@ (<<2, 2>> :> 1)

Init ==
    /\ part \in {"beams", "lanes", "tokens", "text", "gate"}
    /\ part # "beams" =>
        /\ lm = [t \in {0} \cup (BeamTokens \ BeamStops) |-> <<-5, -14, -23, -30>>]
        /\ params = [num_beams |-> 1, length_penalty |-> 0, max_new_tokens |-> 1]
    /\ part # "tokens" =>
        /\ chain = [t \in Tokens |-> MCRows[t]]
        /\ prompt_token_ids = <<1, 2, 1>>
        /\ sampling_params \in {p \in MCGreedy : p.repetition_penalty = 1}
        /\ has_guide = FALSE
    /\ part # "text" => endpoint = "chat"
    /\ part # "gate" => limit = NoLimit /\ auth_on = FALSE
    /\ BeamInit /\ LaneInit /\ TokenInit /\ TextInit /\ GateInit

Next ==
    /\ \/ part = "beams" /\ BeamStep /\ UNCHANGED <<laneVars, tokenVars, textVars, gateVars>>
       \/ part = "lanes" /\ LaneNext /\ UNCHANGED <<beamVars, tokenVars, textVars, gateVars>>
       \/ part = "tokens" /\ TokenNext /\ UNCHANGED <<beamVars, laneVars, textVars, gateVars>>
       \/ part = "text" /\ TextNext /\ UNCHANGED <<beamVars, laneVars, tokenVars, gateVars>>
       \/ part = "gate" /\ GateNext /\ UNCHANGED <<beamVars, laneVars, tokenVars, textVars>>
    /\ UNCHANGED part

Spec == Init /\ [][Next]_vars
=============================================================================
