------------------------------ MODULE TextStream ------------------------------
(***************************************************************************)
(* One completion on its way out: the tokens of AsyncEngine.generate(),    *)
(* IncrementalDetokenizer, StopStringFilter and the handler of the server  *)
(* that reads it.  The coroutines only stop at an await or a yield, so an  *)
(* action is the run from one to the next.                                 *)
(*                                                                         *)
(* The tokenizer is outside the repository, and decode() may be any        *)
(* function: "a single new token can retroactively change how the previous *)
(* one should render" (detokenizer.py:4-5).  The filter only knows the     *)
(* deltas; what it promises is about their text, the buffer.               *)
(***************************************************************************)
EXTENDS Integers, Sequences, FiniteSets, SequencesExt, FiniteSetsExt

CONSTANTS
    TextTokens,     \* token ids
    Chars,          \* characters
    Decode(_),      \* tokenizer.decode(ids, skip_special_tokens=True)
    Stops,          \* stop_strings
    InclusiveStops, \* inclusive_stop_strings of a chat with tools
    MaxTokens       \* max_new_tokens

ASSUME StopsAssumption == <<>> \notin Stops \cup InclusiveStops
ASSUME StringsAssumption == Stops \cup InclusiveStops \subseteq Seq(Chars)
ASSUME MaxTokensAssumption == MaxTokens \in Nat \ {0}
ASSUME DecodeAssumption ==
    /\ Decode(<<>>) = <<>>
    /\ \A n \in 1 .. MaxTokens : \A ids \in [1 .. n -> TextTokens] : Decode(ids) \in Seq(Chars)

VARIABLES
    endpoint,       \* the handler: "chat" with tools | "completions"
    token_ids,      \* IncrementalDetokenizer.token_ids
    source,         \* the engine's generator: "open" | "ended" | "raised" | "closed"
    buffer,         \* the deltas so far: the text the filter has seen
    shown,          \* the text it has yielded
    filter,         \* "waiting" for text, at a "yield", at its "last" yield, "returned"
    verdict,        \* what the cut was: "none" | "exclusive" | "inclusive"
    stopped,        \* stopped_early and stopped_inclusive, as one of the same
    response        \* "open" | "stop" | "length" | "tool_calls" | "error" | "gone"

textVars == <<endpoint, token_ids, source, buffer, shown, filter, verdict, stopped, response>>

-----------------------------------------------------------------------------
(* Text *)

\* Mutant: the text is cut at the number of tokens.
AddTokenByCount(ids, t) ==
    SubSeq(Decode(Append(ids, t)), Len(ids) + 1, Len(Decode(Append(ids, t))))

\* add_token(): the new text from where the old one ended, whether or not the
\* old one is still its beginning.
AddToken(ids, t) ==
    SubSeq(Decode(Append(ids, t)), Len(Decode(ids)) + 1, Len(Decode(Append(ids, t))))

\* The places where s occurs in text: how many characters come before.
Finds(s, text) ==
    {i \in 0 .. Len(text) - Len(s) : SubSeq(text, i + 1, i + Len(s)) = s}

\* buffer.find(s)
FirstFind(s, text) == Min(Finds(s, text))

Found(S, text) == {s \in S : Finds(s, text) # {}}

\* Only a tool call is cut after its closing tag.
Inclusive == IF endpoint = "chat" THEN InclusiveStops ELSE {}

\* Where the text is cut: after the inclusive match that ends first, before
\* the stop string that begins first.
InclusiveCut(text) == Min({FirstFind(s, text) + Len(s) : s \in Found(Inclusive, text)})
Cut(text) == Min({FirstFind(s, text) : s \in Found(Stops, text)})

\* Mutant: the inclusive strings are not looked for.
VerdictExclusive(text) == IF Found(Stops, text) # {} THEN "exclusive" ELSE "none"

\* The inclusive strings are looked for first.
Verdict(text) ==
    IF Found(Inclusive, text) # {} THEN "inclusive"
    ELSE IF Found(Stops, text) # {} THEN "exclusive"
    ELSE "none"

\* Mutants: everything that came is shown; the inclusive string is not.
KeepAll(text, v) == Len(text)

KeepWithoutTag(text, v) ==
    CASE v = "inclusive" -> InclusiveCut(text) - 1
      [] v = "exclusive" -> Cut(text)
      [] v = "none"      -> Len(text)

\* How much of the text may be shown.
Keep(text, v) ==
    CASE v = "inclusive" -> InclusiveCut(text)
      [] v = "exclusive" -> Cut(text)
      [] v = "none"      -> Len(text)

-----------------------------------------------------------------------------
TextInit ==
    /\ endpoint \in {"chat", "completions"}
    /\ token_ids = <<>>
    /\ source = "open"
    /\ buffer = <<>> /\ shown = <<>>
    /\ filter = "waiting"
    /\ verdict = "none" /\ stopped = "none"
    /\ response = "open"

\* Mutant: stopped_early is not set.
ClosedSilently(v) ==
    /\ filter' = "returned"
    /\ source' = "closed"
    /\ UNCHANGED stopped

\* The filter closes the source and returns.
Closed(v) ==
    /\ filter' = "returned"
    /\ source' = "closed"
    /\ stopped' = v

\* A delta comes: what of it may be shown is yielded; a cut that leaves
\* nothing to show closes the source at once.
Receive(t) ==
    LET text    == buffer \o AddToken(token_ids, t)
        visible == Len(buffer)
        v       == Verdict(text) IN
    /\ filter = "waiting" /\ source = "open"
    /\ Len(token_ids) < MaxTokens
    /\ token_ids' = Append(token_ids, t)
    /\ buffer' = text
    /\ verdict' = v
    /\ IF v = "none" \/ Keep(text, v) > visible
       THEN /\ shown' = shown \o SubSeq(text, visible + 1, Keep(text, v))
            /\ filter' = IF v = "none" THEN "yield" ELSE "last"
            /\ UNCHANGED <<source, stopped>>
       ELSE Closed(v) /\ UNCHANGED shown
    /\ UNCHANGED response

\* The handler asks for more.
Resume ==
    /\ filter = "yield"
    /\ filter' = "waiting"
    /\ UNCHANGED <<token_ids, source, buffer, shown, verdict, stopped, response>>

\* Mutant: the source is left suspended.
StopLeavesSource ==
    /\ filter = "last"
    /\ filter' = "returned"
    /\ stopped' = verdict
    /\ UNCHANGED <<token_ids, source, buffer, shown, verdict, response>>

\* ... after the last piece.
Return ==
    /\ filter = "last"
    /\ Closed(verdict)
    /\ UNCHANGED <<token_ids, buffer, shown, verdict, response>>

\* The generator of the engine is exhausted: a stop token, or enough tokens.
SourceEnds ==
    /\ filter = "waiting" /\ source = "open"
    /\ source' = "ended"
    /\ filter' = "returned"
    /\ UNCHANGED <<token_ids, buffer, shown, verdict, stopped, response>>

\* It raises the exception of a dead engine: the handler fails.
SourceRaises ==
    /\ filter = "waiting" /\ source = "open"
    /\ source' = "raised"
    /\ filter' = "returned"
    /\ response' = "error"
    /\ UNCHANGED <<token_ids, buffer, shown, verdict, stopped>>

\* The client goes away: the filter is closed where it is, its finally clause
\* closes the source.
Abandon ==
    /\ response = "open" /\ filter # "returned"
    /\ filter' = "returned"
    /\ source' = "closed"
    /\ response' = "gone"
    /\ UNCHANGED <<token_ids, buffer, shown, verdict, stopped>>

\* Mutant: the verdict of the filter is passed on as it is.
RespondRaw ==
    /\ filter = "returned" /\ response = "open"
    /\ response' = stopped
    /\ UNCHANGED <<token_ids, source, buffer, shown, filter, verdict, stopped>>

\* finish_reason of a chat.  A tool call that does not parse is plain text.
ChatEnds ==
    CASE stopped = "none"      -> {"length"}
      [] stopped = "exclusive" -> {"stop"}
      [] stopped = "inclusive" -> {"tool_calls", "stop"}

\* ... of a completion
CompletionEnds == {IF stopped = "none" THEN "length" ELSE "stop"}

\* The end of the handler.
Respond ==
    /\ filter = "returned" /\ response = "open"
    /\ response' \in IF endpoint = "chat" THEN ChatEnds ELSE CompletionEnds
    /\ UNCHANGED <<token_ids, source, buffer, shown, filter, verdict, stopped>>

TextNext ==
    /\ \/ \E t \in TextTokens : Receive(t)
       \/ Resume \/ Return \/ SourceEnds \/ SourceRaises \/ Abandon \/ Respond
    /\ UNCHANGED endpoint

TextSpec == TextInit /\ [][TextNext]_textVars

-----------------------------------------------------------------------------
(* Properties *)

TextTypeOK ==
    /\ endpoint \in {"chat", "completions"}
    /\ token_ids \in Seq(TextTokens) /\ Len(token_ids) <= MaxTokens
    /\ source \in {"open", "ended", "raised", "closed"}
    /\ buffer \in Seq(Chars) /\ shown \in Seq(Chars)
    /\ filter \in {"waiting", "yield", "last", "returned"}
    /\ verdict \in {"none", "exclusive", "inclusive"}
    /\ stopped \in {"none", "exclusive", "inclusive"}
    /\ response \in {"open", "stop", "length", "tool_calls", "error", "gone"}

\* The text of the first k tokens.
TextOfFirst(k) == Decode(SubSeq(token_ids, 1, k))

\* No token after the k-th has changed the text of those before it.
SettledSince(k) ==
    \A j \in k .. Len(token_ids) - 1 : IsPrefix(TextOfFirst(j), TextOfFirst(j + 1))

\* What the tokens after the k-th have made the text longer by.
TextSince(k) == SubSeq(Decode(token_ids), Len(TextOfFirst(k)) + 1, Len(Decode(token_ids)))

\* Nothing is dropped or repeated on the way, whatever the tokenizer does: the
\* deltas are the text of the tokens if none has changed earlier text, and if
\* some have, what came since the last of them arrives whole (add_token keeps
\* its place); the filter shows the deltas from the first character on, all of
\* them as long as no stop string has come, however they are cut.
NothingLost ==
    /\ SettledSince(0) => buffer = Decode(token_ids)
    /\ \A k \in 0 .. Len(token_ids) : SettledSince(k) => IsSuffix(TextSince(k), buffer)
    /\ IsPrefix(shown, buffer)
    /\ Found(Stops \cup Inclusive, buffer) = {} => shown = buffer

\* The deltas put together are the decoded text: "assert reassembled ==
\* expected" (test_detokenizer.py:27 and, for text whose characters may take
\* several tokens, 38).
DeltasReassemble == buffer = Decode(token_ids)

\* "detect a stop string across chunk boundaries" (stop_strings.py:3-4): the
\* filter never asks for a token after the one that completes a stop string in
\* the text of its deltas.
StopsAtOnce ==
    filter = "waiting" => Found(Stops \cup Inclusive, buffer) = {}

\* No exclusive stop string is ever shown whole, however it is cut into
\* deltas (its first part may have been shown before the rest came).
StopNeverShown == verdict # "inclusive" => Found(Stops, shown) = {}

\* An inclusive stop string "itself has to survive in the text" and the text
\* is "cut right after it ends" (stop_strings.py:8-13).
TagSurvives ==
    stopped = "inclusive" =>
        /\ \E s \in Inclusive : IsSuffix(s, shown)
        /\ Found(Inclusive, Front(shown)) = {}

\* However the filter ends, the engine's generator does not stay suspended
\* and "keep running in the scheduler and holding cache blocks"
\* (stop_strings.py:15-21).
SourceReleased == filter = "returned" => source # "open"

\* finish_reason agrees with the text: it is "length" only if no stop string
\* came, "stop" only if one did, and a tool call has its closing tag
\* (server.py:422, 453, 541 and 560 read the flags of the filter after its end).
StopIsReported ==
    /\ response = "length" => Found(Stops \cup Inclusive, buffer) = {}
    /\ response = "stop" => Found(Stops \cup Inclusive, buffer) # {}
    /\ response = "tool_calls" => Found(Inclusive, buffer) # {}

=============================================================================
