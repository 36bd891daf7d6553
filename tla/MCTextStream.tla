----------------------------- MODULE MCTextStream -----------------------------
\* A tokenizer with byte fallback: "lead" and "trail" are the two bytes of a y,
\* "wide" and twice "trail" the three of an x.  Bytes in a row are decoded
\* together, each to a replacement character unless all of them are whole
\* characters: one more byte may rewrite those before it, and shorten the text.
EXTENDS TextStream

\* "word" has a stop string of its own, and completes others in the middle.
MCTextTokens == {"x", "y", "word", "lead", "wide", "trail"}
MCChars == {"x", "y", "?"}

Bytes == {"lead", "wide", "trail"}
At(ids, i) == IF i \in DOMAIN ids THEN ids[i] ELSE "nothing"

Whole(ids, i) ==
    CASE ids[i] = "lead"  -> At(ids, i + 1) = "trail"
      [] ids[i] = "wide"  -> At(ids, i + 1) = "trail" /\ At(ids, i + 2) = "trail"
      [] ids[i] = "trail" -> \/ At(ids, i - 1) = "lead"
                             \/ At(ids, i - 1) = "wide" /\ At(ids, i + 1) = "trail"
                             \/ At(ids, i - 1) = "trail" /\ At(ids, i - 2) = "wide"

RunOf(ids, i) ==
    {j \in DOMAIN ids : \A k \in DOMAIN ids : (i <= k /\ k <= j) \/ (j <= k /\ k <= i) => ids[k] \in Bytes}

Rendered(ids, i) ==
    CASE ids[i] = "x"    -> <<"x">>
      [] ids[i] = "y"    -> <<"y">>
      [] ids[i] = "word" -> <<"x", "y", "x">>
      [] ids[i] \in Bytes ->
            IF \E j \in RunOf(ids, i) : ~Whole(ids, j) THEN <<"?">>
            ELSE CASE ids[i] = "lead" -> <<"y">> [] ids[i] = "wide" -> <<"x">> [] ids[i] = "trail" -> <<>>

MCDecode(ids) == FlattenSeq([i \in DOMAIN ids |-> Rendered(ids, i)])

\* They overlap each other, and both may be cut by a delta.
MCStops == {<<"x", "x", "y">>, <<"x", "y", "x">>}
MCInclusive == {<<"y", "y", "x">>}
=============================================================================
