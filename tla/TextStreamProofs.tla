-------------------------- MODULE TextStreamProofs --------------------------
(***************************************************************************)
(* Proofs about TextStream, for every function decode() may be, all stop   *)
(* strings and every way the deltas cut them: what is shown is a first     *)
(* part of the deltas, ends where it should, the source is let go and the  *)
(* response says which it was.                                             *)
(***************************************************************************)
EXTENDS TextStream, Foundations, SequenceTheorems

-----------------------------------------------------------------------------
(* The inductive invariant *)

\* As long as no token has changed earlier text the deltas are the text, and
\* after one that has, what came since is an end of them.
DeltasKeepPlace ==
    /\ SettledSince(0) => buffer = Decode(token_ids)
    /\ \A k \in 0 .. Len(token_ids) : SettledSince(k) =>
          /\ Len(TextOfFirst(k)) <= Len(Decode(token_ids))
          /\ \E m \in 0 .. Len(buffer) : TextSince(k) = SubSeq(buffer, m + 1, Len(buffer))

\* Until a stop string is in the deltas all of them are shown; then they are
\* shown up to the cut, or as far as they were before.
ShownToCut ==
    /\ verdict = Verdict(buffer)
    /\ verdict = "none" => shown = buffer
    /\ verdict = "exclusive" => IsPrefix(shown, buffer) /\ Found(Stops, shown) = {}
    /\ verdict = "inclusive" => shown = SubSeq(buffer, 1, InclusiveCut(buffer))

\* As long as the filter has not returned its source is open, and it asks for
\* more only as long as no stop string has come.
EndsWithCut ==
    /\ stopped \in {"none", verdict}
    /\ IF filter = "returned" THEN source # "open" ELSE source = "open" /\ stopped = "none"
    /\ filter \in {"waiting", "yield"} => verdict = "none"

\* The handler answers only after the filter has told it of the cut.
AnswersAfterCut ==
    /\ filter = "returned" /\ response # "gone" => stopped = verdict
    /\ response # "open" => filter = "returned"
    /\ response = "length" => verdict = "none"
    /\ response = "stop" => verdict # "none"
    /\ response = "tool_calls" => verdict = "inclusive"

IInv == TextTypeOK /\ DeltasKeepPlace /\ ShownToCut /\ EndsWithCut /\ AnswersAfterCut

-----------------------------------------------------------------------------
(* Texts *)

LEMMA Strings ==
    /\ \A s \in Stops \cup InclusiveStops : s \in Seq(Chars) /\ s # <<>>
    /\ Inclusive \subseteq InclusiveStops
BY StringsAssumption, StopsAssumption DEF Inclusive

\* Both parts of a concatenation can be cut out of it again, and a later end
\* of the first is an end of the whole without it.
LEMMA Parts ==
    ASSUME NEW S, NEW a \in Seq(S), NEW b \in Seq(S)
    PROVE  /\ a \o b \in Seq(S) /\ Len(a \o b) = Len(a) + Len(b)
           /\ Len(a) \in Nat /\ Len(b) \in Nat
           /\ SubSeq(a \o b, 1, Len(a)) = a
           /\ SubSeq(a \o b, Len(a) + 1, Len(a \o b)) = b
<1> DEFINE c == a \o b
<1>1. /\ c \in Seq(S) /\ Len(c) = Len(a) + Len(b) /\ Len(a) \in Nat /\ Len(b) \in Nat
      /\ \A i \in 1 .. Len(a) : c[i] = a[i]
      /\ \A i \in 1 .. Len(b) : c[Len(a) + i] = b[i]
  OBVIOUS
<1> HIDE DEF c
<1>2. SubSeq(c, 1, Len(a)) = a
  BY <1>1
<1>3. SubSeq(c, Len(a) + 1, Len(c)) = b
  BY <1>1
<1> QED
  BY <1>1, <1>2, <1>3 DEF c

\* An end of a text grows by what comes behind the text.
LEMMA EndGrows ==
    ASSUME NEW S, NEW a \in Seq(S), NEW b \in Seq(S), NEW m \in 0 .. Len(a)
    PROVE  SubSeq(a \o b, m + 1, Len(a \o b)) = SubSeq(a, m + 1, Len(a)) \o b
<1> DEFINE c == a \o b
           d == SubSeq(a, m + 1, Len(a))
           x == SubSeq(c, m + 1, Len(c))
           y == d \o b
<1>1. /\ c \in Seq(S) /\ Len(c) = Len(a) + Len(b) /\ Len(a) \in Nat /\ Len(b) \in Nat
      /\ m \in Nat /\ m <= Len(a)
      /\ \A i \in 1 .. Len(c) : c[i] = IF i <= Len(a) THEN a[i] ELSE b[i - Len(a)]
  OBVIOUS
<1>2. d \in Seq(S) /\ Len(d) = Len(a) - m /\ \A i \in 1 .. Len(d) : d[i] = a[m + i]
  OBVIOUS
<1> HIDE DEF c, d
<1>3. x \in Seq(S) /\ Len(x) = Len(c) - m /\ \A i \in 1 .. Len(x) : x[i] = c[m + i]
  BY <1>1
<1>4. /\ y \in Seq(S) /\ Len(y) = Len(d) + Len(b)
      /\ \A i \in 1 .. Len(y) : y[i] = IF i <= Len(d) THEN d[i] ELSE b[i - Len(d)]
  <2>1. d \in Seq(S) /\ b \in Seq(S)
    BY <1>2
  <2> QED
    BY <2>1
<1> HIDE DEF x, y
<1>5. Len(x) = Len(y) /\ Len(x) \in Nat
  BY <1>1, <1>2, <1>3, <1>4
<1>6. ASSUME NEW i \in 1 .. Len(x) PROVE x[i] = y[i]
  <2>1. m + i \in 1 .. Len(c) /\ (m + i <= Len(a) <=> i <= Len(d))
        /\ (m + i) - Len(a) = i - Len(d)
    BY <1>1, <1>2, <1>3
  <2>2. x[i] = IF i <= Len(d) THEN a[m + i] ELSE b[i - Len(d)]
    BY <1>1, <1>3, <2>1
  <2>3. i <= Len(d) => d[i] = a[m + i]
    BY <1>1, <1>2, <1>5
  <2> QED
    BY <1>4, <1>5, <2>2, <2>3
<1>7. x = y
  BY <1>3, <1>4, <1>5, <1>6
<1> QED
  BY <1>7 DEF x, y, c, d

\* decode() returns text for what there may be of tokens.
LEMMA DecodeIsText ==
    ASSUME NEW ids \in Seq(TextTokens), Len(ids) <= MaxTokens
    PROVE  Decode(ids) \in Seq(Chars) /\ Len(Decode(ids)) \in Nat
<1>1. CASE Len(ids) = 0
  <2>1. ids = <<>>
    BY <1>1
  <2>2. Decode(ids) = <<>>
    BY <2>1, DecodeAssumption
  <2> QED
    BY <2>2
<1>2. CASE Len(ids) # 0
  <2>1. Len(ids) \in 1 .. MaxTokens /\ ids \in [1 .. Len(ids) -> TextTokens]
    BY <1>2, MaxTokensAssumption
  <2>2. Decode(ids) \in Seq(Chars)
    BY <2>1, DecodeAssumption
  <2> QED
    BY <2>2
<1> QED
  BY <1>1, <1>2

\* One more token leaves the first ones what they are.
LEMMA FirstTokens ==
    ASSUME NEW ids \in Seq(TextTokens), NEW t \in TextTokens
    PROVE  /\ Append(ids, t) \in Seq(TextTokens) /\ Len(Append(ids, t)) = Len(ids) + 1
           /\ Len(ids) \in Nat
           /\ \A k \in 0 .. Len(ids) :
                 /\ SubSeq(Append(ids, t), 1, k) = SubSeq(ids, 1, k)
                 /\ SubSeq(ids, 1, k) \in Seq(TextTokens) /\ Len(SubSeq(ids, 1, k)) = k
           /\ SubSeq(ids, 1, Len(ids)) = ids
           /\ SubSeq(Append(ids, t), 1, Len(ids) + 1) = Append(ids, t)
<1> DEFINE r == Append(ids, t)
           n == Len(ids)
<1>1. /\ n \in Nat /\ r \in Seq(TextTokens) /\ Len(r) = n + 1 /\ \A i \in 1 .. n : r[i] = ids[i]
  OBVIOUS
<1> HIDE DEF r
<1>2. \A k \in 0 .. n : SubSeq(r, 1, k) = SubSeq(ids, 1, k)
  BY <1>1
<1>3. \A k \in 0 .. n : SubSeq(ids, 1, k) \in Seq(TextTokens) /\ Len(SubSeq(ids, 1, k)) = k
  BY <1>1
<1>4. SubSeq(ids, 1, n) = ids
  BY SubSeqFull
<1>5. SubSeq(r, 1, n + 1) = r
  BY <1>1, SubSeqFull
<1> QED
  BY <1>1, <1>2, <1>3, <1>4, <1>5 DEF r

\* What add_token() returns is text, and comes behind the old text if the
\* token has left that as it was.
LEMMA AddTokenIsText ==
    ASSUME NEW ids \in Seq(TextTokens), NEW t \in TextTokens, Len(ids) < MaxTokens
    PROVE  /\ AddToken(ids, t) \in Seq(Chars)
           /\ IsPrefix(Decode(ids), Decode(Append(ids, t))) =>
                 Decode(Append(ids, t)) = Decode(ids) \o AddToken(ids, t)
<1> DEFINE d == Decode(ids)
           e == Decode(Append(ids, t))
<1>1. d \in Seq(Chars) /\ e \in Seq(Chars) /\ Len(d) \in Nat /\ Len(e) \in Nat
  <2>1. /\ Append(ids, t) \in Seq(TextTokens) /\ Len(Append(ids, t)) <= MaxTokens
        /\ Len(ids) <= MaxTokens
    BY MaxTokensAssumption
  <2> QED
    BY <2>1, DecodeIsText
<1>2. AddToken(ids, t) = SubSeq(e, Len(d) + 1, Len(e))
  BY DEF AddToken
<1> HIDE DEF d, e
<1>3. AddToken(ids, t) \in Seq(Chars)
  BY <1>1, <1>2
<1>4. ASSUME IsPrefix(d, e) PROVE e = d \o SubSeq(e, Len(d) + 1, Len(e))
  <2>1. Len(d) <= Len(e) /\ SubSeq(d, 1, Len(d)) = SubSeq(e, 1, Len(d))
    BY <1>4 DEF IsPrefix
  <2>2. d = SubSeq(e, 1, Len(d))
    BY <1>1, <2>1, SubSeqFull
  <2>3. /\ 1 \in 1 .. Len(e) + 1 /\ Len(d) \in 1 - 1 .. Len(e) /\ Len(e) \in Len(d) .. Len(e)
    BY <1>1, <2>1
  <2>4. SubSeq(e, 1, Len(d)) \o SubSeq(e, Len(d) + 1, Len(e)) = SubSeq(e, 1, Len(e))
    BY <1>1, <2>3, ConcatAdjacentSubSeq
  <2>5. SubSeq(e, 1, Len(e)) = e
    BY <1>1, SubSeqFull
  <2> QED
    BY <2>2, <2>4, <2>5
<1> QED
  BY <1>2, <1>3, <1>4 DEF d, e

-----------------------------------------------------------------------------
(* Where strings are found *)

LEMMA MinIs ==
    ASSUME NEW T \in SUBSET Nat, T # {}
    PROVE  Min(T) \in T /\ \A k \in T : Min(T) <= k
BY LeastNatural DEF Min

LEMMA FindsIn ==
    ASSUME NEW text \in Seq(Chars), NEW s \in Seq(Chars)
    PROVE  /\ Finds(s, text) \in SUBSET Nat
           /\ Finds(s, text) # {} =>
                 /\ FirstFind(s, text) \in Finds(s, text)
                 /\ \A i \in Finds(s, text) : FirstFind(s, text) <= i
<1>1. Finds(s, text) \in SUBSET Nat
  BY DEF Finds
<1> QED
  BY <1>1, MinIs DEF FirstFind

\* A string is found in a first part of a text where it is found in the text,
\* if it ends early enough.
LEMMA FindsInFirst ==
    ASSUME NEW text \in Seq(Chars), NEW s \in Seq(Chars), s # <<>>,
           NEW n \in 0 .. Len(text), NEW i
    PROVE  i \in Finds(s, SubSeq(text, 1, n)) <=> i \in Finds(s, text) /\ i + Len(s) <= n
<1> DEFINE p == SubSeq(text, 1, n)
<1>1. /\ p \in Seq(Chars) /\ Len(p) = n /\ n \in Nat /\ Len(text) \in Nat /\ n <= Len(text)
      /\ Len(s) \in Nat /\ Len(s) >= 1
  OBVIOUS
<1>2. ASSUME i \in Nat, i + Len(s) <= n
      PROVE  SubSeq(p, i + 1, i + Len(s)) = SubSeq(text, i + 1, i + Len(s))
  <2>1. \A k \in i + 1 .. i + Len(s) : k \in 1 .. n /\ k \in 1 .. Len(text) /\ p[k] = text[k]
    BY <1>1, <1>2
  <2> HIDE DEF p
  <2> QED
    BY <1>1, <1>2, <2>1
<1> HIDE DEF p
<1>3. i \in 0 .. Len(p) - Len(s) <=> i \in 0 .. Len(text) - Len(s) /\ i + Len(s) <= n
  BY <1>1
<1>4. i \in 0 .. Len(p) - Len(s) => i \in Nat /\ i + Len(s) <= n
  BY <1>1
<1>5. i \in Finds(s, p) <=> i \in Finds(s, text) /\ i + Len(s) <= n
  BY <1>2, <1>3, <1>4 DEF Finds
<1> QED
  BY <1>5 DEF p

\* A string found in the whole text but not in its first part ends behind it.
LEMMA FoundBehind ==
    ASSUME NEW text \in Seq(Chars), NEW n \in 0 .. Len(text),
           NEW S \in SUBSET (Stops \cup InclusiveStops), Found(S, SubSeq(text, 1, n)) = {},
           NEW s \in S, NEW i \in Finds(s, text)
    PROVE  i + Len(s) > n
<1>1. s \in Seq(Chars) /\ s # <<>> /\ Len(s) \in Nat /\ n \in Nat
  BY Strings
<1>2. i \in Nat
  BY <1>1, FindsIn
<1>3. Finds(s, SubSeq(text, 1, n)) = {}
  BY DEF Found
<1>4. ~ (i + Len(s) <= n)
  BY <1>1, <1>3, FindsInFirst
<1> QED
  BY <1>1, <1>2, <1>4

\* The exclusive cut is the first place of a stop string.
LEMMA CutIsFirst ==
    ASSUME NEW text \in Seq(Chars), Found(Stops, text) # {}
    PROVE  /\ Cut(text) \in 0 .. Len(text)
           /\ \A s \in Stops : \A i \in Finds(s, text) : Cut(text) <= i
<1> DEFINE T == {FirstFind(s, text) : s \in Found(Stops, text)}
<1>1. \A s \in Stops : s \in Seq(Chars) /\ Len(s) \in Nat
  BY Strings
<1>2. \A s \in Found(Stops, text) :
         s \in Stops /\ FirstFind(s, text) \in Finds(s, text) /\ FirstFind(s, text) \in Nat
  BY <1>1, FindsIn DEF Found
<1>3. T \in SUBSET Nat /\ T # {}
  BY <1>2
<1>4. Cut(text) \in T /\ \A k \in T : Cut(text) <= k
  <2> HIDE DEF T
  <2>1. Min(T) \in T /\ \A k \in T : Min(T) <= k
    BY <1>3, MinIs
  <2> QED
    BY <2>1 DEF Cut, T
<1>5. Cut(text) \in 0 .. Len(text)
  <2>1. PICK s \in Found(Stops, text) : Cut(text) = FirstFind(s, text)
    BY <1>4
  <2>2. Cut(text) \in 0 .. Len(text) - Len(s) /\ Len(s) \in Nat /\ Len(text) \in Nat
    BY <1>1, <1>2, <2>1 DEF Finds
  <2> QED
    BY <2>2
<1>6. ASSUME NEW s \in Stops, NEW i \in Finds(s, text) PROVE Cut(text) <= i
  <2>1. s \in Found(Stops, text)
    BY DEF Found
  <2>2. FirstFind(s, text) <= i /\ FirstFind(s, text) \in Nat /\ i \in Nat
    BY <1>1, <1>2, <2>1, FindsIn
  <2>3. Cut(text) <= FirstFind(s, text) /\ Cut(text) \in Nat
    BY <1>3, <1>4, <2>1
  <2> QED
    BY <2>2, <2>3
<1> QED
  BY <1>5, <1>6

\* The inclusive cut is the first place where a stop string of them ends.
LEMMA InclusiveCutIsFirst ==
    ASSUME NEW text \in Seq(Chars), Found(Inclusive, text) # {}
    PROVE  /\ \E s \in Inclusive : \E i \in Finds(s, text) : InclusiveCut(text) = i + Len(s)
           /\ \A s \in Inclusive : \A i \in Finds(s, text) : InclusiveCut(text) <= i + Len(s)
           /\ InclusiveCut(text) \in 1 .. Len(text)
<1> DEFINE T == {FirstFind(s, text) + Len(s) : s \in Found(Inclusive, text)}
<1>1. \A s \in Inclusive : s \in Seq(Chars) /\ Len(s) \in Nat /\ Len(s) >= 1
  BY Strings
<1>2. \A s \in Found(Inclusive, text) :
         /\ s \in Inclusive /\ FirstFind(s, text) \in Finds(s, text)
         /\ FirstFind(s, text) \in Nat /\ FirstFind(s, text) + Len(s) \in Nat
  BY <1>1, FindsIn DEF Found
<1>3. T \in SUBSET Nat /\ T # {}
  BY <1>2
<1>4. InclusiveCut(text) \in T /\ \A k \in T : InclusiveCut(text) <= k
  <2> HIDE DEF T
  <2>1. Min(T) \in T /\ \A k \in T : Min(T) <= k
    BY <1>3, MinIs
  <2> QED
    BY <2>1 DEF InclusiveCut, T
<1>5. PICK u \in Found(Inclusive, text) : InclusiveCut(text) = FirstFind(u, text) + Len(u)
  BY <1>4
<1>6. InclusiveCut(text) \in 1 .. Len(text)
  <2>1. FirstFind(u, text) \in 0 .. Len(text) - Len(u) /\ Len(u) \in Nat /\ Len(u) >= 1 /\ Len(text) \in Nat
    BY <1>1, <1>2 DEF Finds
  <2> QED
    BY <1>5, <2>1
<1>7. ASSUME NEW s \in Inclusive, NEW i \in Finds(s, text) PROVE InclusiveCut(text) <= i + Len(s)
  <2>1. s \in Found(Inclusive, text)
    BY DEF Found
  <2>2. FirstFind(s, text) <= i /\ FirstFind(s, text) \in Nat /\ i \in Nat /\ Len(s) \in Nat
    BY <1>1, <1>2, <2>1, FindsIn
  <2>3. InclusiveCut(text) <= FirstFind(s, text) + Len(s) /\ InclusiveCut(text) \in Nat
    BY <1>3, <1>4, <2>1
  <2> QED
    BY <2>2, <2>3
<1> QED
  BY <1>2, <1>5, <1>6, <1>7

\* Together the two kinds of stop strings are what the verdict looks for.
LEMMA VerdictNone ==
    ASSUME NEW text
    PROVE  /\ Verdict(text) = "none" <=> Found(Stops \cup Inclusive, text) = {}
           /\ Verdict(text) = "none" <=> Found(Stops, text) = {} /\ Found(Inclusive, text) = {}
           /\ Verdict(text) = "inclusive" <=> Found(Inclusive, text) # {}
           /\ Verdict(text) = "exclusive" =>
                 Found(Stops, text) # {} /\ Found(Inclusive, text) = {}
           /\ Verdict(text) \in {"none", "exclusive", "inclusive"}
<1>1. Found(Stops \cup Inclusive, text) = Found(Stops, text) \cup Found(Inclusive, text)
  BY DEF Found
<1> QED
  BY <1>1 DEF Verdict

\* The end of a sequence is a suffix of it.
LEMMA EndIsSuffix ==
    ASSUME NEW text \in Seq(Chars), NEW s \in Seq(Chars), Len(s) <= Len(text),
           s = SubSeq(text, Len(text) - Len(s) + 1, Len(text))
    PROVE  IsSuffix(s, text)
<1> DEFINE r == Reverse(s)
           q == Reverse(text)
           m == Len(s)
           n == Len(text)
<1>1. m \in Nat /\ n \in Nat /\ m <= n
  OBVIOUS
<1>2. \A i \in 1 .. m : s[i] = text[n - m + i]
  BY <1>1
<1>3. /\ r = [i \in 1 .. m |-> s[m - i + 1]]
      /\ q = [i \in 1 .. n |-> text[n - i + 1]]
  BY DEF Reverse
<1>4. \A i \in 1 .. m : i \in 1 .. n /\ m - i + 1 \in 1 .. m /\ n - m + (m - i + 1) = n - i + 1
  BY <1>1
<1>5. ASSUME NEW i \in 1 .. m PROVE r[i] = q[i]
  <2>1. r[i] = s[m - i + 1] /\ q[i] = text[n - i + 1]
    <3> HIDE DEF r, q, m, n
    <3> QED
      BY <1>3, <1>4
  <2>2. s[m - i + 1] = text[n - i + 1]
    <3> HIDE DEF r, q, m, n
    <3> QED
      BY <1>2, <1>4
  <2> QED
    BY <2>1, <2>2
<1>6. r \in Seq(Chars) /\ Len(r) = m /\ q \in Seq(Chars) /\ Len(q) = n
  <2>1. \A i \in 1 .. m : s[m - i + 1] \in Chars
    BY <1>1, <1>4
  <2>2. \A i \in 1 .. n : n - i + 1 \in 1 .. n /\ text[n - i + 1] \in Chars
    BY <1>1
  <2> HIDE DEF m, n, r, q
  <2>3. r \in Seq(Chars) /\ Len(r) = m
    BY <1>1, <1>3, <2>1
  <2>4. q \in Seq(Chars) /\ Len(q) = n
    BY <1>1, <1>3, <2>2
  <2> QED
    BY <2>3, <2>4
<1> HIDE DEF r, q, m, n
<1>7. SubSeq(r, 1, Len(r)) = SubSeq(q, 1, Len(r))
  BY <1>1, <1>5, <1>6
<1>8. IsPrefix(r, q)
  BY <1>1, <1>6, <1>7 DEF IsPrefix
<1> QED
  BY <1>8 DEF IsSuffix, r, q

-----------------------------------------------------------------------------
(* The actions *)

LEMMA InitHolds == TextInit => IInv
<1> SUFFICES ASSUME TextInit PROVE IInv
  OBVIOUS
<1>1. Decode(<<>>) = <<>>
  BY DecodeAssumption
<1>2. Verdict(<<>>) = "none"
  <2>1. ASSUME NEW s \in Stops \cup Inclusive PROVE Finds(s, <<>>) = {}
    <3>1. s \in Seq(Chars) /\ Len(s) \in Nat /\ Len(s) >= 1
      BY Strings
    <3>2. 0 .. Len(<<>>) - Len(s) = {}
      BY <3>1
    <3> QED
      BY <3>2 DEF Finds
  <2>2. Found(Stops \cup Inclusive, <<>>) = {}
    BY <2>1 DEF Found
  <2> QED
    BY <2>2, VerdictNone
<1>3. TextTypeOK
  BY MaxTokensAssumption DEF TextInit, TextTypeOK
<1>4. DeltasKeepPlace
  <2>1. token_ids = <<>> /\ buffer = <<>> /\ Decode(token_ids) = <<>> /\ Len(token_ids) = 0
    BY <1>1 DEF TextInit
  <2>2. ASSUME NEW k \in 0 .. 0
        PROVE  TextOfFirst(k) = <<>> /\ TextSince(k) = SubSeq(buffer, 0 + 1, Len(buffer))
    <3>1. SubSeq(token_ids, 1, k) = <<>>
      BY <2>1
    <3> QED
      BY <1>1, <2>1, <3>1 DEF TextOfFirst, TextSince
  <2>3. 0 \in 0 .. Len(buffer) /\ Len(<<>>) <= Len(<<>>)
    BY <2>1
  <2> QED
    BY <2>1, <2>2, <2>3 DEF DeltasKeepPlace
<1>5. ShownToCut
  BY <1>2 DEF TextInit, ShownToCut
<1>6. EndsWithCut /\ AnswersAfterCut
  BY DEF TextInit, EndsWithCut, AnswersAfterCut
<1> QED
  BY <1>3, <1>4, <1>5, <1>6 DEF IInv

\* One more delta: of what came since the last change it is the rest, unless it
\* is the first after one of its own.
LEMMA DeltaKeepsPlace ==
    ASSUME TextTypeOK, DeltasKeepPlace, NEW t \in TextTokens, Len(token_ids) < MaxTokens,
           token_ids' = Append(token_ids, t), buffer' = buffer \o AddToken(token_ids, t)
    PROVE  DeltasKeepPlace'
<1> DEFINE n == Len(token_ids)
           a == AddToken(token_ids, t)
           d == Decode(token_ids)
           e == Decode(Append(token_ids, t))
<1>1. /\ token_ids \in Seq(TextTokens) /\ buffer \in Seq(Chars) /\ n \in Nat /\ n <= MaxTokens
      /\ Len(token_ids') = n + 1 /\ MaxTokens \in Nat
  BY FirstTokens, MaxTokensAssumption DEF TextTypeOK
<1>2. /\ \A k \in 0 .. n : TextOfFirst(k)' = TextOfFirst(k)
      /\ \A k : k = n => TextOfFirst(k) = d
      /\ \A k : k = n + 1 => TextOfFirst(k)' = e
      /\ Decode(token_ids)' = e
  <2>1. \A k : TextOfFirst(k)' = Decode(SubSeq(Append(token_ids, t), 1, k))
    BY DEF TextOfFirst
  <2>2. /\ \A k \in 0 .. n : SubSeq(Append(token_ids, t), 1, k) = SubSeq(token_ids, 1, k)
        /\ SubSeq(token_ids, 1, n) = token_ids
        /\ SubSeq(Append(token_ids, t), 1, n + 1) = Append(token_ids, t)
    BY <1>1, FirstTokens
  <2> QED
    BY <2>1, <2>2 DEF TextOfFirst
<1>3. /\ d \in Seq(Chars) /\ e \in Seq(Chars) /\ a \in Seq(Chars)
      /\ IsPrefix(d, e) => e = d \o a
  <2>1. a \in Seq(Chars) /\ (IsPrefix(d, e) => e = d \o a)
    BY <1>1, AddTokenIsText
  <2>2. Append(token_ids, t) \in Seq(TextTokens) /\ Len(Append(token_ids, t)) <= MaxTokens
    BY <1>1
  <2>3. d \in Seq(Chars) /\ e \in Seq(Chars)
    BY <1>1, <2>2, DecodeIsText
  <2> QED
    BY <2>1, <2>3
<1>4. ASSUME NEW k \in 0 .. n PROVE Len(TextOfFirst(k)) \in Nat
  BY <1>1, FirstTokens, DecodeIsText DEF TextOfFirst
<1>5. \A k \in 0 .. n + 1 : TextSince(k)' = SubSeq(e, Len(TextOfFirst(k)') + 1, Len(e))
  BY <1>2 DEF TextSince
<1>6. \A k \in 0 .. n : TextSince(k) = SubSeq(d, Len(TextOfFirst(k)) + 1, Len(d))
  BY DEF TextSince
<1> HIDE DEF a, d, e, n
<1>7. ASSUME NEW k \in 0 .. n, SettledSince(k)' PROVE SettledSince(k) /\ e = d \o a
  <2>1. \A j \in k .. n : IsPrefix(TextOfFirst(j)', TextOfFirst(j + 1)')
    BY <1>1, <1>7 DEF SettledSince
  <2>2. \A j \in k .. n - 1 : j \in 0 .. n /\ j + 1 \in 0 .. n /\ j \in k .. n
    BY <1>1, <1>7
  <2>3. \A j \in k .. n - 1 : IsPrefix(TextOfFirst(j), TextOfFirst(j + 1))
    BY <1>2, <2>1, <2>2
  <2>4. n \in k .. n /\ n \in 0 .. n
    BY <1>1, <1>7
  <2>5. IsPrefix(d, e)
    <3>1. \A j : j = n => j + 1 = n + 1
      OBVIOUS
    <3> QED
      BY <1>2, <2>1, <2>4, <3>1
  <2> QED
    BY <1>3, <2>3, <2>5 DEF SettledSince, n
<1>8. ASSUME SettledSince(0)' PROVE buffer' = Decode(token_ids)'
  <2>1. 0 \in 0 .. n
    BY <1>1
  <2>2. SettledSince(0) /\ e = d \o a
    BY <1>7, <1>8, <2>1
  <2>3. buffer = d
    BY <2>2 DEF DeltasKeepPlace, d
  <2> QED
    BY <1>2, <2>2, <2>3 DEF a
<1>9. ASSUME NEW k \in 0 .. n + 1, SettledSince(k)'
      PROVE  /\ Len(TextOfFirst(k)') <= Len(Decode(token_ids)')
             /\ \E m \in 0 .. Len(buffer') : TextSince(k)' = SubSeq(buffer', m + 1, Len(buffer'))
  <2>1. buffer' = buffer \o a /\ buffer' \in Seq(Chars) /\ Len(buffer') \in Nat
        /\ Len(buffer') = Len(buffer) + Len(a) /\ Len(a) \in Nat /\ Len(buffer) \in Nat
    BY <1>1, <1>3, Parts DEF a
  <2>2. CASE k \in 0 .. n
    <3>1. SettledSince(k) /\ e = d \o a
      BY <1>7, <1>9, <2>2
    <3>2. Len(TextOfFirst(k)) <= Len(d)
      BY <2>2, <3>1 DEF DeltasKeepPlace, d, n
    <3>3. PICK m \in 0 .. Len(buffer) : TextSince(k) = SubSeq(buffer, m + 1, Len(buffer))
      BY <2>2, <3>1 DEF DeltasKeepPlace, n
    <3> DEFINE l == Len(TextOfFirst(k))
    <3>4. l \in 0 .. Len(d) /\ Len(e) = Len(d) + Len(a) /\ Len(d) \in Nat
      BY <1>3, <1>4, <2>2, <3>1, <3>2, Parts
    <3>5. TextSince(k)' = SubSeq(e, l + 1, Len(e)) /\ TextSince(k) = SubSeq(d, l + 1, Len(d))
      BY <1>2, <1>5, <1>6, <2>2
    <3> HIDE DEF l
    <3>6. SubSeq(e, l + 1, Len(e)) = SubSeq(d, l + 1, Len(d)) \o a
      BY <1>3, <3>1, <3>4, EndGrows
    <3>7. SubSeq(buffer', m + 1, Len(buffer')) = SubSeq(buffer, m + 1, Len(buffer)) \o a
      BY <1>1, <1>3, <2>1, EndGrows
    <3>8. TextSince(k)' = SubSeq(buffer', m + 1, Len(buffer')) /\ m \in 0 .. Len(buffer')
      <4>1. m \in 0 .. Len(buffer')
        BY <2>1
      <4>2. TextSince(k)' = TextSince(k) \o a
        BY <3>5, <3>6
      <4> QED
        BY <3>3, <3>7, <4>1, <4>2
    <3>9. Len(TextOfFirst(k)') <= Len(e)
      BY <1>2, <2>1, <2>2, <3>4 DEF l
    <3> QED
      BY <1>2, <3>8, <3>9
  <2>3. CASE k = n + 1
    <3>1. TextOfFirst(k)' = e /\ Len(e) \in Nat
      <4>1. TextOfFirst(k)' = e
        BY <1>2, <2>3
      <4> QED
        BY <1>3, <4>1
    <3>2. TextSince(k)' = SubSeq(e, Len(e) + 1, Len(e))
      BY <1>5, <3>1
    <3>3. SubSeq(e, Len(e) + 1, Len(e)) = <<>>
          /\ SubSeq(buffer', Len(buffer') + 1, Len(buffer')) = <<>>
      BY <2>1, <3>1, SubSeqEmpty
    <3>4. Len(buffer') \in 0 .. Len(buffer') /\ Len(e) <= Len(e)
      BY <2>1, <3>1
    <3> QED
      BY <1>2, <3>1, <3>2, <3>3, <3>4
  <2>4. k \in 0 .. n \/ k = n + 1
    BY <1>1, <1>9
  <2> QED
    BY <2>2, <2>3, <2>4
<1> QED
  BY <1>1, <1>8, <1>9 DEF DeltasKeepPlace

\* A delta comes behind the text that has been seen and shown.  A cut the
\* exclusive strings make may lie in what was shown before, one the inclusive
\* strings make does not.
LEMMA ReceiveKeeps ==
    ASSUME IInv, NEW t \in TextTokens, Receive(t), UNCHANGED endpoint
    PROVE  IInv'
<1> DEFINE text == buffer \o AddToken(token_ids, t)
           n    == Len(buffer)
           v    == Verdict(text)
           k    == Keep(text, v)
<1>1. TextTypeOK /\ DeltasKeepPlace /\ ShownToCut /\ EndsWithCut /\ AnswersAfterCut
  BY DEF IInv
<1>2. /\ filter = "waiting" /\ source = "open" /\ stopped = "none" /\ response = "open"
      /\ verdict = "none" /\ shown = buffer
      /\ buffer \in Seq(Chars) /\ token_ids \in Seq(TextTokens)
      /\ Verdict(buffer) = "none"
  BY <1>1 DEF Receive, TextTypeOK, ShownToCut, EndsWithCut, AnswersAfterCut
<1>3. /\ token_ids' = Append(token_ids, t) /\ Len(token_ids) < MaxTokens
      /\ buffer' = text /\ verdict' = v
      /\ UNCHANGED <<endpoint, response>>
      /\ IF v = "none" \/ k > n
         THEN /\ shown' = shown \o SubSeq(text, n + 1, k)
              /\ filter' = IF v = "none" THEN "yield" ELSE "last"
              /\ UNCHANGED <<source, stopped>>
         ELSE Closed(v) /\ UNCHANGED shown
  BY DEF Receive
<1>4. AddToken(token_ids, t) \in Seq(Chars)
  BY <1>2, <1>3, AddTokenIsText
<1>5. /\ text \in Seq(Chars) /\ n \in 0 .. Len(text) /\ Len(text) \in Nat
      /\ buffer = SubSeq(text, 1, n)
  <2> DEFINE a == AddToken(token_ids, t)
  <2>1. /\ text \in Seq(Chars) /\ Len(text) = n + Len(a) /\ n \in Nat
        /\ Len(a) \in Nat /\ SubSeq(text, 1, n) = buffer
    BY <1>2, <1>4, Parts
  <2> HIDE DEF text, n, a
  <2> QED
    BY <2>1
<1>6. token_ids' \in Seq(TextTokens) /\ Len(token_ids') <= MaxTokens /\ DeltasKeepPlace'
  <2>1. token_ids' \in Seq(TextTokens) /\ Len(token_ids') <= MaxTokens
    BY <1>2, <1>3, MaxTokensAssumption
  <2>2. DeltasKeepPlace'
    BY <1>1, <1>3, DeltaKeepsPlace
  <2> QED
    BY <2>1, <2>2
<1>7. Inclusive' = Inclusive /\ \A x : Verdict(x)' = Verdict(x) /\ InclusiveCut(x)' = InclusiveCut(x)
  BY <1>3 DEF Inclusive, Verdict, InclusiveCut
<1> HIDE DEF text, n, v, k
<1>8. v = Verdict(text) /\ v \in {"none", "exclusive", "inclusive"}
  BY VerdictNone DEF v
\* What is shown, whichever way the step goes.
<1>9. ASSUME NEW m \in 0 .. Len(text), m > n
      PROVE  shown \o SubSeq(text, n + 1, m) = SubSeq(text, 1, m)
  <2>1. SubSeq(text, 1, n) \o SubSeq(text, n + 1, m) = SubSeq(text, 1, m)
    <3>1. /\ 1 \in 1 .. Len(text) + 1 /\ n \in 1 - 1 .. Len(text) /\ m \in n .. Len(text)
      BY <1>5, <1>9
    <3> QED
      BY <1>5, <3>1, ConcatAdjacentSubSeq
  <2> QED
    BY <1>2, <1>5, <2>1
<1>10. CASE v = "none"
  <2>1. k = Len(text)
    BY <1>10 DEF k, Keep
  <2>2. shown' = text
    <3>1. shown' = shown \o SubSeq(text, n + 1, Len(text))
      BY <1>3, <1>10, <2>1
    <3>2. CASE n = Len(text)
      <4>1. SubSeq(text, n + 1, Len(text)) = <<>> /\ buffer = text
        BY <1>5, <3>2, SubSeqEmpty, SubSeqFull
      <4> QED
        BY <1>2, <3>1, <4>1, ConcatEmptySeq
    <3>3. CASE n # Len(text)
      <4>1. Len(text) \in 0 .. Len(text) /\ Len(text) > n
        BY <1>5, <3>3
      <4>2. shown' = SubSeq(text, 1, Len(text))
        BY <1>9, <3>1, <4>1
      <4> QED
        BY <1>5, <4>2, SubSeqFull
    <3> QED
      BY <3>2, <3>3
  <2>3. filter' = "yield" /\ UNCHANGED <<source, stopped>>
    BY <1>3, <1>10
  <2>4. TextTypeOK'
    BY <1>1, <1>3, <1>5, <1>6, <1>8, <2>2, <2>3 DEF TextTypeOK
  <2>5. ShownToCut'
    BY <1>3, <1>6, <1>7, <1>8, <1>10, <2>2 DEF ShownToCut
  <2>6. EndsWithCut' /\ AnswersAfterCut'
    BY <1>2, <1>3, <1>10, <2>3 DEF EndsWithCut, AnswersAfterCut
  <2> QED
    BY <1>6, <2>4, <2>5, <2>6 DEF IInv
<1>11. CASE v = "inclusive"
  <2>1. k = InclusiveCut(text)
    BY <1>11 DEF k, Keep
  <2>2. Found(Inclusive, text) # {} /\ Found(Inclusive, buffer) = {}
    BY <1>2, <1>8, <1>11, VerdictNone
  <2>3. k \in 0 .. Len(text) /\ k > n
    <3>0. PICK s \in Inclusive : \E i \in Finds(s, text) : k = i + Len(s)
      BY <1>5, <2>1, <2>2, InclusiveCutIsFirst
    <3>1. PICK i \in Finds(s, text) : k = i + Len(s)
      BY <3>0
    <3>2. Inclusive \in SUBSET (Stops \cup InclusiveStops)
      BY Strings
    <3>3. i + Len(s) > n
      BY <1>5, <2>2, <3>2, FoundBehind
    <3>4. k \in 1 .. Len(text)
      BY <1>5, <2>1, <2>2, InclusiveCutIsFirst
    <3> QED
      BY <1>5, <3>1, <3>3, <3>4
  <2>4. /\ shown' = SubSeq(text, 1, k) /\ filter' = "last" /\ UNCHANGED <<source, stopped>>
    BY <1>3, <1>9, <1>11, <2>3
  <2>5. SubSeq(text, 1, k) \in Seq(Chars)
    BY <1>5, <2>3
  <2>6. TextTypeOK'
    BY <1>1, <1>3, <1>5, <1>6, <1>8, <2>4, <2>5 DEF TextTypeOK
  <2>7. ShownToCut'
    BY <1>3, <1>6, <1>7, <1>8, <1>11, <2>1, <2>4 DEF ShownToCut
  <2>8. EndsWithCut' /\ AnswersAfterCut'
    BY <1>2, <1>3, <1>11, <2>4 DEF EndsWithCut, AnswersAfterCut
  <2> QED
    BY <1>6, <2>6, <2>7, <2>8 DEF IInv
<1>12. CASE v = "exclusive"
  <2>1. k = Cut(text)
    BY <1>12 DEF k, Keep
  <2>2. Found(Stops, text) # {} /\ Found(Stops, buffer) = {}
    BY <1>2, <1>8, <1>12, VerdictNone
  <2>3. k \in 0 .. Len(text) /\ \A s \in Stops : \A i \in Finds(s, text) : k <= i
    BY <1>5, <2>1, <2>2, CutIsFirst
  <2>4. CASE k > n
    <3>1. shown' = SubSeq(text, 1, k) /\ filter' = "last" /\ UNCHANGED <<source, stopped>>
      BY <1>3, <1>9, <1>12, <2>3, <2>4
    <3>2. Found(Stops, shown') = {}
      <4>1. SUFFICES ASSUME NEW s \in Stops, NEW i \in Finds(s, SubSeq(text, 1, k)) PROVE FALSE
        BY <3>1 DEF Found
      <4>2. s \in Seq(Chars) /\ s # <<>> /\ Len(s) \in Nat /\ Len(s) >= 1
        BY Strings
      <4>3. i \in Finds(s, text) /\ i + Len(s) <= k
        BY <1>5, <2>3, <4>2, FindsInFirst
      <4>4. i \in Nat /\ k <= i /\ k \in Nat
        BY <1>5, <2>3, <4>2, <4>3, FindsIn
      <4> QED
        BY <4>2, <4>3, <4>4
    <3>3. shown' \in Seq(Chars) /\ IsPrefix(shown', text)
      BY <1>5, <2>3, <3>1 DEF IsPrefix
    <3>4. TextTypeOK'
      BY <1>1, <1>3, <1>5, <1>6, <1>8, <3>1, <3>3 DEF TextTypeOK
    <3>5. ShownToCut'
      BY <1>3, <1>6, <1>7, <1>8, <1>12, <3>2, <3>3 DEF ShownToCut
    <3>6. EndsWithCut' /\ AnswersAfterCut'
      BY <1>2, <1>3, <1>12, <3>1 DEF EndsWithCut, AnswersAfterCut
    <3> QED
      BY <1>6, <3>4, <3>5, <3>6 DEF IInv
  <2>5. CASE ~ (k > n)
    <3>1. shown' = buffer /\ filter' = "returned" /\ source' = "closed" /\ stopped' = v
      BY <1>2, <1>3, <1>12, <2>5 DEF Closed
    <3>2. IsPrefix(shown', text)
      BY <1>2, <1>5, <3>1 DEF IsPrefix, n
    <3>3. TextTypeOK'
      BY <1>1, <1>2, <1>3, <1>5, <1>6, <1>8, <3>1 DEF TextTypeOK
    <3>4. ShownToCut'
      BY <1>3, <1>6, <1>7, <1>8, <1>12, <2>2, <3>1, <3>2 DEF ShownToCut
    <3>5. EndsWithCut' /\ AnswersAfterCut'
      BY <1>2, <1>3, <3>1 DEF EndsWithCut, AnswersAfterCut
    <3> QED
      BY <1>6, <3>3, <3>4, <3>5 DEF IInv
  <2> QED
    BY <2>4, <2>5
<1> QED
  BY <1>8, <1>10, <1>11, <1>12

\* Everything else leaves the text and what is shown of it alone.
LEMMA ShownStays ==
    ASSUME DeltasKeepPlace, ShownToCut, UNCHANGED <<endpoint, token_ids, buffer, shown, verdict>>
    PROVE  DeltasKeepPlace' /\ ShownToCut'
<1>1. \A x : Verdict(x)' = Verdict(x) /\ InclusiveCut(x)' = InclusiveCut(x)
  BY DEF Verdict, InclusiveCut, Inclusive
<1>2. DeltasKeepPlace'
  BY DEF DeltasKeepPlace, SettledSince, TextSince, TextOfFirst
<1> QED
  BY <1>1, <1>2 DEF ShownToCut

\* The filter goes on after a piece of text.
LEMMA ResumeKeeps ==
    ASSUME IInv, Resume, UNCHANGED endpoint
    PROVE  IInv'
<1>1. DeltasKeepPlace' /\ ShownToCut'
  BY ShownStays DEF IInv, Resume
<1>2. TextTypeOK' /\ EndsWithCut' /\ AnswersAfterCut'
  BY DEF IInv, TextTypeOK, EndsWithCut, AnswersAfterCut, Resume
<1> QED
  BY <1>1, <1>2 DEF IInv

\* It returns after the last piece.
LEMMA ReturnKeeps ==
    ASSUME IInv, Return, UNCHANGED endpoint
    PROVE  IInv'
<1>1. DeltasKeepPlace' /\ ShownToCut'
  BY ShownStays DEF IInv, Return, Closed
<1>2. TextTypeOK' /\ EndsWithCut' /\ AnswersAfterCut'
  BY DEF IInv, TextTypeOK, EndsWithCut, AnswersAfterCut, Return, Closed
<1> QED
  BY <1>1, <1>2 DEF IInv

\* The source ends by itself, ...
LEMMA SourceEndsKeeps ==
    ASSUME IInv, SourceEnds \/ SourceRaises, UNCHANGED endpoint
    PROVE  IInv'
<1>1. DeltasKeepPlace' /\ ShownToCut'
  BY ShownStays DEF IInv, SourceEnds, SourceRaises
<1>2. TextTypeOK' /\ EndsWithCut' /\ AnswersAfterCut'
  BY DEF IInv, TextTypeOK, EndsWithCut, AnswersAfterCut, SourceEnds, SourceRaises
<1> QED
  BY <1>1, <1>2 DEF IInv

\* ... or is closed because nobody reads it any more.
LEMMA AbandonKeeps ==
    ASSUME IInv, Abandon, UNCHANGED endpoint
    PROVE  IInv'
<1>1. DeltasKeepPlace' /\ ShownToCut'
  BY ShownStays DEF IInv, Abandon
<1>2. TextTypeOK' /\ EndsWithCut' /\ AnswersAfterCut'
  BY DEF IInv, TextTypeOK, EndsWithCut, AnswersAfterCut, Abandon
<1> QED
  BY <1>1, <1>2 DEF IInv

\* The handler answers.
LEMMA RespondKeeps ==
    ASSUME IInv, Respond, UNCHANGED endpoint
    PROVE  IInv'
<1>1. DeltasKeepPlace' /\ ShownToCut'
  BY ShownStays DEF IInv, Respond
<1>2. /\ filter = "returned" /\ stopped = verdict /\ verdict \in {"none", "exclusive", "inclusive"}
      /\ UNCHANGED <<endpoint, token_ids, source, buffer, shown, filter, verdict, stopped>>
  BY DEF IInv, TextTypeOK, AnswersAfterCut, Respond
<1>3. /\ response' \in {"stop", "length", "tool_calls"}
      /\ response' = "length" => verdict = "none"
      /\ response' = "stop" => verdict # "none"
      /\ response' = "tool_calls" => verdict = "inclusive"
  BY <1>2 DEF Respond, ChatEnds, CompletionEnds
<1>4. TextTypeOK' /\ EndsWithCut' /\ AnswersAfterCut'
  BY <1>2, <1>3 DEF IInv, TextTypeOK, EndsWithCut, AnswersAfterCut
<1> QED
  BY <1>1, <1>4 DEF IInv

LEMMA StepKeeps == IInv /\ [TextNext]_textVars => IInv'
<1> SUFFICES ASSUME IInv, [TextNext]_textVars PROVE IInv'
  OBVIOUS
<1>1. CASE UNCHANGED textVars
  <2>1. DeltasKeepPlace' /\ ShownToCut'
    BY <1>1, ShownStays DEF IInv, textVars
  <2>2. TextTypeOK' /\ EndsWithCut' /\ AnswersAfterCut'
    BY <1>1 DEF IInv, TextTypeOK, EndsWithCut, AnswersAfterCut, textVars
  <2> QED
    BY <2>1, <2>2 DEF IInv
<1>2. CASE TextNext
  BY <1>2, ReceiveKeeps, ResumeKeeps, ReturnKeeps, SourceEndsKeeps, AbandonKeeps, RespondKeeps
     DEF TextNext
<1> QED
  BY <1>1, <1>2

-----------------------------------------------------------------------------
(* The theorems *)

LEMMA Invariance == TextSpec => []IInv
<1>1. TextInit => IInv
  BY InitHolds
<1>2. IInv /\ [TextNext]_textVars => IInv'
  BY StepKeeps
<1> QED
  BY <1>1, <1>2, PTL DEF TextSpec

\* Every variable has its type, whatever decode() and the stop strings are.
THEOREM TypeCorrect == TextSpec => []TextTypeOK
<1>1. IInv => TextTypeOK
  BY DEF IInv
<1> QED
  BY <1>1, Invariance, PTL

\* Whatever function decode() is, also one that changes what it rendered before
\* (detokenizer.py:4-5): the deltas are its text until it first does so, and
\* what came since it last did arrives whole; of the deltas the filter has shown
\* a first part, all of them as long as no stop string is in them
\* (detokenizer.py:24-28, stop_strings.py:59-90).
THEOREM ShownIsText == TextSpec => []NothingLost
<1>1. ASSUME IInv PROVE NothingLost
  <2>1. ShownToCut /\ DeltasKeepPlace /\ buffer \in Seq(Chars) /\ verdict = Verdict(buffer)
    BY <1>1 DEF IInv, TextTypeOK, ShownToCut
  <2>2. ASSUME NEW k \in 0 .. Len(token_ids), SettledSince(k) PROVE IsSuffix(TextSince(k), buffer)
    <3>1. PICK m \in 0 .. Len(buffer) : TextSince(k) = SubSeq(buffer, m + 1, Len(buffer))
      BY <2>1, <2>2 DEF DeltasKeepPlace
    <3> DEFINE s == SubSeq(buffer, m + 1, Len(buffer))
    <3>2. s \in Seq(Chars) /\ Len(s) = Len(buffer) - m /\ Len(buffer) \in Nat /\ m \in Nat
      BY <2>1
    <3>3. Len(s) <= Len(buffer) /\ Len(buffer) - Len(s) + 1 = m + 1
      <4> HIDE DEF s
      <4> QED
        BY <3>2
    <3>4. s = SubSeq(buffer, Len(buffer) - Len(s) + 1, Len(buffer))
      BY <3>3
    <3>5. IsSuffix(s, buffer)
      <4> HIDE DEF s
      <4> QED
        BY <2>1, <3>2, <3>3, <3>4, EndIsSuffix
    <3> QED
      BY <3>1, <3>5
  <2>3. IsPrefix(shown, buffer) /\ (Found(Stops \cup Inclusive, buffer) = {} => shown = buffer)
    <3>1. CASE verdict = "none"
      <4>1. shown = buffer
        BY <2>1, <3>1 DEF ShownToCut
      <4> QED
        BY <2>1, <4>1 DEF IsPrefix
    <3>2. CASE verdict = "exclusive"
      BY <2>1, <3>2, VerdictNone DEF ShownToCut
    <3>3. CASE verdict = "inclusive"
      <4>1. Found(Inclusive, buffer) # {} /\ Found(Stops \cup Inclusive, buffer) # {}
        BY <2>1, <3>3, VerdictNone
      <4>2. shown = SubSeq(buffer, 1, InclusiveCut(buffer)) /\ InclusiveCut(buffer) \in 1 .. Len(buffer)
        BY <2>1, <3>3, <4>1, InclusiveCutIsFirst DEF ShownToCut
      <4>3. IsPrefix(shown, buffer)
        BY <2>1, <4>2 DEF IsPrefix
      <4> QED
        BY <4>1, <4>3
    <3>4. verdict \in {"none", "exclusive", "inclusive"}
      BY <2>1, VerdictNone
    <3> QED
      BY <3>1, <3>2, <3>3, <3>4
  <2> QED
    BY <2>1, <2>2, <2>3 DEF NothingLost, DeltasKeepPlace
<1> QED
  BY <1>1, Invariance, PTL

\* The filter never asks for a token after the one that completes a stop
\* string of the deltas, however they cut it.
THEOREM StopIsSeenAtOnce == TextSpec => []StopsAtOnce
<1>1. IInv => StopsAtOnce
  BY VerdictNone DEF IInv, ShownToCut, EndsWithCut, StopsAtOnce
<1> QED
  BY <1>1, Invariance, PTL

\* No exclusive stop string is ever shown whole.
THEOREM StopIsHidden == TextSpec => []StopNeverShown
<1>1. ASSUME IInv PROVE StopNeverShown
  <2>1. /\ ShownToCut /\ verdict = Verdict(buffer)
    BY <1>1 DEF IInv, ShownToCut
  <2>2. verdict = "none" => Found(Stops, shown) = {}
    BY <2>1, VerdictNone DEF ShownToCut
  <2>3. verdict \in {"none", "exclusive", "inclusive"}
    BY <2>1, VerdictNone
  <2> QED
    BY <2>1, <2>2, <2>3 DEF ShownToCut, StopNeverShown
<1> QED
  BY <1>1, Invariance, PTL

\* A tool call is shown up to the end of its closing tag and no further.
THEOREM TagIsWhole == TextSpec => []TagSurvives
<1>1. ASSUME IInv, stopped = "inclusive"
      PROVE  /\ \E s \in Inclusive : IsSuffix(s, shown)
             /\ Found(Inclusive, Front(shown)) = {}
  <2> DEFINE k == InclusiveCut(buffer)
  <2>1. /\ verdict = "inclusive" /\ buffer \in Seq(Chars) /\ Found(Inclusive, buffer) # {}
        /\ shown = SubSeq(buffer, 1, k)
    BY <1>1, Strings, VerdictNone DEF IInv, TextTypeOK, ShownToCut, EndsWithCut
  <2>2. /\ \E s \in Inclusive : \E i \in Finds(s, buffer) : k = i + Len(s)
        /\ \A s \in Inclusive : \A i \in Finds(s, buffer) : k <= i + Len(s)
        /\ k \in 1 .. Len(buffer)
    BY <2>1, InclusiveCutIsFirst
  <2> HIDE DEF k
  <2>3. shown \in Seq(Chars) /\ Len(shown) = k /\ \A j \in 1 .. k : shown[j] = buffer[j]
    BY <2>1, <2>2
  <2>0. PICK s \in Inclusive : \E i \in Finds(s, buffer) : k = i + Len(s)
    BY <2>2
  <2>4. PICK i \in Finds(s, buffer) : k = i + Len(s)
    BY <2>0
  <2>5. IsSuffix(s, shown)
    <3>1. s \in Seq(Chars) /\ s # <<>> /\ Len(s) \in Nat
      BY Strings
    <3>2. k \in 0 .. Len(buffer) /\ i \in Nat /\ i + Len(s) <= k
      BY <2>1, <2>2, <2>4, <3>1, FindsIn
    <3>3. i \in Finds(s, shown)
      BY <2>1, <3>1, <3>2, FindsInFirst
    <3>4. s = SubSeq(shown, i + 1, i + Len(s))
      BY <3>3 DEF Finds
    <3>5. Len(s) <= Len(shown) /\ i + 1 = Len(shown) - Len(s) + 1 /\ i + Len(s) = Len(shown)
      BY <2>3, <2>4, <3>1, <3>2
    <3>6. s = SubSeq(shown, Len(shown) - Len(s) + 1, Len(shown))
      BY <3>4, <3>5
    <3> QED
      BY <2>3, <3>1, <3>5, <3>6, EndIsSuffix
  <2>6. Found(Inclusive, Front(shown)) = {}
    <3>1. Front(shown) = SubSeq(buffer, 1, k - 1)
      BY <2>1, <2>2, <2>3 DEF Front
    <3>2. SUFFICES ASSUME NEW r \in Inclusive, NEW j \in Finds(r, SubSeq(buffer, 1, k - 1))
                   PROVE  FALSE
      BY <3>1 DEF Found
    <3>3. r \in Seq(Chars) /\ r # <<>> /\ Len(r) \in Nat
      BY Strings
    <3>4. k - 1 \in 0 .. Len(buffer)
      BY <2>2
    <3>5. j \in Finds(r, buffer) /\ j + Len(r) <= k - 1
      BY <2>1, <3>3, <3>4, FindsInFirst
    <3>6. j \in Nat /\ k <= j + Len(r) /\ k \in Nat
      BY <2>1, <2>2, <3>3, <3>5, FindsIn
    <3> QED
      BY <3>3, <3>5, <3>6
  <2> QED
    BY <2>5, <2>6
<1>2. IInv => TagSurvives
  BY <1>1 DEF TagSurvives
<1> QED
  BY <1>2, Invariance, PTL

\* However the filter ends, the engine's generator is not left suspended with
\* its sequence and its cache blocks (stop_strings.py:15-21).
THEOREM SourceIsReleased == TextSpec => []SourceReleased
<1>1. IInv => SourceReleased
  BY DEF IInv, EndsWithCut, SourceReleased
<1> QED
  BY <1>1, Invariance, PTL

\* finish_reason agrees with the text (server.py:422, 453, 541 and 560).
THEOREM ResponseIsTrue == TextSpec => []StopIsReported
<1>1. IInv => StopIsReported
  BY VerdictNone DEF IInv, ShownToCut, AnswersAfterCut, StopIsReported
<1> QED
  BY <1>1, Invariance, PTL
=============================================================================
