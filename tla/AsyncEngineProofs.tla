-------------------------- MODULE AsyncEngineProofs --------------------------
(***************************************************************************)
(* Proofs about AsyncEngine, for every number of calls, length of output,  *)
(* and gain of a step.                                                     *)
(*                                                                         *)
(* Everything rests on who is listed in _queues: a listed request has a    *)
(* caller that listens, a sequence as long as the loop is alive, and only  *)
(* tokens in its queue; so an end marker is met only after the entry is    *)
(* gone, and nothing is left behind when it is.                            *)
(***************************************************************************)
EXTENDS AsyncEngine, SequenceTheorems, TLAPS

\* The end marker is put into a queue when its entry is dropped.
QueueTokens ==
    \A r \in Reqs : listed[r] => \A i \in 1 .. Len(queue[r]) : queue[r][i].kind = "token"

\* A call that has not been made has left no trace.
NewcomersClean ==
    \A r \in Reqs : client[r] = "new" => queue[r] = <<>> /\ got[r] = <<>> /\ reported[r] = 0 /\ out[r] = 0

IInv == TypeOK /\ NoOrphans /\ QueueTokens /\ NewcomersClean

-----------------------------------------------------------------------------
(* Sequences of items *)

\* The bounds are numbers.
LEMMA BoundsType == MaxNew \in Nat /\ MaxGain \in Nat /\ MaxPreempt \in Nat /\ MaxGain >= 1 /\ MaxNew >= 1
BY BoundsAssumption

\* What can be in a queue.
LEMMA ItemsType ==
    /\ Done \in Items /\ Failure \in Items /\ Done # Failure
    /\ Done.kind # "token" /\ Failure.kind # "token"
    /\ \A i \in 1 .. MaxNew : Token(i) \in Items /\ Token(i).kind = "token"
BY BoundsType DEF Items, Done, Failure, Token

\* The slice of new tokens that _on_token pushes.
LEMMA TokensAfterType ==
    ASSUME NEW m \in 0 .. MaxNew, NEW n \in 0 .. MaxNew, m <= n
    PROVE  /\ TokensAfter(m, n) \in Seq(Items)
           /\ Len(TokensAfter(m, n)) = n - m
           /\ \A i \in 1 .. n - m : TokensAfter(m, n)[i] = Token(m + i)
<1> DEFINE k == n - m
<1>1. m \in Nat /\ n \in Nat /\ k \in Nat /\ k = IF n > m THEN n - m ELSE 0
  BY BoundsType
<1>2. \A i \in 1 .. k : Token(m + i) \in Items
  <2> SUFFICES ASSUME NEW i \in 1 .. k PROVE Token(m + i) \in Items
    OBVIOUS
  <2>1. m + i \in 1 .. MaxNew
    BY <1>1, BoundsType
  <2> QED
    BY <2>1, ItemsType
<1>3. TokensAfter(m, n) = [i \in 1 .. k |-> Token(m + i)]
  BY <1>1 DEF TokensAfter
<1> HIDE DEF k
<1>4. [i \in 1 .. k |-> Token(m + i)] \in Seq(Items)
  BY <1>1, <1>2, SeqDef
<1>5. Len([i \in 1 .. k |-> Token(m + i)]) = k
  BY <1>1, <1>4
<1> QED
  BY <1>3, <1>4, <1>5 DEF k

\* Whatever the two counts are, only tokens are pushed: none when the output
\* has become shorter.
LEMMA SliceTokens ==
    ASSUME NEW m \in 0 .. MaxNew, NEW n \in 0 .. MaxNew
    PROVE  /\ TokensAfter(m, n) \in Seq(Items)
           /\ \A i \in 1 .. Len(TokensAfter(m, n)) : TokensAfter(m, n)[i].kind = "token"
<1>1. m \in Nat /\ n \in Nat
  BY BoundsType
<1>2. CASE m <= n
  <2>1. /\ TokensAfter(m, n) \in Seq(Items)
        /\ Len(TokensAfter(m, n)) = n - m
        /\ \A i \in 1 .. n - m : TokensAfter(m, n)[i] = Token(m + i)
    BY <1>2, TokensAfterType
  <2>2. \A i \in 1 .. n - m : Token(m + i).kind = "token"
    BY DEF Token
  <2> QED
    BY <2>1, <2>2
<1>3. CASE m > n
  <2>1. TokensAfter(m, n) = [i \in 1 .. 0 |-> Token(m + i)]
    BY <1>1, <1>3 DEF TokensAfter
  <2>2. TokensAfter(m, n) = << >>
    BY <2>1
  <2> QED
    BY <2>2, EmptySeq
<1> QED
  BY <1>1, <1>2, <1>3

\* ... and what it is from the start.
LEMMA FirstTokens ==
    ASSUME NEW n \in 0 .. MaxNew
    PROVE  /\ TokensAfter(0, n) \in Seq(Items)
           /\ Len(TokensAfter(0, n)) = n
           /\ \A i \in 1 .. n : TokensAfter(0, n)[i] = Token(i)
<1>1. 0 \in 0 .. MaxNew /\ 0 <= n /\ n \in Nat
  BY BoundsType
<1>2. /\ TokensAfter(0, n) \in Seq(Items)
      /\ Len(TokensAfter(0, n)) = n - 0
      /\ \A i \in 1 .. n - 0 : TokensAfter(0, n)[i] = Token(0 + i)
  BY <1>1, TokensAfterType
<1> QED
  BY <1>1, <1>2

\* Tokens of two slices, one beginning where the other ends.
LEMMA TokensAfterConcat ==
    ASSUME NEW m \in 0 .. MaxNew, NEW n \in 0 .. MaxNew, m <= n
    PROVE  TokensAfter(0, m) \o TokensAfter(m, n) = TokensAfter(0, n)
<1>1. m \in Nat /\ n \in Nat
  BY BoundsType
<1> DEFINE a == TokensAfter(0, m)
           b == TokensAfter(m, n)
           c == TokensAfter(0, n)
<1>2. /\ a \in Seq(Items) /\ Len(a) = m
      /\ \A i \in 1 .. m : a[i] = Token(i)
  BY FirstTokens
<1>3. /\ b \in Seq(Items) /\ Len(b) = n - m
      /\ \A i \in 1 .. n - m : b[i] = Token(m + i)
  BY TokensAfterType
<1>4. /\ c \in Seq(Items) /\ Len(c) = n
      /\ \A i \in 1 .. n : c[i] = Token(i)
  BY FirstTokens
<1> HIDE DEF a, b, c
<1>5. /\ a \o b \in Seq(Items) /\ Len(a \o b) = Len(a) + Len(b)
      /\ \A i \in 1 .. Len(a) + Len(b) : (a \o b)[i] = IF i <= Len(a) THEN a[i] ELSE b[i - Len(a)]
  BY <1>2, <1>3, ConcatProperties
<1>6. Len(a) + Len(b) = n
  BY <1>1, <1>2, <1>3
<1>7. \A i \in 1 .. n : (a \o b)[i] = c[i]
  <2> SUFFICES ASSUME NEW i \in 1 .. n PROVE (a \o b)[i] = c[i]
    OBVIOUS
  <2>1. CASE i <= m
    BY <2>1, <1>1, <1>2, <1>4, <1>5, <1>6
  <2>2. CASE ~(i <= m)
    <3>1. i - m \in 1 .. n - m /\ m + (i - m) = i
      BY <2>2, <1>1
    <3>2. (a \o b)[i] = b[i - m]
      BY <2>2, <1>2, <1>5, <1>6
    <3> QED
      BY <3>1, <3>2, <1>3, <1>4
  <2> QED
    BY <2>1, <2>2
<1>8. a \o b = c
  BY <1>4, <1>5, <1>6, <1>7, SeqEqual
<1> QED
  BY <1>8 DEF a, b, c

\* Where the brackets are does not matter.
LEMMA ItemsAssociative ==
    ASSUME NEW s \in Seq(Items), NEW t \in Seq(Items), NEW u \in Seq(Items)
    PROVE  s \o (t \o u) = (s \o t) \o u
<1> DEFINE S == Items
<1> HIDE DEF S
<1>1. s \in Seq(S) /\ t \in Seq(S) /\ u \in Seq(S)
  BY DEF S
<1> QED
  BY <1>1, ConcatAssociative

\* Tokens behind tokens.
LEMMA TokensConcat ==
    ASSUME NEW s \in Seq(Items), NEW t \in Seq(Items),
           \A i \in 1 .. Len(s) : s[i].kind = "token",
           \A i \in 1 .. Len(t) : t[i].kind = "token"
    PROVE  s \o t \in Seq(Items) /\ \A i \in 1 .. Len(s \o t) : (s \o t)[i].kind = "token"
<1>1. /\ s \o t \in Seq(Items) /\ Len(s \o t) = Len(s) + Len(t)
      /\ \A i \in 1 .. Len(s) + Len(t) : (s \o t)[i] = IF i <= Len(s) THEN s[i] ELSE t[i - Len(s)]
  BY ConcatProperties
<1>2. Len(s) \in Nat /\ Len(t) \in Nat
  BY EmptySeq
<1>3. ASSUME NEW i \in 1 .. Len(s) + Len(t) PROVE (s \o t)[i].kind = "token"
  <2>1. CASE i <= Len(s)
    BY <2>1, <1>1, <1>2
  <2>2. CASE ~(i <= Len(s))
    <3>1. i - Len(s) \in 1 .. Len(t)
      BY <2>2, <1>2
    <3> QED
      BY <3>1, <2>2, <1>1
  <2> QED
    BY <2>1, <2>2
<1> QED
  BY <1>1, <1>3

\* Handing over the head of the queue does not change what was pushed.
LEMMA HandOver ==
    ASSUME NEW s \in Seq(Items), NEW t \in Seq(Items), t # <<>>
    PROVE  Append(s, Head(t)) \o Tail(t) = s \o t
<1>1. Head(t) \in Items /\ Tail(t) \in Seq(Items) /\ Len(Tail(t)) = Len(t) - 1 /\ Head(t) = t[1]
      /\ \A i \in 1 .. Len(Tail(t)) : Tail(t)[i] = t[i + 1]
  BY HeadTailProperties
<1>2. Len(t) \in Nat /\ Len(t) # 0 /\ Len(s) \in Nat
  BY EmptySeq
<1> DEFINE a == Append(s, Head(t))
           b == Tail(t)
<1>3. a \in Seq(Items) /\ Len(a) = Len(s) + 1 /\ a[Len(s) + 1] = t[1] /\ \A i \in 1 .. Len(s) : a[i] = s[i]
  BY <1>1, AppendProperties
<1>4. b \in Seq(Items) /\ Len(b) = Len(t) - 1 /\ \A i \in 1 .. Len(t) - 1 : b[i] = t[i + 1]
  BY <1>1
<1> HIDE DEF a, b
<1>5. /\ a \o b \in Seq(Items) /\ Len(a \o b) = Len(a) + Len(b)
      /\ \A i \in 1 .. Len(a) + Len(b) : (a \o b)[i] = IF i <= Len(a) THEN a[i] ELSE b[i - Len(a)]
  BY <1>3, <1>4, ConcatProperties
<1>6. /\ s \o t \in Seq(Items) /\ Len(s \o t) = Len(s) + Len(t)
      /\ \A i \in 1 .. Len(s) + Len(t) : (s \o t)[i] = IF i <= Len(s) THEN s[i] ELSE t[i - Len(s)]
  BY ConcatProperties
<1>7. Len(a) + Len(b) = Len(s) + Len(t)
  BY <1>2, <1>3, <1>4
<1>8. \A i \in 1 .. Len(s) + Len(t) : (a \o b)[i] = (s \o t)[i]
  <2> SUFFICES ASSUME NEW i \in 1 .. Len(s) + Len(t) PROVE (a \o b)[i] = (s \o t)[i]
    OBVIOUS
  <2>1. CASE i <= Len(s)
    BY <2>1, <1>2, <1>3, <1>5, <1>6, <1>7
  <2>2. CASE i = Len(s) + 1
    <3>1. i - Len(s) = 1 /\ ~(i <= Len(s)) /\ i <= Len(a)
      BY <2>2, <1>2, <1>3
    <3> QED
      BY <3>1, <2>2, <1>3, <1>5, <1>6, <1>7
  <2>3. CASE i > Len(s) + 1
    <3>1. /\ i - (Len(s) + 1) \in 1 .. Len(t) - 1 /\ (i - (Len(s) + 1)) + 1 = i - Len(s)
          /\ ~(i <= Len(s)) /\ ~(i <= Len(s) + 1)
      BY <2>3, <1>2
    <3>2. (a \o b)[i] = b[i - (Len(s) + 1)] /\ (s \o t)[i] = t[i - Len(s)]
      BY <3>1, <1>3, <1>5, <1>6, <1>7
    <3> QED
      BY <3>1, <3>2, <1>4
  <2>4. i <= Len(s) \/ i = Len(s) + 1 \/ i > Len(s) + 1
    BY <1>2
  <2> QED
    BY <2>1, <2>2, <2>3, <2>4
<1>9. a \o b = s \o t
  BY <1>5, <1>6, <1>7, <1>8, SeqEqual
<1> QED
  BY <1>9 DEF a, b

-----------------------------------------------------------------------------
(* Steps *)

\* An engine that nobody has called yet.
LEMMA InitInvariant ==
    ASSUME Init
    PROVE  IInv
<1>1. << >> \in Seq(Items) /\ 0 \in 0 .. MaxNew /\ 0 \in 0 .. MaxPreempt /\ Len(<< >>) = 0
  BY EmptySeq, BoundsType
<1>2. TypeOK
  BY <1>1 DEF Init, TypeOK
<1>3. NoOrphans
  BY DEF Init, NoOrphans
<1>4. QueueTokens /\ NewcomersClean
  BY DEF Init, QueueTokens, NewcomersClean
<1> QED
  BY <1>2, <1>3, <1>4 DEF IInv

\* generate() up to its first await (async_engine.py:140-176).
LEMMA GenerateStep ==
    ASSUME IInv, NEW r \in Reqs, Generate(r)
    PROVE  IInv'
<1> USE DEF IInv
<1>1. TypeOK'
  BY DEF TypeOK, Generate, beamVars
<1>2. NoOrphans'
  BY DEF TypeOK, NoOrphans, Generate, beamVars
<1>3. QueueTokens'
  <2>1. Len(queue[r]) = 0
    BY EmptySeq DEF NewcomersClean, Generate
  <2>2. \A q \in Reqs : q # r => listed'[q] = listed[q]
    BY DEF Generate
  <2> QED
    BY <2>1, <2>2 DEF QueueTokens, Generate, beamVars
<1>4. NewcomersClean'
  BY DEF TypeOK, NewcomersClean, Generate, beamVars
<1> QED
  BY <1>1, <1>2, <1>3, <1>4

\* queue.get() returns a delta (async_engine.py:175-184).
LEMMA ReceiveTokenStep ==
    ASSUME IInv, NEW r \in Reqs, ReceiveToken(r)
    PROVE  IInv'
<1> USE DEF IInv
<1>1. queue[r] \in Seq(Items) /\ got[r] \in Seq(Items) /\ queue[r] # <<>>
  BY DEF TypeOK, ReceiveToken
<1>2. /\ Head(queue[r]) \in Items /\ Tail(queue[r]) \in Seq(Items)
      /\ Len(Tail(queue[r])) = Len(queue[r]) - 1
      /\ \A i \in 1 .. Len(Tail(queue[r])) : Tail(queue[r])[i] = queue[r][i + 1]
  BY <1>1, HeadTailProperties
<1>3. Append(got[r], Head(queue[r])) \in Seq(Items)
  BY <1>1, <1>2, AppendProperties
<1>4. TypeOK'
  BY <1>2, <1>3 DEF TypeOK, ReceiveToken, schedVars, beamVars
<1>5. NoOrphans'
  BY DEF NoOrphans, ReceiveToken, schedVars, beamVars
<1>6. QueueTokens'
  <2> SUFFICES ASSUME NEW q \in Reqs, listed'[q], NEW i \in 1 .. Len(queue'[q])
               PROVE  queue'[q][i].kind = "token"
    BY DEF QueueTokens
  <2>1. listed[q]
    BY DEF ReceiveToken
  <2>2. CASE q = r
    <3>1. queue'[r] = Tail(queue[r])
      BY DEF TypeOK, ReceiveToken
    <3>2. i \in 1 .. Len(Tail(queue[r])) /\ i + 1 \in 1 .. Len(queue[r])
      BY <1>1, <1>2, <2>2, <3>1, EmptySeq
    <3> QED
      BY <1>2, <2>1, <2>2, <3>1, <3>2 DEF QueueTokens
  <2>3. CASE q # r
    <3>1. queue'[q] = queue[q]
      BY <2>3 DEF TypeOK, ReceiveToken
    <3> QED
      BY <2>1, <3>1 DEF QueueTokens
  <2> QED
    BY <2>2, <2>3
<1>7. NewcomersClean'
  <2>1. \A q \in Reqs : client[q] = "new" => q # r
    BY DEF ReceiveToken
  <2> QED
    BY <2>1 DEF TypeOK, NewcomersClean, ReceiveToken, schedVars, beamVars
<1> QED
  BY <1>4, <1>5, <1>6, <1>7

\* Whoever meets the end of a stream is no longer listed.
LEMMA EndIsUnlisted ==
    ASSUME IInv, NEW r \in Reqs, queue[r] # <<>>, Head(queue[r]).kind # "token"
    PROVE  ~listed[r]
<1>1. queue[r] \in Seq(Items) /\ Len(queue[r]) \in Nat \ {0}
  BY EmptySeq DEF IInv, TypeOK
<1>2. 1 \in 1 .. Len(queue[r]) /\ Head(queue[r]) = queue[r][1]
  BY <1>1
<1> QED
  BY <1>2 DEF IInv, QueueTokens

\* ... or the end of the stream comes (async_engine.py:175-193).
LEMMA ReceiveEndStep ==
    ASSUME IInv, NEW r \in Reqs, ReceiveEnd(r)
    PROVE  IInv'
<1> USE DEF IInv
<1>1. queue[r] \in Seq(Items) /\ queue[r] # <<>> /\ ~listed[r]
  BY EndIsUnlisted DEF TypeOK, ReceiveEnd
<1>2. Tail(queue[r]) \in Seq(Items)
  BY <1>1, HeadTailProperties
<1>3. 0 \in 0 .. MaxNew
  BY BoundsType
<1>4. TypeOK'
  BY <1>2, <1>3 DEF TypeOK, ReceiveEnd, Forget, schedVars, beamVars
<1>5. \A q \in Reqs : listed'[q] = listed[q]
  BY <1>1 DEF TypeOK, ReceiveEnd, Forget
<1>6. NoOrphans'
  BY <1>1, <1>5 DEF TypeOK, NoOrphans, ReceiveEnd, Forget, schedVars, beamVars
<1>7. QueueTokens'
  BY <1>1, <1>5 DEF TypeOK, QueueTokens, ReceiveEnd
<1>8. NewcomersClean'
  BY DEF TypeOK, NewcomersClean, ReceiveEnd, Forget, schedVars, beamVars
<1> QED
  BY <1>4, <1>6, <1>7, <1>8

\* The consumer closes the generator (async_engine.py:185-193).
LEMMA CloseStep ==
    ASSUME IInv, NEW r \in Reqs, Close(r)
    PROVE  IInv'
<1> USE DEF IInv
<1>1. << >> \in Seq(Items) /\ Len(<< >>) = 0 /\ 0 \in 0 .. MaxNew
  BY EmptySeq, BoundsType
<1>2. TypeOK'
  BY <1>1 DEF TypeOK, Close, Cancel, Forget, beamVars
<1>3. ~listed'[r] /\ r \notin active' /\ reported'[r] = 0
  BY DEF TypeOK, Close, Cancel, Forget
<1>4. \A q \in Reqs \ {r} :
        /\ listed'[q] = listed[q] /\ (q \in active' <=> q \in active)
        /\ client'[q] = client[q] /\ reported'[q] = reported[q] /\ queue'[q] = queue[q]
  BY DEF TypeOK, Close, Cancel, Forget
<1>5. NoOrphans'
  BY <1>3, <1>4 DEF NoOrphans, Close
<1>6. QueueTokens'
  BY <1>3, <1>4 DEF QueueTokens
<1>7. NewcomersClean'
  BY <1>4 DEF TypeOK, NewcomersClean, Close, beamVars
<1> QED
  BY <1>2, <1>5, <1>6, <1>7

\* What a step of the loop does, request by request (async_engine.py:80-95):
\* those of U have got tokens, those of fin have finished.
StepEffect(U, fin) ==
    /\ loop = "running" /\ loop' = loop /\ client' = client /\ got' = got
    /\ fin \subseteq U /\ U \subseteq active /\ active' = active \ fin
    /\ out' \in [Reqs -> 0 .. MaxNew]
    /\ \A r \in Reqs : r \notin active => out'[r] = out[r]
    /\ EnableSwap => \A r \in Reqs : out[r] <= out'[r] /\ (r \notin U => out'[r] = out[r])
    /\ OnToken(U, fin, out')

\* A step has that effect: the tokens of a sequence are counted within
\* max_new_tokens, and only recomputation takes any back.
LEMMA StepHasEffect ==
    ASSUME IInv, NEW U \in SUBSET Reqs, NEW P \in SUBSET Reqs, NEW D \in SUBSET Groups, Step(U, P, D)
    PROVE  \E fin \in SUBSET U : StepEffect(U, fin)
<1>1. PICK gain \in [U -> 1 .. MaxGain], fin \in SUBSET U :
        LET n == [r \in Reqs |-> IF r \in U THEN out[r] + gain[r]
                                 ELSE IF r \in P /\ ~EnableSwap THEN 0
                                 ELSE out[r]] IN
        /\ \A r \in U : n[r] <= MaxNew /\ (n[r] = MaxNew => r \in fin)
        /\ out' = n
        /\ OnToken(U, fin, n)
        /\ active' = active \ fin
  BY DEF Step
<1> DEFINE n == [r \in Reqs |-> IF r \in U THEN out[r] + gain[r]
                                ELSE IF r \in P /\ ~EnableSwap THEN 0
                                ELSE out[r]]
<1>2. out' = n /\ OnToken(U, fin, n) /\ active' = active \ fin /\ \A r \in U : n[r] <= MaxNew
  BY <1>1
<1>3. \A r \in Reqs : n[r] = IF r \in U THEN out[r] + gain[r]
                             ELSE IF r \in P /\ ~EnableSwap THEN 0 ELSE out[r]
  OBVIOUS
<1>4. n = [r \in Reqs |-> n[r]]
  OBVIOUS
<1> HIDE DEF n
<1>5. \A r \in Reqs : n[r] \in 0 .. MaxNew
  <2> SUFFICES ASSUME NEW r \in Reqs PROVE n[r] \in 0 .. MaxNew
    OBVIOUS
  <2>1. out[r] \in 0 .. MaxNew /\ 0 \in 0 .. MaxNew
    BY BoundsType DEF IInv, TypeOK
  <2>2. CASE r \in U
    <3>1. gain[r] \in 1 .. MaxGain /\ n[r] = out[r] + gain[r] /\ n[r] <= MaxNew
      BY <1>2, <1>3, <2>2
    <3> QED
      BY <2>1, <3>1, BoundsType
  <2>3. CASE r \notin U
    BY <1>3, <2>1, <2>3
  <2> QED
    BY <2>2, <2>3
<1>6. n \in [Reqs -> 0 .. MaxNew]
  BY <1>4, <1>5
<1>7. /\ loop = "running" /\ loop' = loop /\ client' = client /\ got' = got
      /\ U \cup P \subseteq active
  BY DEF Step, callVars
<1>8. \A r \in Reqs : r \notin active => n[r] = out[r]
  BY <1>3, <1>7
<1>9. ASSUME EnableSwap, NEW r \in Reqs
      PROVE  out[r] <= n[r] /\ (r \notin U => n[r] = out[r])
  <2>1. out[r] \in 0 .. MaxNew
    BY DEF IInv, TypeOK
  <2>2. CASE r \in U
    <3>1. gain[r] \in 1 .. MaxGain /\ n[r] = out[r] + gain[r]
      BY <1>3, <2>2
    <3> QED
      BY <2>1, <2>2, <3>1, BoundsType
  <2>3. CASE r \notin U
    <3>1. n[r] = out[r]
      BY <1>3, <1>9, <2>3
    <3> QED
      BY <2>1, <3>1, BoundsType
  <2> QED
    BY <2>2, <2>3
<1> QED
  BY <1>2, <1>6, <1>7, <1>8, <1>9 DEF StepEffect

\* What it pushes goes to sequences that are listed, and whoever finishes is
\* unlisted as it leaves.
LEMMA StepKeeps ==
    ASSUME IInv, NEW U \in SUBSET Reqs, NEW P \in SUBSET Reqs, NEW D \in SUBSET Groups, Step(U, P, D)
    PROVE  IInv'
<1> USE DEF IInv
<1>1. PICK fin \in SUBSET U : StepEffect(U, fin)
  BY StepHasEffect
<1>2. /\ loop = "running" /\ loop' = loop /\ client' = client /\ got' = got
      /\ U \subseteq active /\ active' = active \ fin
      /\ out' \in [Reqs -> 0 .. MaxNew]
      /\ \A r \in Reqs : r \notin active => out'[r] = out[r]
  BY <1>1 DEF StepEffect
<1>3. /\ queue' = [r \in Reqs |->
            IF r \in U /\ listed[r]
            THEN queue[r] \o TokensAfter(reported[r], out'[r]) \o (IF r \in fin THEN <<Done>> ELSE <<>>)
            ELSE queue[r]]
      /\ reported' = [r \in Reqs |->
            IF r \in U /\ listed[r] THEN (IF r \in fin THEN 0 ELSE out'[r]) ELSE reported[r]]
      /\ listed' = [r \in Reqs |-> listed[r] /\ r \notin fin]
  BY <1>1 DEF StepEffect, OnToken
<1>4. \A r \in Reqs : r \in active <=> listed[r]
  BY <1>2 DEF NoOrphans
<1>5. ASSUME NEW r \in Reqs, r \in U, listed[r]
      PROVE  /\ queue'[r] \in Seq(Items)
             /\ r \notin fin => \A i \in 1 .. Len(queue'[r]) : queue'[r][i].kind = "token"
  <2> DEFINE t == TokensAfter(reported[r], out'[r])
  <2>1. queue'[r] = queue[r] \o t \o (IF r \in fin THEN <<Done>> ELSE <<>>)
    BY <1>3, <1>5
  <2>2. t \in Seq(Items) /\ \A i \in 1 .. Len(t) : t[i].kind = "token"
    <3>1. reported[r] \in 0 .. MaxNew /\ out'[r] \in 0 .. MaxNew
      BY <1>2 DEF TypeOK
    <3> QED
      BY <3>1, SliceTokens
  <2>3. queue[r] \in Seq(Items) /\ \A i \in 1 .. Len(queue[r]) : queue[r][i].kind = "token"
    BY <1>5 DEF TypeOK, QueueTokens
  <2> HIDE DEF t
  <2>4. queue[r] \o t \in Seq(Items) /\ \A i \in 1 .. Len(queue[r] \o t) : (queue[r] \o t)[i].kind = "token"
    BY <2>2, <2>3, TokensConcat
  <2>5. CASE r \in fin
    <3>1. <<Done>> \in Seq(Items)
      BY ItemsType
    <3>2. (queue[r] \o t) \o <<Done>> \in Seq(Items)
      BY <2>4, <3>1, ConcatProperties
    <3> QED
      BY <2>1, <2>5, <3>2
  <2>6. CASE r \notin fin
    <3>1. (queue[r] \o t) \o << >> = queue[r] \o t
      BY <2>4, ConcatEmptySeq
    <3> QED
      BY <2>1, <2>4, <2>6, <3>1
  <2> QED
    BY <2>5, <2>6
<1>6. \A r \in Reqs : ~(r \in U /\ listed[r]) => queue'[r] = queue[r] /\ reported'[r] = reported[r]
  BY <1>3
<1>7. TypeOK'
  <2>1. queue' \in [Reqs -> Seq(Items)]
    <3>1. \A r \in Reqs : queue'[r] \in Seq(Items)
      BY <1>5, <1>6 DEF TypeOK
    <3>2. queue' = [r \in Reqs |-> queue'[r]]
      BY <1>3
    <3> QED
      BY <3>1, <3>2
  <2>2. reported' \in [Reqs -> 0 .. MaxNew]
    BY <1>2, <1>3, BoundsType DEF TypeOK
  <2>3. preempted' \in [Reqs -> 0 .. MaxPreempt]
    <3>1. /\ preempted' = [r \in Reqs |-> IF r \in P THEN preempted[r] + 1 ELSE preempted[r]]
          /\ \A r \in P : preempted[r] < MaxPreempt
      BY DEF Step
    <3> QED
      BY <3>1, BoundsType DEF TypeOK
  <2>4. listed' \in [Reqs -> BOOLEAN]
    BY <1>3
  <2>5. /\ beam_groups' \subseteq Groups
        /\ future' \in [Groups -> {"none", "pending", "result", "exception", "cancelled"}]
        /\ beam_call' = beam_call
    BY DEF TypeOK, Step, Drain
  <2> QED
    BY <1>2, <2>1, <2>2, <2>3, <2>4, <2>5 DEF TypeOK
<1>8. \A r \in Reqs : listed'[r] <=> listed[r] /\ r \notin fin
  BY <1>3, Zenon
<1>9. NoOrphans'
  BY <1>2, <1>4, <1>6, <1>8 DEF NoOrphans
<1>10. QueueTokens'
  <2> SUFFICES ASSUME NEW r \in Reqs, listed'[r] PROVE \A i \in 1 .. Len(queue'[r]) : queue'[r][i].kind = "token"
    BY DEF QueueTokens
  <2>1. listed[r] /\ r \notin fin
    BY <1>8
  <2> QED
    BY <1>5, <1>6, <2>1 DEF QueueTokens
<1>11. NewcomersClean'
  <2> SUFFICES ASSUME NEW r \in Reqs, client[r] = "new"
               PROVE  queue'[r] = <<>> /\ got[r] = <<>> /\ reported'[r] = 0 /\ out'[r] = 0
    BY <1>2 DEF NewcomersClean
  <2>1. ~listed[r] /\ r \notin active
    BY <1>4 DEF NoOrphans
  <2> QED
    BY <1>2, <1>6, <2>1 DEF NewcomersClean
<1> QED
  BY <1>7, <1>9, <1>10, <1>11

\* An exception fails whoever is listed and unlists them; the loop is dead
\* (async_engine.py:96-110).
LEMMA StepRaisesStep ==
    ASSUME IInv, StepRaises
    PROVE  IInv'
<1> USE DEF IInv
<1>1. \A r \in Reqs : Append(queue[r], Failure) \in Seq(Items)
  BY ItemsType, AppendProperties DEF TypeOK
<1>2. TypeOK'
  BY <1>1 DEF TypeOK, StepRaises, FailAllPending, callVars, schedVars
<1>3. \A r \in Reqs : ~listed'[r]
  BY DEF StepRaises, FailAllPending
<1>4. NoOrphans'
  BY <1>3 DEF NoOrphans, StepRaises, callVars
<1>5. QueueTokens'
  BY <1>3 DEF QueueTokens
<1>6. NewcomersClean'
  <2> SUFFICES ASSUME NEW r \in Reqs, client[r] = "new"
               PROVE  queue'[r] = <<>> /\ got[r] = <<>> /\ reported[r] = 0 /\ out[r] = 0
    BY DEF NewcomersClean, StepRaises, callVars, schedVars
  <2>1. ~listed[r]
    BY DEF NoOrphans
  <2>2. queue'[r] = queue[r]
    BY <2>1 DEF StepRaises, FailAllPending
  <2> QED
    BY <2>2 DEF NewcomersClean
<1> QED
  BY <1>2, <1>4, <1>5, <1>6

\* Beam groups, and the life of the loop task, touch no request
\* (async_engine.py:67-78, 195-233).
LEMMA OtherStep ==
    ASSUME IInv,
           \/ \E g \in Groups : GenerateBeam(g) \/ BeamReturns(g) \/ CancelBeam(g) \/ BeamCancelled(g)
           \/ Stop \/ StopReturns \/ Start \/ Quiet
    PROVE  IInv'
<1> USE DEF IInv
<1>1. UNCHANGED <<client, got, listed, queue, reported, active, out, preempted>>
  BY DEF GenerateBeam, BeamReturns, CancelBeam, BeamCancelled, Stop, StopReturns, Start, Quiet, callVars, queueVars, schedVars, vars
<1>2. loop' \in {"none", "running", "stopping", "dead"} /\ (loop' # "dead" => loop # "dead")
  BY DEF TypeOK, GenerateBeam, BeamReturns, CancelBeam, BeamCancelled, Stop, StopReturns, Start, Quiet, vars
<1>3. beam_groups' \subseteq Groups
  BY DEF TypeOK, GenerateBeam, BeamReturns, CancelBeam, BeamCancelled, Stop, StopReturns, Start, Quiet, beamVars, vars
<1>4. /\ future' \in [Groups -> {"none", "pending", "result", "exception", "cancelled"}]
      /\ beam_call' \in [Groups -> {"new", "waiting", "cancelling", "returned", "cancelled"}]
  BY DEF TypeOK, GenerateBeam, BeamReturns, CancelBeam, BeamCancelled, Stop, StopReturns, Start, Quiet, beamVars, vars
<1>5. TypeOK'
  BY <1>1, <1>2, <1>3, <1>4 DEF TypeOK
<1>6. NoOrphans' /\ QueueTokens' /\ NewcomersClean'
  BY <1>1, <1>2 DEF NoOrphans, QueueTokens, NewcomersClean
<1> QED
  BY <1>5, <1>6

\* Every step of the engine and its callers keeps the invariant.
LEMMA NextInvariant ==
    ASSUME IInv, [Next]_vars
    PROVE  IInv'
<1>1. CASE \E r \in Reqs : Generate(r) \/ ReceiveToken(r) \/ ReceiveEnd(r) \/ Close(r)
  BY <1>1, GenerateStep, ReceiveTokenStep, ReceiveEndStep, CloseStep
<1>2. CASE \E U, P \in SUBSET Reqs, D \in SUBSET Groups : Step(U, P, D)
  BY <1>2, StepKeeps
<1>3. CASE StepRaises
  BY <1>3, StepRaisesStep
<1>4. CASE \/ \E g \in Groups : GenerateBeam(g) \/ BeamReturns(g) \/ CancelBeam(g) \/ BeamCancelled(g)
           \/ Stop \/ StopReturns \/ Start \/ Quiet
  BY <1>4, OtherStep
<1>5. CASE UNCHANGED vars
  BY <1>5 DEF IInv, TypeOK, NoOrphans, QueueTokens, NewcomersClean, vars, callVars, queueVars, schedVars, beamVars
<1> QED
  BY <1>1, <1>2, <1>3, <1>4, <1>5 DEF Next

\* The invariant holds in every reachable state.
LEMMA Invariance == Spec => []IInv
<1>1. Init => IInv
  BY InitInvariant
<1>2. IInv /\ [Next]_vars => IInv'
  BY NextInvariant
<1> QED
  BY <1>1, <1>2, PTL DEF Spec

\* The attributes of AsyncEngine, its callers' streams and its scheduler's
\* sequences keep their types: in particular no token lies beyond
\* max_new_tokens.
THEOREM TypeCorrect == Spec => []TypeOK
<1>1. IInv => TypeOK
  BY DEF IInv
<1> QED
  BY <1>1, Invariance, PTL

\* A sequence the scheduler works for has a listener, and an abandoned or
\* finished generator leaves neither sequence nor queue behind
\* (async_engine.py:185-193).
THEOREM NobodyOrphaned == Spec => []NoOrphans
<1>1. IInv => NoOrphans
  BY DEF IInv
<1> QED
  BY <1>1, Invariance, PTL

-----------------------------------------------------------------------------
(* Beam groups *)

\* A future is made by its call, and is pending only while the call waits.
CallsWait ==
    \A g \in Groups :
        /\ beam_call[g] = "new" <=> future[g] = "none"
        /\ future[g] = "pending" => beam_call[g] = "waiting"

\* Each step settles the futures of the groups that leave the scheduler, and
\* touches no other (async_engine.py:101-118, 222-232).
LEMMA BeamStepKeeps ==
    ASSUME IInv, CallsWait, GroupsKept, [Next]_vars
    PROVE  /\ CallsWait' /\ GroupsKept'
           /\ \A g \in Groups : future[g] \notin {"none", "pending"} => future'[g] = future[g]
<1> USE DEF CallsWait, GroupsKept
<1>1. /\ future \in [Groups -> {"none", "pending", "result", "exception", "cancelled"}]
      /\ beam_call \in [Groups -> {"new", "waiting", "cancelling", "returned", "cancelled"}]
      /\ beam_groups \subseteq Groups
  BY DEF IInv, TypeOK
<1>2. CASE \E r \in Reqs : Generate(r) \/ ReceiveToken(r) \/ ReceiveEnd(r) \/ Close(r)
  BY <1>2 DEF Generate, ReceiveToken, ReceiveEnd, Close, beamVars
<1>3. CASE \E g \in Groups : GenerateBeam(g) \/ BeamReturns(g) \/ CancelBeam(g) \/ BeamCancelled(g)
  <2> PICK g \in Groups : GenerateBeam(g) \/ BeamReturns(g) \/ CancelBeam(g) \/ BeamCancelled(g)
    BY <1>3
  <2>1. CASE GenerateBeam(g)
    BY <1>1, <2>1 DEF GenerateBeam
  <2>2. CASE BeamReturns(g)
    BY <1>1, <2>2 DEF BeamReturns
  <2>3. CASE CancelBeam(g)
    BY <1>1, <2>3 DEF CancelBeam
  <2>4. CASE BeamCancelled(g)
    BY <1>1, <2>4 DEF BeamCancelled
  <2> QED
    BY <2>1, <2>2, <2>3, <2>4
<1>4. CASE \E U, P \in SUBSET Reqs, D \in SUBSET Groups : Step(U, P, D)
  BY <1>1, <1>4 DEF Step, Drain
<1>5. CASE StepRaises
  BY <1>1, <1>5 DEF StepRaises, FailAllPending
<1>6. CASE Stop \/ StopReturns \/ Start \/ Quiet \/ UNCHANGED vars
  BY <1>6 DEF Stop, StopReturns, Start, Quiet, vars, beamVars
<1> QED
  BY <1>2, <1>3, <1>4, <1>5, <1>6 DEF Next

\* As long as the loop lives a pending future has its group in the scheduler,
\* and every group there has a caller that waits or is about to take it away;
\* a future that is done is never set again, also when its group completes
\* between Task.cancel() and the CancelledError.
THEOREM GroupsSettled == Spec => BeamsSettled
<1> DEFINE Kept == \A g \in Groups : future[g] \notin {"none", "pending"} => future'[g] = future[g]
<1>1. Init => CallsWait /\ GroupsKept
  BY DEF Init, CallsWait, GroupsKept
<1>2. IInv /\ CallsWait /\ GroupsKept /\ [Next]_vars => CallsWait' /\ GroupsKept'
  BY BeamStepKeeps
<1>3. IInv /\ CallsWait /\ GroupsKept /\ [Next]_vars => [Kept]_vars
  BY BeamStepKeeps
<1>4. FuturesSetOnce <=> [][Kept]_vars
  BY PTL DEF FuturesSetOnce
<1> HIDE DEF Kept
<1> QED
  BY <1>1, <1>2, <1>3, <1>4, Invariance, PTL DEF Spec, BeamsSettled

-----------------------------------------------------------------------------
(* Streams *)

\* What the caller of r is told in the end: all of output_token_ids.
Told(r) == TokensAfter(0, out[r])

\* What has been pushed for r is its output so far, and then one end marker
\* that stays in the queue until the caller takes it as the last thing.
StreamOf(r) ==
    /\ listed[r] => reported[r] = out[r] /\ Pushed(r) = Told(r)
    /\ client[r] = "listening" /\ ~listed[r] =>
         queue[r] # <<>> /\ \E e \in {Done, Failure} : Pushed(r) = Told(r) \o <<e>>
    /\ client[r] = "done" => queue[r] = <<>> /\ got[r] = Told(r)

StreamKept == \A r \in Reqs : StreamOf(r)

\* The types of what StreamOf speaks of.
LEMMA StreamTypes ==
    ASSUME IInv, NEW r \in Reqs
    PROVE  /\ queue[r] \in Seq(Items) /\ got[r] \in Seq(Items) /\ out[r] \in 0 .. MaxNew
           /\ Told(r) \in Seq(Items) /\ Pushed(r) \in Seq(Items)
<1>1. queue[r] \in Seq(Items) /\ got[r] \in Seq(Items) /\ out[r] \in 0 .. MaxNew
  BY DEF IInv, TypeOK
<1> QED
  BY <1>1, FirstTokens, ConcatProperties DEF Told, Pushed

\* A request none of whose state changes keeps its stream.
LEMMA StreamFrame ==
    ASSUME NEW r \in Reqs, StreamOf(r),
           listed'[r] = listed[r], client'[r] = client[r], queue'[r] = queue[r],
           reported'[r] = reported[r], got'[r] = got[r], out'[r] = out[r]
    PROVE  StreamOf(r)'
BY DEF StreamOf, Pushed, Told

\* What was pushed last is at the end of the queue, unless that is empty.
LEMMA LastOfConcat ==
    ASSUME NEW s \in Seq(Items), NEW t \in Seq(Items), t # <<>>
    PROVE  (s \o t)[Len(s \o t)] = t[Len(t)]
<1>1. /\ Len(s \o t) = Len(s) + Len(t)
      /\ \A i \in 1 .. Len(s) + Len(t) : (s \o t)[i] = IF i <= Len(s) THEN s[i] ELSE t[i - Len(s)]
  BY ConcatProperties
<1>2. Len(s) \in Nat /\ Len(t) \in Nat /\ Len(t) # 0
  BY EmptySeq
<1>3. Len(s) + Len(t) \in 1 .. Len(s) + Len(t) /\ ~(Len(s) + Len(t) <= Len(s)) /\ (Len(s) + Len(t)) - Len(s) = Len(t)
  BY <1>2
<1> QED
  BY <1>1, <1>3

\* A marker behind some items is the last of them.
LEMMA LastOfEnded ==
    ASSUME NEW s \in Seq(Items), NEW e \in Items
    PROVE  (s \o <<e>>)[Len(s \o <<e>>)] = e
<1>1. <<e>> \in Seq(Items) /\ <<e>> # <<>> /\ Len(<<e>>) = 1 /\ <<e>>[1] = e
  OBVIOUS
<1> QED
  BY <1>1, LastOfConcat

\* Whoever meets the end marker has been handed every token, and nothing
\* comes after it.
LEMMA EndIsLast ==
    ASSUME NEW s \in Seq(Items), NEW t \in Seq(Items), NEW n \in 0 .. MaxNew, NEW e \in Items,
           s \o t = TokensAfter(0, n) \o <<e>>, t # <<>>, Head(t).kind # "token"
    PROVE  Tail(t) = <<>> /\ s = TokensAfter(0, n)
<1> DEFINE c == TokensAfter(0, n)
<1>1. c \in Seq(Items) /\ Len(c) = n /\ \A i \in 1 .. n : c[i] = Token(i)
  BY FirstTokens
<1>2. s \o t = c \o <<e>>
  OBVIOUS
<1> HIDE DEF c
<1>3. <<e>> \in Seq(Items) /\ Len(<<e>>) = 1
  OBVIOUS
<1>4. /\ Len(c \o <<e>>) = Len(c) + Len(<<e>>)
      /\ \A i \in 1 .. Len(c) + Len(<<e>>) : (c \o <<e>>)[i] = IF i <= Len(c) THEN c[i] ELSE <<e>>[i - Len(c)]
  BY <1>1, <1>3, ConcatProperties
<1>5. /\ Len(s \o t) = Len(s) + Len(t)
      /\ \A i \in 1 .. Len(s) + Len(t) : (s \o t)[i] = IF i <= Len(s) THEN s[i] ELSE t[i - Len(s)]
  BY ConcatProperties
<1>6. Len(s) \in Nat /\ Len(t) \in Nat /\ Len(t) # 0 /\ n \in Nat
  BY EmptySeq, BoundsType
<1>7. Len(s) + Len(t) = n + 1
  BY <1>1, <1>2, <1>3, <1>4, <1>5
<1>8. \A i \in 1 .. n : (s \o t)[i] = c[i]
  <2> SUFFICES ASSUME NEW i \in 1 .. n PROVE (c \o <<e>>)[i] = c[i]
    BY <1>2
  <2>1. i \in 1 .. Len(c) + Len(<<e>>) /\ i <= Len(c)
    BY <1>1, <1>3, <1>6
  <2> QED
    BY <2>1, <1>4
<1>9. ~(Len(s) + 1 <= n)
  <2> SUFFICES ASSUME Len(s) + 1 <= n PROVE FALSE
    OBVIOUS
  <2>1. Len(s) + 1 \in 1 .. n /\ ~(Len(s) + 1 <= Len(s)) /\ (Len(s) + 1) - Len(s) = 1 /\ Len(s) + 1 \in 1 .. Len(s) + Len(t)
    BY <1>6
  <2>2. (s \o t)[Len(s) + 1] = t[1]
    BY <2>1, <1>5
  <2>3. (s \o t)[Len(s) + 1] = Token(Len(s) + 1)
    BY <2>1, <1>1, <1>8
  <2>4. Head(t) = t[1]
    BY <1>6
  <2> QED
    BY <2>2, <2>3, <2>4 DEF Token
<1>10. Len(s) = n /\ Len(t) = 1
  BY <1>6, <1>7, <1>9
<1>11. \A i \in 1 .. n : s[i] = c[i]
  BY <1>5, <1>6, <1>8, <1>10
<1>12. s = c
  BY <1>1, <1>10, <1>11, SeqEqual
<1>13. Tail(t) \in Seq(Items) /\ Len(Tail(t)) = 0
  BY <1>10, HeadTailProperties
<1>14. Tail(t) = << >>
  BY <1>13, EmptySeq
<1> QED
  BY <1>12, <1>14 DEF c

\* The stream of an engine that has not been called.
LEMMA InitStreams ==
    ASSUME Init
    PROVE  StreamKept
BY DEF Init, StreamKept, StreamOf

\* A call begins with nothing pushed and nothing reported.
LEMMA GenerateStreams ==
    ASSUME IInv, StreamKept, NEW r \in Reqs, Generate(r)
    PROVE  StreamKept'
<1>1. /\ queue'[r] = <<>> /\ got'[r] = <<>> /\ reported'[r] = 0 /\ out'[r] = 0
      /\ listed'[r] /\ client'[r] = "listening"
  BY DEF IInv, TypeOK, NewcomersClean, Generate
<1>2. TokensAfter(0, 0) = << >>
  <2>1. 0 \in 0 .. MaxNew
    BY BoundsType
  <2> QED
    BY <2>1, FirstTokens, EmptySeq
<1>3. << >> \o << >> = << >>
  OBVIOUS
<1>4. StreamOf(r)'
  BY <1>1, <1>2, <1>3 DEF StreamOf, Pushed, Told
<1>5. ASSUME NEW q \in Reqs, q # r PROVE StreamOf(q)'
  <2>1. /\ StreamOf(q) /\ listed'[q] = listed[q] /\ client'[q] = client[q]
        /\ queue'[q] = queue[q] /\ reported'[q] = reported[q] /\ got'[q] = got[q] /\ out'[q] = out[q]
    BY <1>5 DEF IInv, TypeOK, StreamKept, Generate
  <2> QED
    BY <2>1, StreamFrame
<1> QED
  BY <1>4, <1>5 DEF StreamKept

\* A token goes from the queue to the caller.
LEMMA ReceiveTokenStreams ==
    ASSUME IInv, StreamKept, NEW r \in Reqs, ReceiveToken(r)
    PROVE  StreamKept'
<1>1. queue[r] \in Seq(Items) /\ got[r] \in Seq(Items) /\ Told(r) \in Seq(Items)
  BY StreamTypes
<1>2. /\ queue[r] # <<>> /\ Head(queue[r]).kind = "token" /\ client[r] = "listening"
      /\ queue'[r] = Tail(queue[r]) /\ got'[r] = Append(got[r], Head(queue[r]))
      /\ listed' = listed /\ client' = client /\ reported' = reported /\ out' = out
  BY DEF IInv, TypeOK, ReceiveToken, schedVars
<1>3. Pushed(r)' = Pushed(r) /\ Told(r)' = Told(r)
  BY <1>1, <1>2, HandOver DEF Pushed, Told
<1>4. ASSUME ~listed[r] PROVE queue'[r] # <<>>
  <2>1. PICK e \in {Done, Failure} : Pushed(r) = Told(r) \o <<e>>
    BY <1>2, <1>4 DEF StreamKept, StreamOf
  <2>2. Pushed(r)[Len(Pushed(r))] = e
    BY <1>1, <2>1, LastOfEnded, ItemsType
  <2>3. Pushed(r)[Len(Pushed(r))] = queue[r][Len(queue[r])]
    BY <1>1, <1>2, LastOfConcat DEF Pushed
  <2>4. Len(queue[r]) # 1
    <3>1. Head(queue[r]) = queue[r][1]
      BY <1>1, <1>2
    <3>2. e.kind # "token"
      BY ItemsType
    <3> QED
      BY <2>2, <2>3, <3>1, <3>2, <1>2
  <2>5. Len(Tail(queue[r])) = Len(queue[r]) - 1 /\ Len(queue[r]) \in Nat
    BY <1>1, <1>2, HeadTailProperties, EmptySeq
  <2>6. Tail(queue[r]) # <<>>
    <3> DEFINE u == Tail(queue[r])
    <3>1. Len(u) # 0
      BY <2>4, <2>5
    <3> HIDE DEF u
    <3>2. u # << >>
      BY <3>1, EmptySeq
    <3> QED
      BY <3>2 DEF u
  <2> QED
    BY <1>2, <2>6
<1>5. StreamOf(r)'
  <2>1. StreamOf(r)
    BY DEF StreamKept
  <2>2. listed[r] => reported[r] = out[r] /\ Pushed(r)' = Told(r)'
    BY <1>3, <2>1 DEF StreamOf
  <2>3. ~listed[r] => queue'[r] # <<>> /\ \E e \in {Done, Failure} : Pushed(r)' = Told(r)' \o <<e>>
    BY <1>2, <1>3, <1>4, <2>1 DEF StreamOf
  <2> QED
    BY <1>2, <2>2, <2>3 DEF StreamOf
<1>6. ASSUME NEW q \in Reqs, q # r PROVE StreamOf(q)'
  <2>1. StreamOf(q) /\ queue'[q] = queue[q] /\ got'[q] = got[q]
    BY <1>6 DEF IInv, TypeOK, StreamKept, ReceiveToken
  <2> QED
    BY <1>2, <2>1, StreamFrame
<1> QED
  BY <1>5, <1>6 DEF StreamKept

\* The marker is taken: it is the last of the queue, and all tokens have gone
\* before.
LEMMA ReceiveEndStreams ==
    ASSUME IInv, StreamKept, NEW r \in Reqs, ReceiveEnd(r)
    PROVE  StreamKept'
<1>1. queue[r] \in Seq(Items) /\ got[r] \in Seq(Items) /\ out[r] \in 0 .. MaxNew
  BY StreamTypes
<1>2. /\ queue[r] # <<>> /\ Head(queue[r]).kind # "token" /\ client[r] = "listening"
      /\ queue'[r] = Tail(queue[r]) /\ got' = got /\ out' = out
      /\ client'[r] # "listening" /\ ~listed'[r]
  BY DEF IInv, TypeOK, ReceiveEnd, Forget, schedVars
<1>3. ~listed[r]
  BY <1>2, EndIsUnlisted
<1>4. PICK e \in {Done, Failure} : got[r] \o queue[r] = TokensAfter(0, out[r]) \o <<e>>
  BY <1>2, <1>3 DEF StreamKept, StreamOf, Pushed, Told
<1>5. Tail(queue[r]) = <<>> /\ got[r] = TokensAfter(0, out[r])
  <2>1. e \in Items
    BY ItemsType
  <2>2. /\ queue[r] \in Seq(Items) /\ got[r] \in Seq(Items) /\ out[r] \in 0 .. MaxNew
        /\ queue[r] # <<>> /\ Head(queue[r]).kind # "token"
    BY <1>1, <1>2
  <2> QED
    BY <2>1, <2>2, <1>4, EndIsLast
<1>6. StreamOf(r)'
  BY <1>2, <1>5 DEF StreamOf, Told
<1>7. ASSUME NEW q \in Reqs, q # r PROVE StreamOf(q)'
  <2>1. /\ StreamOf(q) /\ listed'[q] = listed[q] /\ client'[q] = client[q]
        /\ queue'[q] = queue[q] /\ reported'[q] = reported[q] /\ got'[q] = got[q] /\ out'[q] = out[q]
    BY <1>7 DEF IInv, TypeOK, StreamKept, ReceiveEnd, Forget, schedVars
  <2> QED
    BY <2>1, StreamFrame
<1> QED
  BY <1>6, <1>7 DEF StreamKept

\* A closed generator is told nothing more.
LEMMA CloseStreams ==
    ASSUME IInv, StreamKept, NEW r \in Reqs, Close(r)
    PROVE  StreamKept'
<1>1. client'[r] = "closed" /\ ~listed'[r]
  BY DEF IInv, TypeOK, Close, Forget
<1>2. StreamOf(r)'
  BY <1>1 DEF StreamOf
<1>3. ASSUME NEW q \in Reqs, q # r PROVE StreamOf(q)'
  <2>1. /\ StreamOf(q) /\ listed'[q] = listed[q] /\ client'[q] = client[q]
        /\ queue'[q] = queue[q] /\ reported'[q] = reported[q] /\ got'[q] = got[q] /\ out'[q] = out[q]
    BY <1>3 DEF IInv, TypeOK, StreamKept, Close, Forget
  <2> QED
    BY <2>1, StreamFrame
<1> QED
  BY <1>2, <1>3 DEF StreamKept

\* A step appends what the output has become longer by, and the end marker
\* when the sequence has finished.
LEMMA StepStreams ==
    ASSUME EnableSwap, IInv, StreamKept,
           NEW U \in SUBSET Reqs, NEW P \in SUBSET Reqs, NEW D \in SUBSET Groups, Step(U, P, D)
    PROVE  StreamKept'
<1>1. PICK fin \in SUBSET U : StepEffect(U, fin)
  BY StepHasEffect
<1>2. /\ loop = "running" /\ client' = client /\ got' = got /\ U \subseteq active
      /\ out' \in [Reqs -> 0 .. MaxNew]
      /\ \A r \in Reqs : out[r] <= out'[r] /\ (r \notin U => out'[r] = out[r])
  BY <1>1 DEF StepEffect
<1>3. /\ queue' = [r \in Reqs |->
            IF r \in U /\ listed[r]
            THEN queue[r] \o TokensAfter(reported[r], out'[r]) \o (IF r \in fin THEN <<Done>> ELSE <<>>)
            ELSE queue[r]]
      /\ reported' = [r \in Reqs |->
            IF r \in U /\ listed[r] THEN (IF r \in fin THEN 0 ELSE out'[r]) ELSE reported[r]]
      /\ listed' = [r \in Reqs |-> listed[r] /\ r \notin fin]
  BY <1>1 DEF StepEffect, OnToken
<1>4. \A r \in U : listed[r] /\ client[r] = "listening"
  BY <1>2 DEF IInv, NoOrphans
<1>5. ASSUME NEW r \in Reqs, r \notin U PROVE StreamOf(r)'
  <2>1. listed'[r] = (listed[r] /\ r \notin fin) /\ r \notin fin /\ listed[r] \in BOOLEAN
    BY <1>3, <1>5 DEF IInv, TypeOK
  <2>2. listed'[r] = listed[r]
    BY <2>1
  <2>3. StreamOf(r) /\ queue'[r] = queue[r] /\ reported'[r] = reported[r] /\ out'[r] = out[r] /\ client'[r] = client[r] /\ got'[r] = got[r]
    BY <1>2, <1>3, <1>5 DEF StreamKept
  <2> QED
    BY <2>2, <2>3, StreamFrame
<1>6. ASSUME NEW r \in Reqs, r \in U PROVE StreamOf(r)'
  <2> DEFINE a == TokensAfter(0, out[r])
             b == TokensAfter(out[r], out'[r])
             c == TokensAfter(0, out'[r])
             q == queue[r]
             g == got[r]
             x == IF r \in fin THEN <<Done>> ELSE << >>
  <2>1. listed[r] /\ client[r] = "listening" /\ reported[r] = out[r] /\ g \o q = a
    BY <1>4, <1>6 DEF StreamKept, StreamOf, Pushed, Told
  <2>2. queue'[r] = (q \o b) \o x
    BY <1>3, <1>6, <2>1
  <2>3. q \in Seq(Items) /\ g \in Seq(Items) /\ out[r] \in 0 .. MaxNew /\ out'[r] \in 0 .. MaxNew /\ out[r] <= out'[r]
    BY <1>2, StreamTypes
  <2>4. a \in Seq(Items) /\ b \in Seq(Items) /\ c \in Seq(Items) /\ a \o b = c
    BY <2>3, FirstTokens, TokensAfterType, TokensAfterConcat
  <2>5. x \in Seq(Items)
    BY ItemsType
  <2>6. Told(r)' = c /\ Pushed(r)' = g \o ((q \o b) \o x)
    BY <1>2, <2>2 DEF Told, Pushed
  <2>7. listed'[r] <=> r \notin fin
    BY <1>3, <2>1
  <2>8. reported'[r] = IF r \in fin THEN 0 ELSE out'[r]
    BY <1>3, <1>6, <2>1
  <2>9. client'[r] = "listening"
    BY <1>2, <2>1
  <2>10. r \in fin => x = <<Done>>
    OBVIOUS
  <2>11. r \notin fin => x = << >>
    OBVIOUS
  <2> HIDE DEF a, b, c, q, g, x
  <2>12. g \o ((q \o b) \o x) = c \o x
    <3>1. q \o b \in Seq(Items) /\ g \o q \in Seq(Items)
      BY <2>3, <2>4, ConcatProperties
    <3>2. g \o ((q \o b) \o x) = (g \o (q \o b)) \o x
      <4> DEFINE w == q \o b
      <4>1. g \in Seq(Items) /\ w \in Seq(Items) /\ x \in Seq(Items)
        BY <2>3, <2>5, <3>1
      <4> HIDE DEF w
      <4>2. g \o (w \o x) = (g \o w) \o x
        BY ONLY <4>1, ItemsAssociative
      <4> QED
        BY <4>2 DEF w
    <3>3. g \o (q \o b) = (g \o q) \o b
      BY <2>3, <2>4, ItemsAssociative
    <3> QED
      BY <2>1, <2>4, <3>2, <3>3
  <2>13. CASE r \in fin
    <3>1. (q \o b) \o <<Done>> # <<>>
      <4>1. q \o b \in Seq(Items) /\ <<Done>> \in Seq(Items) /\ <<Done>> # <<>>
        BY <2>3, <2>4, ConcatProperties, ItemsType
      <4> QED
        BY <4>1, ConcatEqualIffEmpty
    <3>2. ~listed'[r] /\ queue'[r] # <<>> /\ Pushed(r)' = Told(r)' \o <<Done>>
      BY <2>2, <2>6, <2>7, <2>10, <2>12, <2>13, <3>1
    <3> QED
      BY <2>9, <3>2 DEF StreamOf
  <2>14. CASE r \notin fin
    <3>1. c \o << >> = c
      BY <2>4, ConcatEmptySeq
    <3>2. listed'[r] /\ reported'[r] = out'[r] /\ Pushed(r)' = Told(r)'
      BY <2>6, <2>7, <2>8, <2>11, <2>12, <2>14, <3>1
    <3> QED
      BY <2>9, <3>2 DEF StreamOf
  <2> QED
    BY <2>13, <2>14
<1> QED
  BY <1>5, <1>6 DEF StreamKept

\* Whoever is listed when the loop dies finds the exception behind the tokens.
LEMMA StepRaisesStreams ==
    ASSUME IInv, StreamKept, StepRaises
    PROVE  StreamKept'
<1>1. /\ client' = client /\ got' = got /\ out' = out /\ reported' = reported
      /\ \A r \in Reqs : ~listed'[r] /\ queue'[r] = IF listed[r] THEN Append(queue[r], Failure) ELSE queue[r]
  BY DEF StepRaises, FailAllPending, callVars, schedVars
<1>2. ASSUME NEW r \in Reqs, ~listed[r] PROVE StreamOf(r)'
  <2>1. listed[r] \in BOOLEAN /\ listed'[r] = FALSE
    BY DEF IInv, TypeOK, StepRaises, FailAllPending
  <2>2. listed'[r] = listed[r] /\ queue'[r] = queue[r] /\ StreamOf(r)
    BY <1>1, <1>2, <2>1 DEF StreamKept
  <2> QED
    BY <1>1, <2>2, StreamFrame
<1>3. ASSUME NEW r \in Reqs, listed[r] PROVE StreamOf(r)'
  <2>1. queue[r] \in Seq(Items) /\ got[r] \in Seq(Items) /\ Failure \in Items
    BY StreamTypes, ItemsType
  <2>2. queue'[r] = queue[r] \o <<Failure>> /\ queue'[r] # <<>>
    <3>1. queue'[r] = Append(queue[r], Failure)
      BY <1>1, <1>3
    <3> QED
      BY <2>1, <3>1, AppendProperties, AppendIsConcat, EmptySeq
  <2>3. got[r] \o (queue[r] \o <<Failure>>) = (got[r] \o queue[r]) \o <<Failure>>
    <3>1. <<Failure>> \in Seq(Items)
      BY <2>1
    <3> QED
      BY <2>1, <3>1, ItemsAssociative
  <2>4. got[r] \o queue[r] = Told(r) /\ client[r] = "listening"
    BY <1>3 DEF StreamKept, StreamOf, Pushed, IInv, NoOrphans
  <2>5. Pushed(r)' = Told(r)' \o <<Failure>>
    BY <1>1, <2>2, <2>3, <2>4 DEF Pushed, Told
  <2> QED
    BY <1>1, <2>2, <2>4, <2>5 DEF StreamOf
<1> QED
  BY <1>2, <1>3 DEF StreamKept

\* With CPU swap no preemption takes output back, and every step keeps the
\* streams.
LEMMA NextStreams ==
    ASSUME EnableSwap, IInv, StreamKept, [Next]_vars
    PROVE  StreamKept'
<1>1. CASE \E r \in Reqs : Generate(r) \/ ReceiveToken(r) \/ ReceiveEnd(r) \/ Close(r)
  BY <1>1, GenerateStreams, ReceiveTokenStreams, ReceiveEndStreams, CloseStreams
<1>2. CASE \E U, P \in SUBSET Reqs, D \in SUBSET Groups : Step(U, P, D)
  BY <1>2, StepStreams
<1>3. CASE StepRaises
  BY <1>3, StepRaisesStreams
<1>4. CASE \/ \E g \in Groups : GenerateBeam(g) \/ BeamReturns(g) \/ CancelBeam(g) \/ BeamCancelled(g)
           \/ Stop \/ StopReturns \/ Start \/ Quiet \/ UNCHANGED vars
  <2>1. listed' = listed /\ client' = client /\ queue' = queue /\ reported' = reported /\ got' = got /\ out' = out
    BY <1>4 DEF GenerateBeam, BeamReturns, CancelBeam, BeamCancelled, Stop, StopReturns, Start, Quiet, callVars, queueVars, schedVars, vars
  <2> QED
    BY <2>1, StreamFrame DEF StreamKept
<1> QED
  BY <1>1, <1>2, <1>3, <1>4 DEF Next

\* The form of the streams is what StreamIsOutput says of them.
LEMMA StreamsAreOutput ==
    ASSUME IInv, StreamKept
    PROVE  StreamIsOutput
<1> SUFFICES ASSUME NEW r \in Reqs, client[r] \in {"listening", "done"}
             PROVE  LET ended == client[r] = "done" \/ (queue[r] # <<>> /\ queue[r][Len(queue[r])] = Done)
                        failed == queue[r] # <<>> /\ queue[r][Len(queue[r])] = Failure IN
                    /\ ended \/ listed[r] =>
                         Pushed(r) = TokensAfter(0, out[r]) \o
                                     (IF ended /\ client[r] # "done" THEN <<Done>> ELSE <<>>)
                    /\ ~ended /\ ~listed[r] => failed
  BY DEF StreamIsOutput
<1>1. queue[r] \in Seq(Items) /\ got[r] \in Seq(Items) /\ Told(r) \in Seq(Items) /\ StreamOf(r)
  BY StreamTypes DEF StreamKept
<1>2. Told(r) \o << >> = Told(r) /\ got[r] \o << >> = got[r] /\ Told(r) = TokensAfter(0, out[r])
  BY <1>1, ConcatEmptySeq DEF Told
<1>3. CASE client[r] = "done"
  <2>1. Pushed(r) = Told(r)
    BY <1>1, <1>2, <1>3 DEF StreamOf, Pushed
  <2> QED
    BY <1>2, <1>3, <2>1
<1>4. CASE client[r] = "listening" /\ listed[r]
  <2>1. Pushed(r) = Told(r)
    BY <1>1, <1>4 DEF StreamOf
  <2>2. ~(queue[r] # <<>> /\ queue[r][Len(queue[r])] = Done)
    <3> SUFFICES ASSUME queue[r] # <<>>, queue[r][Len(queue[r])] = Done PROVE FALSE
      OBVIOUS
    <3>1. Len(queue[r]) \in 1 .. Len(queue[r])
      BY <1>1, EmptySeq
    <3> QED
      BY <3>1, <1>4, ItemsType DEF IInv, QueueTokens
  <2> QED
    BY <1>2, <1>4, <2>1, <2>2
<1>5. CASE client[r] = "listening" /\ ~listed[r]
  <2>1. PICK e \in {Done, Failure} : Pushed(r) = Told(r) \o <<e>>
    BY <1>1, <1>5 DEF StreamOf
  <2>2. queue[r] # <<>>
    BY <1>1, <1>5 DEF StreamOf
  <2>3. queue[r][Len(queue[r])] = e
    <3>1. Pushed(r)[Len(Pushed(r))] = e
      BY <1>1, <2>1, LastOfEnded, ItemsType
    <3> QED
      BY <1>1, <2>2, <3>1, LastOfConcat DEF Pushed
  <2> QED
    BY <1>2, <1>5, <2>1, <2>2, <2>3, ItemsType
<1> QED
  BY <1>3, <1>4, <1>5

\* With CPU swap, so that a preempted sequence keeps its output, the stream of
\* every request is its output, token by token, and then one end marker
\* (async_engine.py:120-138), for any number of requests and gain of a step.
THEOREM StreamsWhole ==
    ASSUME EnableSwap
    PROVE  Spec => []StreamIsOutput
<1>1. Init => StreamKept
  BY InitStreams
<1>2. IInv /\ StreamKept /\ [Next]_vars => StreamKept'
  BY NextStreams
<1>3. IInv /\ StreamKept => StreamIsOutput
  BY StreamsAreOutput
<1> QED
  BY <1>1, <1>2, <1>3, Invariance, PTL DEF Spec
=============================================================================
