---------------------------- MODULE ApiGateProofs ----------------------------
(***************************************************************************)
(* Proofs about ApiGate, for every limit, window, clock resolution and set *)
(* of keys.                                                                *)
(*                                                                         *)
(* The deque of a client forgets: what it holds is an end of what the      *)
(* client was let through with, and what it has forgotten is older than    *)
(* the window (Remembers).  All three properties follow from that, for     *)
(* different histories: passed for the window, admitted for the quota.     *)
(***************************************************************************)
EXTENDS ApiGate, Foundations, SequenceTheorems

\* times is an end of history, and the rest of it is stale at time t.
Remembers(times, history, t) ==
    \E d \in 0 .. Len(history) :
        /\ Len(times) = Len(history) - d
        /\ \A i \in 1 .. Len(times) : times[i] = history[d + i]
        /\ \A i \in 1 .. d : t - history[i] > Window

GateTypeOK ==
    /\ limit \in Limits /\ clock \in Nat
    /\ hits \in [Keys -> Seq(Nat)]
    /\ passed \in [Keys -> Seq(Nat)] /\ admitted \in [Keys -> Seq(Nat)]
    /\ retry_at \in [Keys -> Int]

HitsRemember == \A k \in Keys : Remembers(hits[k], passed[k], clock)

QuotaRemembered ==
    limit # NoLimit /\ auth_on => \A k \in ApiKeys : Remembers(hits[k], admitted[k], clock)

LimitKept == limit # NoLimit => \A k \in Keys : Len(hits[k]) <= limit

RetryKept ==
    \A k \in Keys : retry_at[k] # 0 =>
        limit # NoLimit /\ hits[k] # <<>> /\ retry_at[k] > Window + hits[k][1]

IInv == GateTypeOK /\ HitsRemember /\ QuotaRemembered /\ LimitKept /\ RetryKept /\ WindowNeverExceeded

-----------------------------------------------------------------------------
(* Forgetting *)

\* The window is whole ticks (rate_limit.py:28).
LEMMA WindowType == Window \in Nat /\ TicksPerSecond \in Nat /\ TicksPerSecond > 0
BY GateAssumption DEF Window

\* The while loop of dispatch() stops at the first hit that is not stale.
LEMMA DroppedStops ==
    ASSUME NEW times \in Seq(Nat), clock \in Nat
    PROVE  /\ Dropped(times) \in 0 .. Len(times)
           /\ \A i \in 1 .. Dropped(times) : Stale(times[i])
           /\ Dropped(times) < Len(times) => ~Stale(times[Dropped(times) + 1])
<1> DEFINE T == {n \in 0 .. Len(times) : n < Len(times) => ~Stale(times[n + 1])}
<1>1. Len(times) \in T /\ T \in SUBSET Nat
  OBVIOUS
<1>2. PICK m \in T : \A k \in T : m <= k
  <2> HIDE DEF T
  <2> QED
    BY <1>1, LeastNatural
<1>3. \A i \in 1 .. m : Stale(times[i])
  <2> SUFFICES ASSUME NEW i \in 1 .. m, ~Stale(times[i]) PROVE FALSE
    OBVIOUS
  <2>1. i - 1 \in 0 .. Len(times) /\ (i - 1) + 1 = i
    OBVIOUS
  <2>2. i - 1 \in T
    BY <2>1
  <2>3. m <= i - 1 /\ m \in Nat
    <3> HIDE DEF T
    <3> QED
      BY <2>2, <1>1, <1>2
  <2> QED
    BY <2>3
<1> QED
  BY <1>2, <1>3 DEF Dropped

\* ... and there is only one place where it can stop: nothing after the
\* first hit that is not stale is dropped, nothing before it is kept.
LEMMA DroppedIs ==
    ASSUME NEW times \in Seq(Nat), clock \in Nat, NEW n \in 0 .. Len(times),
           \A i \in 1 .. n : Stale(times[i]),
           n < Len(times) => ~Stale(times[n + 1])
    PROVE  Dropped(times) = n
<1> DEFINE m == Dropped(times)
<1>1. /\ m \in 0 .. Len(times)
      /\ \A i \in 1 .. m : Stale(times[i])
      /\ m < Len(times) => ~Stale(times[m + 1])
  BY DroppedStops
<1>2. ~(m < n)
  <2> SUFFICES ASSUME m < n PROVE FALSE
    OBVIOUS
  <2>1. m + 1 \in 1 .. n /\ m < Len(times)
    BY <1>1
  <2> QED
    BY <2>1, <1>1
<1>3. ~(n < m)
  <2> SUFFICES ASSUME n < m PROVE FALSE
    OBVIOUS
  <2>1. n + 1 \in 1 .. m /\ n < Len(times)
    BY <1>1
  <2> QED
    BY <2>1, <1>1
<1> QED
  BY <1>1, <1>2, <1>3

\* What popleft leaves is an end of the deque that does not begin with a
\* stale hit (rate_limit.py:44-45).
LEMMA RecentType ==
    ASSUME NEW times \in Seq(Nat), clock \in Nat
    PROVE  /\ Recent(times) \in Seq(Nat)
           /\ Len(Recent(times)) = Len(times) - Dropped(times)
           /\ \A i \in 1 .. Len(Recent(times)) : Recent(times)[i] = times[Dropped(times) + i]
           /\ Recent(times) # <<>> => ~Stale(Recent(times)[1])
<1> DEFINE d == Dropped(times)
<1>1. d \in 0 .. Len(times) /\ (d < Len(times) => ~Stale(times[d + 1]))
  BY DroppedStops
<1>2. \A i \in d + 1 .. Len(times) : times[i] \in Nat
  BY <1>1
<1>3. /\ Recent(times) \in Seq(Nat)
      /\ Len(Recent(times)) = IF d + 1 <= Len(times) THEN Len(times) - (d + 1) + 1 ELSE 0
      /\ \A i \in 1 .. Len(times) - (d + 1) + 1 : Recent(times)[i] = times[d + 1 + i - 1]
  <2> HIDE DEF d
  <2>1. d + 1 \in Int /\ Len(times) \in Int
    BY <1>1
  <2> QED
    BY <1>2, <2>1, SubSeqProperties DEF Recent, d
<1>4. Len(Recent(times)) = Len(times) - d
  <2> HIDE DEF d
  <2>1. Len(Recent(times)) = IF d + 1 <= Len(times) THEN Len(times) - (d + 1) + 1 ELSE 0
    BY <1>3
  <2>2. d \in Nat /\ Len(times) \in Nat /\ d <= Len(times)
    BY <1>1
  <2> QED
    BY <2>1, <2>2
<1>5. \A i \in 1 .. Len(Recent(times)) : Recent(times)[i] = times[d + i]
  <2> SUFFICES ASSUME NEW i \in 1 .. Len(Recent(times)) PROVE Recent(times)[i] = times[d + i]
    OBVIOUS
  <2>1. i \in 1 .. Len(times) - (d + 1) + 1 /\ d + 1 + i - 1 = d + i
    <3> HIDE DEF d
    <3> QED
      BY <1>1, <1>4
  <2> QED
    BY <2>1, <1>3
<1>6. Recent(times) # <<>> => ~Stale(Recent(times)[1])
  <2> SUFFICES ASSUME Recent(times) # <<>> PROVE ~Stale(Recent(times)[1])
    OBVIOUS
  <2>1. Len(Recent(times)) \in Nat /\ Len(Recent(times)) # 0
    BY <1>3, EmptySeq
  <2>2. d < Len(times) /\ 1 \in 1 .. Len(Recent(times))
    BY <2>1, <1>4, <1>1
  <2> QED
    BY <2>2, <1>1, <1>5
<1> QED
  BY <1>3, <1>4, <1>5, <1>6

-----------------------------------------------------------------------------
(* What is remembered *)

\* Dropping stale hits loses nothing the window still needs.
LEMMA RecentRemembers ==
    ASSUME NEW times \in Seq(Nat), NEW history \in Seq(Nat), clock \in Nat,
           Remembers(times, history, clock)
    PROVE  Remembers(Recent(times), history, clock)
<1>1. PICK d \in 0 .. Len(history) :
        /\ Len(times) = Len(history) - d
        /\ \A i \in 1 .. Len(times) : times[i] = history[d + i]
        /\ \A i \in 1 .. d : clock - history[i] > Window
  BY DEF Remembers
<1> DEFINE n == Dropped(times)
<1>2. n \in 0 .. Len(times) /\ \A i \in 1 .. n : Stale(times[i])
  BY DroppedStops
<1>3. Len(Recent(times)) = Len(times) - n /\ \A i \in 1 .. Len(Recent(times)) : Recent(times)[i] = times[n + i]
  BY RecentType
<1> HIDE DEF n
<1>4. d + n \in 0 .. Len(history) /\ Len(Recent(times)) = Len(history) - (d + n)
  BY <1>1, <1>2, <1>3
<1>5. \A i \in 1 .. Len(Recent(times)) : Recent(times)[i] = history[(d + n) + i]
  <2> SUFFICES ASSUME NEW i \in 1 .. Len(Recent(times)) PROVE Recent(times)[i] = history[(d + n) + i]
    OBVIOUS
  <2>1. n + i \in 1 .. Len(times) /\ d + (n + i) = (d + n) + i
    BY <1>2, <1>3
  <2> QED
    BY <2>1, <1>1, <1>3
<1>6. \A i \in 1 .. d + n : clock - history[i] > Window
  <2> SUFFICES ASSUME NEW i \in 1 .. d + n, ~(i <= d) PROVE clock - history[i] > Window
    BY <1>1
  <2>1. i - d \in 1 .. n /\ i - d \in 1 .. Len(times) /\ d + (i - d) = i
    BY <1>2
  <2>2. Stale(times[i - d]) /\ times[i - d] = history[i]
    BY <2>1, <1>1, <1>2
  <2> QED
    BY <2>2 DEF Stale
<1> QED
  BY <1>4, <1>5, <1>6 DEF Remembers

\* A request that is let through is added to the deque and to the history
\* (rate_limit.py:55).
LEMMA AppendRemembers ==
    ASSUME NEW times \in Seq(Nat), NEW history \in Seq(Nat), NEW t \in Nat,
           Remembers(times, history, t)
    PROVE  Remembers(Append(times, t), Append(history, t), t)
<1>1. PICK d \in 0 .. Len(history) :
        /\ Len(times) = Len(history) - d
        /\ \A i \in 1 .. Len(times) : times[i] = history[d + i]
        /\ \A i \in 1 .. d : t - history[i] > Window
  BY DEF Remembers
<1> DEFINE a == Append(times, t)
           b == Append(history, t)
<1>2. /\ Len(a) = Len(times) + 1 /\ a[Len(times) + 1] = t
      /\ \A i \in 1 .. Len(times) : a[i] = times[i]
      /\ Len(b) = Len(history) + 1 /\ b[Len(history) + 1] = t
      /\ \A i \in 1 .. Len(history) : b[i] = history[i]
  BY AppendProperties
<1> HIDE DEF a, b
<1>3. d \in 0 .. Len(b) /\ Len(a) = Len(b) - d
  BY <1>1, <1>2
<1>4. \A i \in 1 .. Len(a) : a[i] = b[d + i]
  <2> SUFFICES ASSUME NEW i \in 1 .. Len(a) PROVE a[i] = b[d + i]
    OBVIOUS
  <2>1. CASE i <= Len(times)
    <3>1. i \in 1 .. Len(times) /\ d + i \in 1 .. Len(history)
      BY <2>1, <1>1
    <3> QED
      BY <3>1, <1>1, <1>2
  <2>2. CASE i = Len(times) + 1
    <3>1. d + i = Len(history) + 1
      BY <2>2, <1>1
    <3> QED
      BY <3>1, <2>2, <1>2
  <2>3. i <= Len(times) \/ i = Len(times) + 1
    <3>1. Len(a) = Len(times) + 1 /\ Len(times) \in Nat
      BY <1>2
    <3> QED
      BY <3>1
  <2> QED
    BY <2>1, <2>2, <2>3
<1>5. \A i \in 1 .. d : t - b[i] > Window
  <2> SUFFICES ASSUME NEW i \in 1 .. d PROVE t - b[i] > Window
    OBVIOUS
  <2>1. i \in 1 .. Len(history)
    BY <1>1
  <2> QED
    BY <2>1, <1>1, <1>2
<1> QED
  BY <1>3, <1>4, <1>5 DEF Remembers, a, b

\* What is stale stays stale as time goes on.
LEMMA LaterRemembers ==
    ASSUME NEW times \in Seq(Nat), NEW history \in Seq(Nat), NEW t \in Nat,
           Remembers(times, history, t)
    PROVE  Remembers(times, history, t + 1)
<1>1. PICK d \in 0 .. Len(history) :
        /\ Len(times) = Len(history) - d
        /\ \A i \in 1 .. Len(times) : times[i] = history[d + i]
        /\ \A i \in 1 .. d : t - history[i] > Window
  BY DEF Remembers
<1>2. \A i \in 1 .. d : (t + 1) - history[i] > Window
  <2> SUFFICES ASSUME NEW i \in 1 .. d PROVE (t + 1) - history[i] > Window
    OBVIOUS
  <2>1. history[i] \in Nat /\ t - history[i] > Window
    BY <1>1
  <2> QED
    BY <2>1, WindowType
<1> QED
  BY <1>1, <1>2 DEF Remembers

\* What is stale is forgotten on either side.
LEMMA SameRecent ==
    ASSUME NEW times \in Seq(Nat), NEW history \in Seq(Nat), clock \in Nat,
           Remembers(times, history, clock)
    PROVE  Recent(times) = Recent(history)
<1>1. PICK d \in 0 .. Len(history) :
        /\ Len(times) = Len(history) - d
        /\ \A i \in 1 .. Len(times) : times[i] = history[d + i]
        /\ \A i \in 1 .. d : clock - history[i] > Window
  BY DEF Remembers
<1> DEFINE n == Dropped(times)
<1>2. /\ n \in 0 .. Len(times)
      /\ \A i \in 1 .. n : Stale(times[i])
      /\ n < Len(times) => ~Stale(times[n + 1])
  BY DroppedStops
<1>3. Dropped(history) = d + n
  <2> HIDE DEF n
  <2>1. d + n \in 0 .. Len(history)
    BY <1>1, <1>2
  <2>2. \A i \in 1 .. d + n : Stale(history[i])
    <3> SUFFICES ASSUME NEW i \in 1 .. d + n PROVE Stale(history[i])
      OBVIOUS
    <3>1. CASE i <= d
      BY <3>1, <1>1 DEF Stale
    <3>2. CASE i > d
      <4>1. i - d \in 1 .. n /\ i - d \in 1 .. Len(times) /\ d + (i - d) = i
        BY <3>2, <1>2
      <4> QED
        BY <4>1, <1>1, <1>2
    <3> QED
      BY <3>1, <3>2
  <2>3. d + n < Len(history) => ~Stale(history[d + n + 1])
    <3> SUFFICES ASSUME d + n < Len(history) PROVE ~Stale(history[d + n + 1])
      OBVIOUS
    <3>1. n < Len(times) /\ n + 1 \in 1 .. Len(times) /\ d + (n + 1) = d + n + 1
      BY <1>1, <1>2
    <3> QED
      BY <3>1, <1>1, <1>2
  <2> QED
    BY <2>1, <2>2, <2>3, DroppedIs
<1>4. /\ Recent(times) \in Seq(Nat) /\ Len(Recent(times)) = Len(times) - n
      /\ \A i \in 1 .. Len(Recent(times)) : Recent(times)[i] = times[n + i]
      /\ Recent(history) \in Seq(Nat) /\ Len(Recent(history)) = Len(history) - (d + n)
      /\ \A i \in 1 .. Len(Recent(history)) : Recent(history)[i] = history[(d + n) + i]
  BY <1>3, RecentType
<1> HIDE DEF n
<1>5. Len(Recent(times)) = Len(Recent(history))
  BY <1>1, <1>2, <1>4
<1>6. \A i \in 1 .. Len(Recent(times)) : Recent(times)[i] = Recent(history)[i]
  <2> SUFFICES ASSUME NEW i \in 1 .. Len(Recent(times)) PROVE Recent(times)[i] = Recent(history)[i]
    OBVIOUS
  <2>1. n + i \in 1 .. Len(times) /\ d + (n + i) = (d + n) + i
    <3>1. Len(Recent(times)) = Len(times) - n /\ n \in Nat /\ Len(times) \in Nat /\ d \in Nat
      BY <1>2, <1>4
    <3> QED
      BY <3>1
  <2> QED
    BY <2>1, <1>1, <1>4, <1>5
<1> QED
  BY <1>4, <1>5, <1>6, SeqEqual

-----------------------------------------------------------------------------
(* Steps *)

\* The whole seconds of Retry-After, rounded up, outlast the oldest hit.
LEMMA RoundedUp ==
    ASSUME NEW x \in Nat
    PROVE  x \div TicksPerSecond + 1 \in Nat /\ (x \div TicksPerSecond + 1) * TicksPerSecond > x
<1>1. TicksPerSecond \in Nat /\ TicksPerSecond > 0
  BY WindowType
<1> DEFINE q == x \div TicksPerSecond
<1>2. q \in Nat
  BY <1>1, SMTT(30)
<1>3. (q + 1) * TicksPerSecond > x
  BY <1>1, SMTT(30)
<1> QED
  BY <1>2, <1>3

\* An app that has just been created remembers everything: nothing.
LEMMA InitInvariant ==
    ASSUME GateInit
    PROVE  IInv
<1>1. Len(<< >>) = 0 /\ << >> \in Seq(Nat)
  BY EmptySeq
<1>2. /\ limit \in Limits /\ clock = 0
      /\ \A k \in Keys : hits[k] = << >> /\ passed[k] = << >> /\ admitted[k] = << >> /\ retry_at[k] = 0
      /\ hits \in [Keys -> Seq(Nat)] /\ passed \in [Keys -> Seq(Nat)] /\ admitted \in [Keys -> Seq(Nat)]
      /\ retry_at \in [Keys -> Int]
  BY <1>1 DEF GateInit
<1>3. Remembers(<< >>, << >>, clock)
  BY <1>1 DEF Remembers
<1>4. GateTypeOK
  BY <1>2 DEF GateTypeOK
<1>5. HitsRemember
  BY <1>2, <1>3 DEF HitsRemember
<1>6. QuotaRemembered
  BY <1>2, <1>3 DEF QuotaRemembered, Keys
<1>7. LimitKept
  <2> SUFFICES ASSUME limit # NoLimit, NEW k \in Keys PROVE Len(hits[k]) <= limit
    BY DEF LimitKept
  <2>1. limit \in Nat
    BY <1>2, GateAssumption
  <2> QED
    BY <2>1, <1>1, <1>2
<1>8. RetryKept
  BY <1>2 DEF RetryKept
<1>9. WindowNeverExceeded
  <2>1. \A k \in Keys : DOMAIN passed[k] = {}
    BY <1>1, <1>2
  <2> QED
    BY <2>1 DEF WindowNeverExceeded
<1> QED
  BY <1>4, <1>5, <1>6, <1>7, <1>8, <1>9 DEF IInv

\* Time alone disturbs nothing.
LEMMA TickStep ==
    ASSUME IInv, Tick
    PROVE  IInv'
<1> USE DEF IInv
<1>1. GateTypeOK'
  BY DEF GateTypeOK, Tick
<1>2. HitsRemember'
  <2> SUFFICES ASSUME NEW k \in Keys PROVE Remembers(hits[k], passed[k], clock + 1)
    BY DEF HitsRemember, Tick
  <2>1. hits[k] \in Seq(Nat) /\ passed[k] \in Seq(Nat) /\ clock \in Nat
    BY DEF GateTypeOK
  <2> QED
    BY <2>1, LaterRemembers DEF HitsRemember
<1>3. QuotaRemembered'
  <2> SUFFICES ASSUME limit # NoLimit, auth_on, NEW k \in ApiKeys PROVE Remembers(hits[k], admitted[k], clock + 1)
    BY DEF QuotaRemembered, Tick
  <2>1. hits[k] \in Seq(Nat) /\ admitted[k] \in Seq(Nat) /\ clock \in Nat
    BY DEF GateTypeOK, Keys
  <2> QED
    BY <2>1, LaterRemembers DEF QuotaRemembered
<1>4. LimitKept' /\ RetryKept' /\ WindowNeverExceeded'
  BY DEF LimitKept, RetryKept, WindowNeverExceeded, Tick
<1> QED
  BY <1>1, <1>2, <1>3, <1>4

\* A client of the limiter is one of Keys, and a configured key stands for
\* itself only.
LEMMA ClientKeyType ==
    ASSUME NEW r \in Requests
    PROVE  ClientKey(r) \in Keys /\ (ClientKey(r) \in ApiKeys => r.auth = ClientKey(r))
BY GateAssumption DEF Requests, ClientKey, Keys

\* A refused request (rate_limit.py:47-53) only forgets stale hits, and the
\* Retry-After it is given reaches past the oldest hit that is left.
LEMMA ThrottleStep ==
    ASSUME IInv, NEW r \in Requests, Throttle(r), UNCHANGED <<limit, auth_on, clock>>
    PROVE  IInv'
<1> DEFINE k == ClientKey(r)
           R == Recent(hits[k])
<1>1. k \in Keys
  BY ClientKeyType
<1> HIDE DEF k
<1>2. /\ clock \in Nat /\ limit \in Nat /\ limit # NoLimit
      /\ hits[k] \in Seq(Nat) /\ passed[k] \in Seq(Nat) /\ hits \in [Keys -> Seq(Nat)]
      /\ passed \in [Keys -> Seq(Nat)] /\ admitted \in [Keys -> Seq(Nat)] /\ retry_at \in [Keys -> Int]
  BY <1>1, GateAssumption DEF IInv, GateTypeOK, Throttle, Metered
<1>3. /\ R \in Seq(Nat) /\ Len(R) = Len(hits[k]) - Dropped(hits[k])
      /\ R # << >> => ~Stale(R[1])
  BY <1>2, RecentType
<1>4. Dropped(hits[k]) \in 0 .. Len(hits[k])
  BY <1>2, DroppedStops
<1> HIDE DEF R
<1>5. /\ Len(R) >= limit
      /\ hits' = [hits EXCEPT ![k] = R]
      /\ retry_at' = IF R = << >> THEN retry_at
                     ELSE [retry_at EXCEPT ![k] = clock + RetryAfter(k) * TicksPerSecond]
      /\ passed' = passed /\ admitted' = admitted
      /\ limit' = limit /\ auth_on' = auth_on /\ clock' = clock
  BY DEF Throttle, k, R
<1>6. R # << >> => /\ R[1] \in Nat
                   /\ clock + RetryAfter(k) * TicksPerSecond \in Int
                   /\ clock + RetryAfter(k) * TicksPerSecond > Window + R[1]
  <2> SUFFICES ASSUME R # << >>
               PROVE  /\ R[1] \in Nat
                      /\ clock + RetryAfter(k) * TicksPerSecond \in Int
                      /\ clock + RetryAfter(k) * TicksPerSecond > Window + R[1]
    OBVIOUS
  <2>1. R[1] \in Nat
    BY <1>3, EmptySeq
  <2> DEFINE x == Window - (clock - R[1])
  <2>2. x \in Nat
    BY <1>2, <1>3, <2>1, WindowType DEF Stale
  <2>3. RetryAfter(k) = x \div TicksPerSecond + 1
    BY DEF RetryAfter, R
  <2> DEFINE y == RetryAfter(k) * TicksPerSecond
  <2>4. y \in Nat /\ y > x
    <3> HIDE DEF x
    <3>1. RetryAfter(k) \in Nat /\ RetryAfter(k) * TicksPerSecond > x
      BY <2>2, <2>3, RoundedUp
    <3> QED
      BY <3>1, WindowType, SMTT(30)
  <2> HIDE DEF y
  <2>5. clock + y > Window + R[1]
    BY <1>2, <2>1, <2>4, WindowType
  <2> QED
    BY <1>2, <2>1, <2>4, <2>5 DEF y
<1>7. GateTypeOK'
  BY <1>2, <1>3, <1>5, <1>6 DEF IInv, GateTypeOK
<1>8. HitsRemember'
  <2> SUFFICES ASSUME NEW j \in Keys PROVE Remembers(hits'[j], passed[j], clock)
    BY <1>5 DEF HitsRemember
  <2>1. Remembers(hits[j], passed[j], clock)
    BY DEF IInv, HitsRemember
  <2>2. CASE j = k
    <3>1. Remembers(R, passed[k], clock)
      BY <2>1, <2>2, <1>2, RecentRemembers DEF R
    <3> QED
      BY <3>1, <2>2, <1>2, <1>5
  <2>3. CASE j # k
    BY <2>1, <2>3, <1>5, <1>2
  <2> QED
    BY <2>2, <2>3
<1>9. QuotaRemembered'
  <2> SUFFICES ASSUME auth_on, NEW j \in ApiKeys PROVE Remembers(hits'[j], admitted[j], clock)
    BY <1>5 DEF QuotaRemembered
  <2>1. Remembers(hits[j], admitted[j], clock) /\ j \in Keys /\ admitted[j] \in Seq(Nat)
    BY <1>2 DEF IInv, QuotaRemembered, Keys
  <2>2. CASE j = k
    <3>1. Remembers(R, admitted[k], clock)
      BY <2>1, <2>2, <1>2, RecentRemembers DEF R
    <3> QED
      BY <3>1, <2>2, <1>1, <1>2, <1>5
  <2>3. CASE j # k
    BY <2>1, <2>3, <1>5, <1>2
  <2> QED
    BY <2>2, <2>3
<1>10. LimitKept'
  <2> SUFFICES ASSUME NEW j \in Keys PROVE Len(hits'[j]) <= limit
    BY <1>5 DEF LimitKept
  <2>1. Len(hits[j]) <= limit /\ Len(hits[k]) <= limit /\ hits[j] \in Seq(Nat)
    BY <1>1, <1>2 DEF IInv, LimitKept
  <2>2. Len(R) <= limit
    BY <2>1, <1>2, <1>3, <1>4
  <2>3. hits'[j] = R \/ hits'[j] = hits[j]
    BY <1>5, <1>2
  <2> QED
    BY <2>1, <2>2, <2>3
<1>11. RetryKept'
  <2> SUFFICES ASSUME NEW j \in Keys, retry_at'[j] # 0
               PROVE  hits'[j] # << >> /\ retry_at'[j] > Window + hits'[j][1]
    BY <1>2, <1>5 DEF RetryKept
  <2>1. retry_at[j] # 0 => hits[j] # << >> /\ retry_at[j] > Window + hits[j][1]
    BY DEF IInv, RetryKept
  <2>2. CASE j # k
    <3>1. hits'[j] = hits[j] /\ retry_at'[j] = retry_at[j]
      BY <2>2, <1>2, <1>5
    <3> QED
      BY <3>1, <2>1
  <2>3. CASE j = k /\ R # << >>
    <3>1. hits'[j] = R /\ retry_at'[j] = clock + RetryAfter(k) * TicksPerSecond
      BY <2>3, <1>1, <1>2, <1>5
    <3> QED
      BY <3>1, <2>3, <1>6
  <2>4. CASE j = k /\ R = << >>
    <3>1. Len(R) = 0 /\ Len(hits[k]) \in Nat
      BY <2>4, <1>2, EmptySeq
    <3>2. limit = 0
      BY <3>1, <1>2, <1>5
    <3>3. Len(hits[k]) <= limit
      BY <1>1, <1>2 DEF IInv, LimitKept
    <3>4. hits[k] = << >>
      BY <3>1, <3>2, <3>3, <1>2, EmptySeq
    <3>5. retry_at[k] # 0
      BY <2>4, <1>5
    <3> QED
      BY <2>1, <2>4, <3>4, <3>5
  <2> QED
    BY <2>2, <2>3, <2>4
<1>12. WindowNeverExceeded'
  BY <1>5 DEF IInv, WindowNeverExceeded
<1> QED
  BY <1>7, <1>8, <1>9, <1>10, <1>11, <1>12 DEF IInv

\* A request that passes the limiter (rate_limit.py:55), whatever its keys
\* make of it (auth.py:23-33): its hit joins one deque, and the hit that is limit
\* places earlier in the history has been forgotten, so it is stale.
LEMMA LetThroughStep ==
    ASSUME IInv, NEW r \in Requests, LetThrough(r), UNCHANGED <<limit, auth_on, clock>>
    PROVE  IInv'
<1> DEFINE k == ClientKey(r)
           R == Recent(hits[k])
           ok == ~auth_on \/ r.auth \in ApiKeys
<1>1. k \in Keys /\ (k \in ApiKeys => r.auth = k)
  BY ClientKeyType
<1>2. ASSUME ~Metered(r) PROVE IInv'
  <2>1. UNCHANGED <<limit, auth_on, clock, hits, passed, admitted, retry_at>>
    BY <1>2 DEF LetThrough
  <2> QED
    BY <2>1 DEF IInv, GateTypeOK, HitsRemember, QuotaRemembered, LimitKept, RetryKept, WindowNeverExceeded
<1>3. ASSUME Metered(r) PROVE IInv'
  <2>1. /\ Len(R) < limit
        /\ hits' = [hits EXCEPT ![k] = Append(R, clock)]
        /\ passed' = [passed EXCEPT ![k] = Append(passed[k], clock)]
        /\ admitted' = IF ok /\ r.auth # NoKey
                       THEN [admitted EXCEPT ![r.auth] = Append(admitted[r.auth], clock)] ELSE admitted
        /\ retry_at' = [retry_at EXCEPT ![k] = 0]
        /\ limit' = limit /\ auth_on' = auth_on /\ clock' = clock
    BY <1>3 DEF LetThrough, Note
  <2> HIDE DEF k
  <2>2. /\ clock \in Nat /\ limit \in Nat /\ limit # NoLimit
        /\ hits[k] \in Seq(Nat) /\ passed[k] \in Seq(Nat) /\ hits \in [Keys -> Seq(Nat)]
        /\ passed \in [Keys -> Seq(Nat)] /\ admitted \in [Keys -> Seq(Nat)] /\ retry_at \in [Keys -> Int]
    BY <1>1, <1>3, GateAssumption DEF IInv, GateTypeOK, Metered
  <2>3. R \in Seq(Nat)
    BY <2>2, RecentType
  <2>4. Remembers(R, passed[k], clock)
    BY <1>1, <2>2, RecentRemembers DEF IInv, HitsRemember
  <2>5. \A j \in ApiKeys : auth_on => Remembers(hits[j], admitted[j], clock)
    BY <2>2 DEF IInv, QuotaRemembered
  <2>6. auth_on /\ k \in ApiKeys => Remembers(R, admitted[k], clock)
    BY <1>1, <2>2, <2>5, RecentRemembers
  <2> HIDE DEF R
  <2>7. /\ Append(R, clock) \in Seq(Nat) /\ Append(R, clock) # << >>
        /\ Len(Append(R, clock)) = Len(R) + 1
        /\ Append(passed[k], clock) \in Seq(Nat)
        /\ Len(Append(passed[k], clock)) = Len(passed[k]) + 1
        /\ \A i \in 1 .. Len(passed[k]) : Append(passed[k], clock)[i] = passed[k][i]
        /\ Append(passed[k], clock)[Len(passed[k]) + 1] = clock
    <3>1. /\ Append(R, clock) \in Seq(Nat) /\ Append(R, clock) # << >>
          /\ Len(Append(R, clock)) = Len(R) + 1
      <4>1. R \in Seq(Nat) /\ clock \in Nat
        BY <2>2, <2>3
      <4> QED
        BY <4>1, AppendProperties
    <3>2. passed[k] \in Seq(Nat) /\ clock \in Nat
      BY <2>2
    <3>3. /\ Append(passed[k], clock) \in Seq(Nat)
          /\ Len(Append(passed[k], clock)) = Len(passed[k]) + 1
          /\ \A i \in 1 .. Len(passed[k]) : Append(passed[k], clock)[i] = passed[k][i]
          /\ Append(passed[k], clock)[Len(passed[k]) + 1] = clock
      BY <3>2, AppendProperties
    <3> QED
      BY <3>1, <3>3
  <2>8. GateTypeOK'
    <3>1. hits' \in [Keys -> Seq(Nat)] /\ passed' \in [Keys -> Seq(Nat)] /\ retry_at' \in [Keys -> Int]
      <4>1. hits' \in [Keys -> Seq(Nat)]
        BY <2>1, <2>2, <2>7
      <4>2. passed' \in [Keys -> Seq(Nat)]
        BY <2>1, <2>2, <2>7
      <4>3. retry_at' \in [Keys -> Int]
        <5>1. retry_at' = [retry_at EXCEPT ![k] = 0] /\ retry_at \in [Keys -> Int] /\ 0 \in Int
          BY <2>1, <2>2
        <5> QED
          BY <5>1
      <4> QED
        BY <4>1, <4>2, <4>3
    <3>2. admitted' \in [Keys -> Seq(Nat)]
      <4>1. CASE ok /\ r.auth # NoKey
        <5>1. r.auth \in Keys
          BY <4>1 DEF Requests, Keys
        <5>2. Append(admitted[r.auth], clock) \in Seq(Nat)
          BY <5>1, <2>2, AppendProperties
        <5> QED
          BY <4>1, <5>1, <5>2, <2>1, <2>2
      <4>2. CASE ~(ok /\ r.auth # NoKey)
        BY <4>2, <2>1, <2>2
      <4> QED
        BY <4>1, <4>2
    <3> QED
      BY <3>1, <3>2, <2>1 DEF IInv, GateTypeOK
  <2>9. HitsRemember'
    <3> SUFFICES ASSUME NEW j \in Keys PROVE Remembers(hits'[j], passed'[j], clock)
      BY <2>1 DEF HitsRemember
    <3>1. CASE j = k
      <4>1. Remembers(Append(R, clock), Append(passed[k], clock), clock)
        BY <2>2, <2>3, <2>4, AppendRemembers
      <4> QED
        BY <3>1, <4>1, <2>1, <2>2
    <3>2. CASE j # k
      <4>1. Remembers(hits[j], passed[j], clock)
        BY DEF IInv, HitsRemember
      <4> QED
        BY <3>2, <4>1, <2>1, <2>2
    <3> QED
      BY <3>1, <3>2
  <2>10. QuotaRemembered'
    <3> SUFFICES ASSUME auth_on, NEW j \in ApiKeys PROVE Remembers(hits'[j], admitted'[j], clock)
      BY <2>1 DEF QuotaRemembered
    <3>1. j \in Keys /\ j # NoKey
      BY GateAssumption DEF Keys
    <3>2. CASE j = k
      <4>1. r.auth = k /\ ok /\ r.auth # NoKey
        BY <3>1, <3>2, <1>1
      <4>2. admitted'[k] = Append(admitted[k], clock) /\ hits'[k] = Append(R, clock)
        BY <4>1, <1>1, <2>1, <2>2
      <4>3. admitted[k] \in Seq(Nat) /\ Remembers(R, admitted[k], clock)
        BY <3>2, <1>1, <2>2, <2>6
      <4> QED
        BY <3>2, <4>2, <4>3, <2>2, <2>3, AppendRemembers
    <3>3. CASE j # k
      <4>1. ~(r.auth = j /\ ok)
        BY <3>1, <3>3 DEF ClientKey, k
      <4>2. admitted'[j] = admitted[j] /\ hits'[j] = hits[j]
        BY <3>1, <3>3, <4>1, <2>1, <2>2
      <4> QED
        BY <4>2, <2>5
    <3> QED
      BY <3>2, <3>3
  <2>11. LimitKept'
    <3> SUFFICES ASSUME NEW j \in Keys PROVE Len(hits'[j]) <= limit
      BY <2>1 DEF LimitKept
    <3>1. Len(hits[j]) <= limit
      BY <2>2 DEF IInv, LimitKept
    <3>2. Len(Append(R, clock)) <= limit
      <4>1. Len(R) \in Nat
        BY <2>3
      <4> QED
        BY <4>1, <2>1, <2>2, <2>7
    <3>3. hits'[j] = Append(R, clock) \/ hits'[j] = hits[j]
      BY <2>1, <2>2
    <3> QED
      BY <3>1, <3>2, <3>3
  <2>12. RetryKept'
    <3> SUFFICES ASSUME NEW j \in Keys, retry_at'[j] # 0
                 PROVE  hits'[j] # << >> /\ retry_at'[j] > Window + hits'[j][1]
      BY <2>1, <2>2 DEF RetryKept
    <3>1. j # k
      BY <2>1, <2>2
    <3>2. hits'[j] = hits[j] /\ retry_at'[j] = retry_at[j]
      BY <3>1, <2>1, <2>2
    <3> QED
      BY <3>2 DEF IInv, RetryKept
  <2>13. WindowNeverExceeded'
    <3> SUFFICES ASSUME NEW j \in Keys, NEW i \in DOMAIN passed'[j], i + limit \in DOMAIN passed'[j]
                 PROVE  passed'[j][i + limit] - passed'[j][i] > Window
      BY <2>1 DEF WindowNeverExceeded
    <3>1. \A n \in DOMAIN passed[j] : n + limit \in DOMAIN passed[j] => passed[j][n + limit] - passed[j][n] > Window
      BY <2>2 DEF IInv, WindowNeverExceeded
    <3>2. CASE j # k
      <4>1. passed'[j] = passed[j]
        BY <3>2, <2>1, <2>2
      <4> QED
        BY <4>1, <3>1
    <3>3. CASE j = k
      <4> DEFINE n == Len(passed[k])
      <4>1. passed'[k] = Append(passed[k], clock) /\ n \in Nat /\ DOMAIN passed[k] = 1 .. n
        <5>1. passed'[k] = Append(passed[k], clock)
          BY <1>1, <2>1, <2>2
        <5>2. passed[k] \in Seq(Nat)
          BY <2>2
        <5> QED
          BY <5>1, <5>2, LenProperties
      <4>2. DOMAIN passed'[k] = 1 .. n + 1
        BY <4>1, <2>7
      <4>3. i \in 1 .. n + 1 /\ i + limit \in 1 .. n + 1
        BY <3>3, <4>2
      <4>4. limit > 0
        <5>1. Len(R) \in Nat
          BY <2>3
        <5> QED
          BY <5>1, <2>1, <2>2
      <4>5. i \in 1 .. n /\ passed'[k][i] = passed[k][i]
        <5>1. i \in 1 .. n
          BY <4>1, <4>3, <4>4, <2>2
        <5> QED
          BY <5>1, <4>1, <2>7
      <4>6. CASE i + limit \in 1 .. n
        <5>1. passed'[k][i + limit] = passed[k][i + limit]
          BY <4>6, <4>1, <2>7
        <5> QED
          BY <5>1, <4>1, <4>5, <4>6, <3>1, <3>3
      <4>7. CASE i + limit = n + 1
        <5>1. PICK d \in 0 .. n : Len(R) = n - d /\ \A m \in 1 .. d : clock - passed[k][m] > Window
          BY <2>4 DEF Remembers
        <5>2. i \in 1 .. d
          <6>1. n - d < limit /\ d \in Nat
            BY <5>1, <2>1
          <6> QED
            BY <6>1, <4>7, <4>1, <4>3, <2>2
        <5>3. passed'[k][i + limit] = clock
          BY <4>7, <4>1, <2>7
        <5> QED
          BY <5>1, <5>2, <5>3, <4>5, <3>3
      <4>8. i + limit \in 1 .. n \/ i + limit = n + 1
        BY <4>1, <4>3
      <4> QED
        BY <4>6, <4>7, <4>8
    <3> QED
      BY <3>2, <3>3
  <2> QED
    BY <2>8, <2>9, <2>10, <2>11, <2>12, <2>13 DEF IInv
<1> QED
  BY <1>2, <1>3

\* Every step of the gate keeps the invariant.
LEMMA StepKeepsInvariant ==
    ASSUME IInv, [GateNext]_gateVars
    PROVE  IInv'
<1>1. CASE Tick
  BY <1>1, TickStep
<1>2. ASSUME NEW r \in Requests, Arrive(r) PROVE IInv'
  <2>1. UNCHANGED <<limit, auth_on, clock>> /\ (Throttle(r) \/ LetThrough(r))
    BY <1>2 DEF Arrive
  <2> QED
    BY <2>1, ThrottleStep, LetThroughStep
<1>3. CASE UNCHANGED gateVars
  BY <1>3 DEF gateVars, IInv, GateTypeOK, HitsRemember, QuotaRemembered, LimitKept, RetryKept, WindowNeverExceeded
<1> QED
  BY <1>1, <1>2, <1>3 DEF GateNext

\* The inductive invariant behind the properties below: deques are ends of
\* their histories and hold at most limit hits (rate_limit.py:41-55).
THEOREM GateInvariant == GateSpec => []IInv
<1>1. GateInit => IInv
  BY InitInvariant
<1>2. IInv /\ [GateNext]_gateVars => IInv'
  BY StepKeepsInvariant
<1> QED
  BY <1>1, <1>2, PTL DEF GateSpec

-----------------------------------------------------------------------------
(* The properties *)

\* No window, its ends included, has more than limit requests of one client in
\* it, although the deque has forgotten most of them (rate_limit.py:44-55).
THEOREM LimitHolds == GateSpec => []WindowNeverExceeded
<1>1. IInv => WindowNeverExceeded
  BY DEF IInv
<1> QED
  BY <1>1, GateInvariant, PTL

\* Who waits as long as Retry-After says is not refused again
\* (rate_limit.py:47-53).
THEOREM RetryAfterIsEnough == GateSpec => []RetryAfterHonest
<1>1. ASSUME IInv PROVE RetryAfterHonest
  <2> SUFFICES ASSUME NEW k \in Keys, retry_at[k] # 0, clock >= retry_at[k]
               PROVE  Len(Recent(hits[k])) < limit
    BY DEF RetryAfterHonest
  <2>1. /\ clock \in Nat /\ limit \in Nat /\ hits[k] \in Seq(Nat) /\ retry_at[k] \in Int
        /\ hits[k] # << >> /\ retry_at[k] > Window + hits[k][1] /\ Len(hits[k]) <= limit
    BY <1>1, GateAssumption DEF IInv, GateTypeOK, RetryKept, LimitKept
  <2>2. Len(hits[k]) \in Nat /\ Len(hits[k]) > 0 /\ hits[k][1] \in Nat
    BY <2>1, EmptySeq
  <2>3. Stale(hits[k][1])
    BY <2>1, <2>2, WindowType DEF Stale
  <2> DEFINE n == Dropped(hits[k])
  <2>4. n \in 0 .. Len(hits[k]) /\ (n < Len(hits[k]) => ~Stale(hits[k][n + 1]))
    BY <2>1, DroppedStops
  <2>5. Len(Recent(hits[k])) = Len(hits[k]) - n
    BY <2>1, RecentType
  <2> HIDE DEF n
  <2>6. n # 0
    BY <2>2, <2>3, <2>4
  <2> QED
    BY <2>1, <2>2, <2>4, <2>5, <2>6
<1> QED
  BY <1>1, GateInvariant, PTL

\* What the limiter counts against a configured key is what that key was
\* admitted with, whoever else calls (auth.py:27-33, rate_limit.py:41-55).
THEOREM QuotaHolds == GateSpec => []QuotaIsOwn
<1>1. ASSUME IInv PROVE QuotaIsOwn
  <2> SUFFICES ASSUME limit # NoLimit, auth_on, NEW k \in ApiKeys
               PROVE  Recent(hits[k]) = Recent(admitted[k])
    BY DEF QuotaIsOwn
  <2>1. clock \in Nat /\ hits[k] \in Seq(Nat) /\ admitted[k] \in Seq(Nat)
    BY <1>1 DEF IInv, GateTypeOK, Keys
  <2>2. Remembers(hits[k], admitted[k], clock)
    BY <1>1 DEF IInv, QuotaRemembered
  <2> QED
    BY <2>1, <2>2, SameRecent
<1> QED
  BY <1>1, GateInvariant, PTL

=============================================================================
