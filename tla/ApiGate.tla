------------------------------- MODULE ApiGate -------------------------------
(***************************************************************************)
(* What a request passes before its handler runs: the middleware of        *)
(* wllm/api/server.py.  Starlette puts what is added last outermost, so    *)
(* the rate limiter (rate_limit.py) comes first, then the API keys         *)
(* (auth.py).  The clock counts parts of a second.                         *)
(***************************************************************************)
EXTENDS Integers, Sequences

CONSTANTS
    ApiKeys, OtherKeys,     \* configured, and not
    NoKey, Hosts,           \* no Authorization: Bearer header; request.client.host
    Limits,                 \* requests_per_minute, NoLimit: no limiter installed
    NoLimit,
    WindowSeconds, TicksPerSecond,
    MaxTime, MaxRequests    \* bounds

Window == WindowSeconds * TicksPerSecond

ASSUME GateAssumption ==
    /\ Limits \subseteq Nat \cup {NoLimit}
    /\ WindowSeconds \in Nat /\ TicksPerSecond \in Nat \ {0}
    /\ NoKey \notin ApiKeys /\ Hosts \cap ApiKeys = {}     \* keys start with "Bearer "

Requests == [gated : BOOLEAN, auth : ApiKeys \cup OtherKeys \cup {NoKey}, host : Hosts]

Keys == ApiKeys \cup OtherKeys \cup Hosts

VARIABLES
    limit, auth_on,         \* how the app was created
    clock,
    hits,                   \* _hits: key -> times
    passed,                 \* ghost: key -> times the limiter has let through
    admitted,               \* ghost: key -> times a handler has run for it
    retry_at,               \* ghost: key -> when a refused client may come back, or 0
    requests                \* bounded ghost: how many so far

gateVars == <<limit, auth_on, clock, hits, passed, admitted, retry_at, requests>>

GateInit ==
    /\ limit \in Limits /\ auth_on \in BOOLEAN
    /\ clock = 0
    /\ hits = [k \in Keys |-> <<>>]
    /\ passed = hits /\ admitted = hits
    /\ retry_at = [k \in Keys |-> 0]
    /\ requests = 0

-----------------------------------------------------------------------------

\* Mutant: clients are told apart by host only.
ClientHost(r) == r.host

\* _client_key
ClientKey(r) == IF r.auth # NoKey THEN r.auth ELSE r.host

\* Mutant: a hit that is exactly as old as the window is forgotten.
StaleEarly(h) == clock - h >= Window

Stale(h) == clock - h > Window

\* How many hits popleft takes off a deque.
Dropped(times) ==
    CHOOSE n \in 0 .. Len(times) :
        /\ \A i \in 1 .. n : Stale(times[i])
        /\ n < Len(times) => ~Stale(times[n + 1])

Recent(times) == SubSeq(times, Dropped(times) + 1, Len(times))

\* Mutant: the fraction of a second is cut off.
RetryAfterCut(k) == (Window - (clock - Recent(hits[k])[1])) \div TicksPerSecond

\* In whole seconds, int(retry_after) + 1.
RetryAfter(k) == (Window - (clock - Recent(hits[k])[1])) \div TicksPerSecond + 1

Metered(r) == r.gated /\ limit # NoLimit

Note(times, k) == [times EXCEPT ![k] = Append(@, clock)]

\* Status 429; with a limit of 0 there is no oldest hit, and the exception is
\* a 500.
Throttle(r) ==
    LET k == ClientKey(r) IN
    /\ Metered(r) /\ Len(Recent(hits[k])) >= limit
    /\ hits' = [hits EXCEPT ![k] = Recent(hits[k])]
    /\ retry_at' = IF Recent(hits[k]) = <<>> THEN retry_at
                   ELSE [retry_at EXCEPT ![k] = clock + RetryAfter(k) * TicksPerSecond]
    /\ UNCHANGED <<passed, admitted>>

\* The limiter counts the request before its key is looked at: status 401, or
\* the handler runs.
LetThrough(r) ==
    LET k == ClientKey(r)
        ok == ~auth_on \/ r.auth \in ApiKeys IN
    /\ Metered(r) => Len(Recent(hits[k])) < limit
    /\ hits' = IF Metered(r) THEN [hits EXCEPT ![k] = Append(Recent(hits[k]), clock)] ELSE hits
    /\ passed' = IF Metered(r) THEN Note(passed, k) ELSE passed
    /\ admitted' = IF Metered(r) /\ ok /\ r.auth # NoKey THEN Note(admitted, r.auth) ELSE admitted
    /\ retry_at' = IF Metered(r) THEN [retry_at EXCEPT ![k] = 0] ELSE retry_at

Arrive(r) ==
    /\ requests < MaxRequests
    /\ requests' = requests + 1
    /\ Throttle(r) \/ LetThrough(r)
    /\ UNCHANGED <<limit, auth_on, clock>>

Tick ==
    /\ clock < MaxTime
    /\ clock' = clock + 1
    /\ UNCHANGED <<limit, auth_on, hits, passed, admitted, retry_at, requests>>

GateNext ==
    \/ \E r \in Requests : Arrive(r)
    \/ Tick

GateSpec == GateInit /\ [][GateNext]_gateVars

-----------------------------------------------------------------------------
(* Properties *)

\* Whatever the deque forgets on the way, no window of the given length, its
\* ends included, has more than limit requests of one client in it.
WindowNeverExceeded ==
    limit # NoLimit =>
        \A k \in Keys : \A i \in DOMAIN passed[k] :
            i + limit \in DOMAIN passed[k] => passed[k][i + limit] - passed[k][i] > Window

\* A client that was refused and comes back after the Retry-After it was given
\* (rate_limit.py:46-52) is not refused again.
RetryAfterHonest ==
    \A k \in Keys : retry_at[k] # 0 /\ clock >= retry_at[k] => Len(Recent(hits[k])) < limit

\* "unauthenticated noise doesn't consume real clients' quota" (server.py:254-256):
\* the limiter does count it, but what it holds against a configured key is
\* that key's own requests, no more and no less.
QuotaIsOwn ==
    limit # NoLimit /\ auth_on =>
        \A k \in ApiKeys : Recent(hits[k]) = Recent(admitted[k])

=============================================================================
